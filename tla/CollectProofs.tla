---------------------------- MODULE CollectProofs ----------------------------
(***************************************************************************)
(* For every set of targets, subdomains and tool outputs, every table and  *)
(* every number of scans: which faults leave new_subdomains.txt behind,    *)
(* that a comparison misses nothing whatever the files hold, and that the  *)
(* files and messages implement the monitor until a fault damages them.    *)
(***************************************************************************)
EXTENDS Collect, OrderingProofs

(***************************************************************************)
(* The lines of a list that are not in the table, however the table hashes *)
(* them.                                                                   *)
(***************************************************************************)
LEMMA MetBeforeIsStrictOrder ==
    ASSUME NEW f \in Seq(Subs), NEW I \in SUBSET DOMAIN f
    PROVE  StrictOrder(MetBefore(f, I), I)
<1> DEFINE b(i) == Bucket[f[i]]
<1>1. \A i \in I : i \in Nat /\ b(i) \in Nat
  <2>1. /\ Len(f) \in Nat /\ DOMAIN f = 1..Len(f)
        /\ \A i \in DOMAIN f : f[i] \in Subs
    BY LenProperties, ElementOfSeq
  <2>2. \A s \in Subs : Bucket[s] \in Nat
    BY BucketAssumption
  <2> QED BY <2>1, <2>2
<1>2. \A i, j \in I : <<i, j>> \in MetBefore(f, I)
                        <=> b(i) < b(j) \/ (b(i) = b(j) /\ i > j)
  BY DEF MetBefore
<1> HIDE DEF b
<1> QED BY <1>1, <1>2 DEF StrictOrder

LEMMA MissingLines ==
    ASSUME NEW f \in Seq(Subs), NEW table
    PROVE  /\ Missing(f, table) \in Seq(Subs)
           /\ ToSet(Missing(f, table)) = ToSet(f) \ table
<1> DEFINE I == {i \in DOMAIN f : f[i] \notin table}
           R == MetBefore(f, I)
           d == Pick(f, InOrder(I, R))
<1>1. StrictOrder(R, I)
  BY MetBeforeIsStrictOrder
<1> HIDE DEF R
<1>2. d \in Seq(Subs) /\ Elements(d, DOMAIN d) = Elements(f, I)
  <2>1. I \in SUBSET DOMAIN f
    OBVIOUS
  <2> HIDE DEF I
  <2> QED BY <1>1, <2>1, PickTakesAll
<1>3. Missing(f, table) = d
  BY DEF Missing, R
<1> HIDE DEF d
<1>4. Elements(f, I) = ToSet(f) \ table /\ Elements(d, DOMAIN d) = ToSet(d)
  BY DEF ToSet, Elements
<1> QED BY <1>2, <1>3, <1>4

(***************************************************************************)
(* The inductive invariant: outside of a comparison new_subdomains.txt     *)
(* only exists when a program was killed after the rotation, for only      *)
(* compare_files creates it and each way out of it that the program takes  *)
(* itself removes it.                                                      *)
(***************************************************************************)
Quiet == {"idle", "rotate", "create", "copy"}

LeftoverInv == (pc \in Quiet /\ Exists(newsub)) => "late" \in seen

THEOREM LeftoverInvariant == Spec => []LeftoverInv
<1>1. Init => LeftoverInv
  BY DEF Init, LeftoverInv, Exists
<1>2. LeftoverInv /\ [Next]_vars => LeftoverInv'
  <2> SUFFICES ASSUME LeftoverInv, [Next]_vars
               PROVE  LeftoverInv'
    OBVIOUS
  <2> USE DEF LeftoverInv, Quiet, Exists, files
  <2>1. ASSUME NEW x \in Targets, NEW o \in Outputs, Begin(x, o)
        PROVE  LeftoverInv'
    BY <2>1 DEF Begin
  <2>2. CASE Rotate \/ RotateFails \/ NothingToRotate
    BY <2>2 DEF Rotate, RotateFails, NothingToRotate
  <2>3. CASE CreateList \/ CopyLine \/ OutputMissing
    BY <2>3 DEF CreateList, CopyLine, OutputMissing
  <2>4. CASE Compare \/ CompareFails
    BY <2>4 DEF Compare, CompareFails
  <2>5. CASE WriteDiff \/ DropOld \/ AppendNew \/ AppendDone
    BY <2>5 DEF WriteDiff, DropOld, AppendNew, AppendDone
  <2>6. CASE Send \/ SendFails \/ Clean
    BY <2>6 DEF Send, SendFails, Clean
  <2>7. CASE Crash
    <3>1. UNCHANGED newsub /\ seen \subseteq seen'
      BY <2>7 DEF Crash
    <3>2. CASE pc \in {"rotate", "create"}
      BY <3>1, <3>2
    <3>3. CASE pc \notin {"rotate", "create"}
      BY <2>7, <3>3 DEF Crash
    <3> QED BY <3>2, <3>3
  <2>8. CASE UNCHANGED vars
    BY <2>8 DEF vars
  <2> QED BY <2>1, <2>2, <2>3, <2>4, <2>5, <2>6, <2>7, <2>8 DEF Next
<1> QED BY <1>1, <1>2, PTL DEF Spec

(***************************************************************************)
(* new_subdomains.txt, which compare_files opens without O_TRUNC, is only  *)
(* left behind by a program that was killed during a scan.                 *)
(***************************************************************************)
THEOREM LeftoverNeedsCrash == Spec => []NoLeftoverWithoutCrash
<1>1. LeftoverInv => NoLeftoverWithoutCrash
  BY DEF LeftoverInv, NoLeftoverWithoutCrash, Quiet
<1> QED BY <1>1, LeftoverInvariant, PTL

(***************************************************************************)
(* The inductive invariant of what the comparison reports, whatever faults *)
(* there have been: a list that is being copied begins with the lines      *)
(* copied, the table of new lines has all that the tools printed and the   *)
(* old list has not, and new_subdomains.txt begins with its lines.         *)
(***************************************************************************)
Content == Seq(Subs) \cup {NoFile}

Places == {"idle", "rotate", "create", "copy", "diff", "append", "send", "clean"}

Types ==
    /\ path \in [Targets -> Content] /\ old \in [Targets -> Content]
    /\ newsub \in Content
    /\ pc \in Places /\ t \in Targets
    /\ out \in Seq(Subs) /\ diff \in Seq(Subs)
    /\ k \in Nat /\ lost \in Nat

\* The first n lines of f and g are the same.
Agree(f, g, n) ==
    n \in 0..Len(f) /\ n \in 0..Len(g) /\ \A i \in 1..n : f[i] = g[i]

Copied ==
    /\ pc \in {"rotate", "create"} => k = 0
    /\ pc = "copy" => path[t] \in Seq(Subs) /\ Agree(path[t], out, k)

Compared ==
    pc \in {"diff", "append", "send"} =>
        path[t] \in Seq(Subs) /\ ToSet(out) \ oldT \subseteq ToSet(diff)

Written ==
    /\ pc = "diff" => newsub \in Seq(Subs) /\ Agree(newsub, diff, k)
    /\ pc \in {"append", "send"} => newsub \in Seq(Subs) /\ Agree(newsub, diff, Len(diff))

NewsInv == Types /\ Copied /\ Compared /\ Written

(***************************************************************************)
(* The inductive invariant of the refinement.  As long as no fault has     *)
(* damaged the files, a scan finds no list of its own when it creates one, *)
(* and the list of the scan before until the comparison is over; what is   *)
(* copied, compared and written is all there is in the file it goes to.    *)
(***************************************************************************)
Fresh ==
    /\ pc = "create" => path[t] = NoFile
    /\ pc = "copy" => Len(path[t]) = k
    /\ pc \in {"create", "copy", "diff"} => old[t] \in Seq(Subs)
    /\ pc = "diff" => oldT = ToSet(old[t])

Exactly ==
    /\ pc \in {"diff", "append", "send"} =>
          /\ ToSet(path[t]) = ToSet(out)
          /\ ToSet(diff) = ToSet(out) \ oldT
    /\ pc = "diff" => Len(newsub) = k
    /\ pc \in {"append", "send"} => Len(newsub) = Len(diff)

ExactInv == Intact => Fresh /\ Exactly

----------------------------------------------------------------------------
(* The lines of files. *)

LEMMA PutLine ==
    ASSUME NEW f \in Seq(Subs), NEW p \in 0..Len(f), NEW l \in Subs
    PROVE  /\ Put(f, p, l) \in Seq(Subs)
           /\ Len(Put(f, p, l)) = IF p < Len(f) THEN Len(f) ELSE p + 1
           /\ \A i \in 1..p : Put(f, p, l)[i] = f[i]
           /\ Put(f, p, l)[p + 1] = l
<1>1. Len(f) \in Nat /\ DOMAIN f = 1..Len(f)
  BY LenProperties
<1>2. CASE p < Len(f)
  <2>1. Put(f, p, l) = [f EXCEPT ![p + 1] = l] /\ p + 1 \in 1..Len(f)
    BY <1>1, <1>2 DEF Put
  <2>2. /\ [f EXCEPT ![p + 1] = l] \in Seq(Subs)
        /\ Len([f EXCEPT ![p + 1] = l]) = Len(f)
    BY <2>1, ExceptSeq
  <2> QED BY <1>1, <1>2, <2>1, <2>2
<1>3. CASE ~(p < Len(f))
  <2>1. p = Len(f)
    <3> DEFINE n == Len(f)
    <3>1. n \in Nat /\ p \in 0..n /\ ~(p < n)
      BY <1>1, <1>3
    <3> HIDE DEF n
    <3>2. p = n
      BY <3>1
    <3> QED BY <3>2 DEF n
  <2>2. Put(f, p, l) = Append(f, l)
    BY <1>3 DEF Put
  <2> QED BY <1>1, <1>3, <2>1, <2>2, AppendProperties
<1> QED BY <1>2, <1>3

LEMMA AgreeNext ==
    ASSUME NEW f \in Seq(Subs), NEW g \in Seq(Subs), NEW n \in Nat,
           Agree(f, g, n), n < Len(g)
    PROVE  /\ Put(f, n, g[n + 1]) \in Seq(Subs)
           /\ Agree(Put(f, n, g[n + 1]), g, n + 1)
           /\ Len(f) = n => Len(Put(f, n, g[n + 1])) = n + 1
<1> DEFINE h == Put(f, n, g[n + 1])
<1>1. Len(f) \in Nat /\ Len(g) \in Nat /\ n \in 0..Len(f)
  BY LenProperties DEF Agree
<1>2. g[n + 1] \in Subs
  BY <1>1, ElementOfSeq
<1>3. /\ h \in Seq(Subs)
      /\ Len(h) = IF n < Len(f) THEN Len(f) ELSE n + 1
      /\ \A i \in 1..n : h[i] = f[i]
      /\ h[n + 1] = g[n + 1]
  BY <1>1, <1>2, PutLine
<1> HIDE DEF h
<1>4. \A i \in 1..(n + 1) : h[i] = g[i]
  <2>1. \A i \in 1..(n + 1) : i \in 1..n \/ i = n + 1
    OBVIOUS
  <2> QED BY <1>3, <2>1 DEF Agree
<1>5. n + 1 \in 0..Len(h) /\ n + 1 \in 0..Len(g)
  BY <1>1, <1>3
<1> QED BY <1>1, <1>3, <1>4, <1>5 DEF Agree, h

LEMMA AgreeAll ==
    ASSUME NEW f \in Seq(Subs), NEW g \in Seq(Subs), Agree(f, g, Len(g))
    PROVE  /\ ToSet(g) \subseteq ToSet(f)
           /\ Len(f) = Len(g) => ToSet(f) = ToSet(g)
<1>1. /\ DOMAIN f = 1..Len(f) /\ DOMAIN g = 1..Len(g)
      /\ Len(f) \in Nat /\ Len(g) \in Nat
  BY LenProperties
<1>2. \A i \in DOMAIN g : i \in DOMAIN f /\ f[i] = g[i]
  BY <1>1 DEF Agree
<1>3. Len(f) = Len(g) => DOMAIN f = DOMAIN g
  BY <1>1
<1> QED BY <1>2, <1>3 DEF ToSet

LEMMA AppendSet ==
    ASSUME NEW f \in Seq(Subs), NEW l \in Subs
    PROVE  Append(f, l) \in Seq(Subs) /\ ToSet(Append(f, l)) = ToSet(f) \cup {l}
<1> DEFINE h == Append(f, l)
<1>1. /\ Len(f) \in Nat /\ DOMAIN f = 1..Len(f)
      /\ h \in Seq(Subs) /\ DOMAIN h = 1..(Len(f) + 1)
      /\ \A i \in 1..Len(f) : h[i] = f[i]
      /\ h[Len(f) + 1] = l
  BY LenProperties, AppendProperties
<1> HIDE DEF h
<1>2. \A i \in DOMAIN h : i \in DOMAIN f \/ i = Len(f) + 1
  BY <1>1
<1>3. ToSet(h) \subseteq ToSet(f) \cup {l}
  BY <1>1, <1>2 DEF ToSet
<1>4. \A i \in DOMAIN f : i \in DOMAIN h /\ h[i] = f[i]
  BY <1>1
<1>5. Len(f) + 1 \in DOMAIN h /\ h[Len(f) + 1] = l
  BY <1>1
<1>6. ToSet(f) \cup {l} \subseteq ToSet(h)
  BY <1>4, <1>5 DEF ToSet
<1> QED BY <1>1, <1>3, <1>6 DEF h

LEMMA OpenedContent ==
    ASSUME NEW f \in Content
    PROVE  /\ Opened(f) \in Seq(Subs)
           /\ f \in Seq(Subs) <=> Exists(f)
           /\ f \in Seq(Subs) => Opened(f) = f
           /\ f = NoFile => ToSet(Opened(f)) = {}
<1>1. NoFile \notin Seq(Subs)
  <2>1. Len(NoFile) = 1 /\ NoFile[1] = "no file"
    BY DEF NoFile
  <2>2. ASSUME NoFile \in Seq(Subs)
        PROVE  FALSE
    <3>1. NoFile[1] \in Subs
      <4> DEFINE n == Len(NoFile)
      <4>1. n = 1
        BY <2>1, Zenon
      <4> HIDE DEF n
      <4>2. 1 \in 1..n
        BY <4>1
      <4> QED BY <2>2, <4>2, ElementOfSeq DEF n
    <3> QED BY <2>1, <3>1, NamesAssumption
  <2> QED BY <2>2
<1>2. << >> \in Seq(Subs) /\ ToSet(<< >>) = {}
  BY DEF ToSet
<1> QED BY <1>1, <1>2 DEF Content, Opened, Exists

----------------------------------------------------------------------------
(* Nothing new is missed. *)

\* The comparison and the first line to be written.
LEMMA CompareFacts ==
    ASSUME NewsInv, Compare
    PROVE  /\ path[t] \in Seq(Subs) /\ diff' \in Seq(Subs)
           /\ ToSet(out) \subseteq ToSet(path[t])
           /\ ToSet(diff') = ToSet(path[t]) \ ToSet(old[t])
           /\ oldT' = ToSet(old[t])
           /\ newsub' \in Seq(Subs) /\ newsub' = Opened(newsub)
           /\ Agree(newsub', diff', 0)
<1> DEFINE d == Missing(path[t], ToSet(old[t]))
<1>1. /\ path[t] \in Seq(Subs) /\ Agree(path[t], out, Len(out)) /\ out \in Seq(Subs)
      /\ newsub \in Content
  BY DEF NewsInv, Copied, Compare, Types
<1>2. oldT' = ToSet(old[t]) /\ diff' = d /\ newsub' = Opened(newsub)
  BY DEF Compare
<1>3. d \in Seq(Subs) /\ ToSet(d) = ToSet(path[t]) \ ToSet(old[t])
  BY <1>1, MissingLines
<1>4. ToSet(out) \subseteq ToSet(path[t])
  BY <1>1, AgreeAll
<1>5. newsub' \in Seq(Subs)
  BY <1>1, <1>2, OpenedContent
<1> HIDE DEF d
<1>6. ASSUME NEW f \in Seq(Subs), NEW g \in Seq(Subs)
      PROVE  Agree(f, g, 0)
  BY LenProperties DEF Agree
<1> QED BY <1>1, <1>2, <1>3, <1>4, <1>5, <1>6

LEMMA TypesStep ==
    ASSUME NewsInv, [Next]_vars
    PROVE  Types'
<1> USE DEF Types, files, Places
<1>t. Types
  BY DEF NewsInv
<1>1. ASSUME NEW x \in Targets, NEW o \in Outputs, Begin(x, o)
      PROVE  Types'
  BY <1>t, <1>1, OutputsAssumption DEF Begin
<1>2. CASE Rotate
  BY <1>t, <1>2 DEF Rotate, Content
<1>3. CASE RotateFails \/ OutputMissing \/ CompareFails \/ AppendDone \/ Crash
  BY <1>t, <1>3 DEF RotateFails, OutputMissing, CompareFails, AppendDone, Crash
<1>4. CASE NothingToRotate
  <2>1. Opened(old[t]) \in Content
    BY <1>t, OpenedContent DEF Content
  <2> QED BY <1>t, <1>4, <2>1 DEF NothingToRotate
<1>5. CASE CreateList
  <2>1. Opened(path[t]) \in Content
    BY <1>t, OpenedContent DEF Content
  <2> QED BY <1>t, <1>5, <2>1 DEF CreateList
<1>6. CASE CopyLine
  <2>1. Put(path[t], k, out[k + 1]) \in Content
    BY <1>t, <1>6, AgreeNext DEF CopyLine, NewsInv, Copied, Content
  <2> QED BY <1>t, <1>6, <2>1 DEF CopyLine
<1>7. CASE Compare
  <2>1. newsub' \in Content /\ diff' \in Seq(Subs)
    BY <1>7, CompareFacts DEF Content
  <2> QED BY <1>t, <1>7, <2>1 DEF Compare
<1>8. CASE WriteDiff
  <2>1. Put(newsub, k, diff[k + 1]) \in Content
    BY <1>t, <1>8, AgreeNext DEF WriteDiff, NewsInv, Written, Content
  <2> QED BY <1>t, <1>8, <2>1 DEF WriteDiff
<1>9. CASE DropOld
  BY <1>t, <1>9 DEF DropOld, Content
<1>10. CASE AppendNew
  <2>1. newsub \in Seq(Subs) /\ k + 1 \in 1..Len(newsub)
    BY <1>t, <1>10, LenProperties DEF AppendNew, NewsInv, Written
  <2>2. newsub[k + 1] \in Subs
    BY <2>1, ElementOfSeq
  <2>3. Append(path[t], newsub[k + 1]) \in Content
    BY <1>10, <2>2, AppendSet DEF AppendNew, NewsInv, Compared, Content
  <2> QED BY <1>t, <1>10, <2>3 DEF AppendNew
<1>11. CASE Send \/ SendFails
  BY <1>t, <1>11 DEF Send, SendFails
<1>12. CASE Clean
  BY <1>t, <1>12 DEF Clean, Content
<1>13. CASE UNCHANGED vars
  BY <1>t, <1>13 DEF vars
<1> QED BY <1>1, <1>2, <1>3, <1>4, <1>5, <1>6, <1>7, <1>8, <1>9, <1>10, <1>11, <1>12, <1>13 DEF Next

LEMMA CopiedStep ==
    ASSUME NewsInv, [Next]_vars
    PROVE  Copied'
<1> USE DEF Copied, files
<1>t. Types /\ Copied
  BY DEF NewsInv
<1>1. ASSUME NEW x \in Targets, NEW o \in Outputs, Begin(x, o)
      PROVE  Copied'
  BY <1>1 DEF Begin
<1>2. CASE Rotate \/ RotateFails \/ NothingToRotate
  BY <1>t, <1>2 DEF Rotate, RotateFails, NothingToRotate
<1>3. CASE CreateList
  <2>1. Opened(path[t]) \in Seq(Subs)
    BY <1>t, OpenedContent DEF Types
  <2>2. Agree(Opened(path[t]), out, 0)
    BY <1>t, <2>1, LenProperties DEF Agree, Types
  <2> QED BY <1>t, <1>3, <2>1, <2>2 DEF CreateList, Types
<1>4. CASE CopyLine
  <2>1. /\ Put(path[t], k, out[k + 1]) \in Seq(Subs)
        /\ Agree(Put(path[t], k, out[k + 1]), out, k + 1)
    BY <1>t, <1>4, AgreeNext DEF CopyLine, Types
  <2> QED BY <1>t, <1>4, <2>1 DEF CopyLine, Types
<1>5. CASE OutputMissing \/ Compare \/ CompareFails \/ WriteDiff \/ DropOld
  BY <1>5 DEF OutputMissing, Compare, CompareFails, WriteDiff, DropOld
<1>6. CASE AppendNew \/ AppendDone \/ Send \/ SendFails \/ Clean \/ Crash
  BY <1>6 DEF AppendNew, AppendDone, Send, SendFails, Clean, Crash
<1>7. CASE UNCHANGED vars
  BY <1>t, <1>7 DEF vars
<1> QED BY <1>1, <1>2, <1>3, <1>4, <1>5, <1>6, <1>7 DEF Next

LEMMA ComparedStep ==
    ASSUME NewsInv, [Next]_vars
    PROVE  Compared'
<1> USE DEF Compared, files
<1>t. Types /\ Compared
  BY DEF NewsInv
<1>1. ASSUME NEW x \in Targets, NEW o \in Outputs, Begin(x, o)
      PROVE  Compared'
  BY <1>1 DEF Begin
<1>2. CASE Rotate \/ RotateFails \/ NothingToRotate
  BY <1>2 DEF Rotate, RotateFails, NothingToRotate
<1>3. CASE CreateList \/ CopyLine \/ OutputMissing \/ CompareFails
  BY <1>3 DEF CreateList, CopyLine, OutputMissing, CompareFails
<1>4. CASE Compare
  <2>1. UNCHANGED <<path, t, out>>
    BY <1>4 DEF Compare
  <2> QED BY <1>4, <2>1, CompareFacts
<1>5. CASE WriteDiff \/ AppendDone
  BY <1>t, <1>5 DEF WriteDiff, AppendDone
<1>6. CASE DropOld
  BY <1>t, <1>6 DEF DropOld
<1>7. CASE AppendNew
  <2>1. newsub \in Seq(Subs) /\ k + 1 \in 1..Len(newsub)
    BY <1>7, LenProperties DEF AppendNew, NewsInv, Written, Types
  <2>2. newsub[k + 1] \in Subs
    BY <2>1, ElementOfSeq
  <2>3. Append(path[t], newsub[k + 1]) \in Seq(Subs)
    BY <1>t, <1>7, <2>2, AppendSet DEF AppendNew
  <2> QED BY <1>t, <1>7, <2>3 DEF AppendNew, Types
<1>8. CASE Send \/ SendFails \/ Clean \/ Crash
  BY <1>8 DEF Send, SendFails, Clean, Crash
<1>9. CASE UNCHANGED vars
  BY <1>t, <1>9 DEF vars
<1> QED BY <1>1, <1>2, <1>3, <1>4, <1>5, <1>6, <1>7, <1>8, <1>9 DEF Next

LEMMA WrittenStep ==
    ASSUME NewsInv, [Next]_vars
    PROVE  Written'
<1> USE DEF Written, files
<1>t. Types /\ Written
  BY DEF NewsInv
<1>1. ASSUME NEW x \in Targets, NEW o \in Outputs, Begin(x, o)
      PROVE  Written'
  BY <1>1 DEF Begin
<1>2. CASE Rotate \/ RotateFails \/ NothingToRotate
  BY <1>2 DEF Rotate, RotateFails, NothingToRotate
<1>3. CASE CreateList \/ CopyLine \/ OutputMissing \/ CompareFails
  BY <1>3 DEF CreateList, CopyLine, OutputMissing, CompareFails
<1>4. CASE Compare
  <2>1. pc' = "diff" /\ k' = 0
    BY <1>4 DEF Compare
  <2> QED BY <1>4, <2>1, CompareFacts
<1>5. CASE WriteDiff
  <2>1. /\ Put(newsub, k, diff[k + 1]) \in Seq(Subs)
        /\ Agree(Put(newsub, k, diff[k + 1]), diff, k + 1)
    BY <1>t, <1>5, AgreeNext DEF WriteDiff, Types
  <2> QED BY <1>5, <2>1 DEF WriteDiff
<1>6. CASE DropOld
  <2>1. /\ pc' \in {"append", "send"} /\ newsub' = newsub /\ diff' = diff
        /\ newsub \in Seq(Subs) /\ Agree(newsub, diff, Len(diff))
    BY <1>t, <1>6 DEF DropOld
  <2> QED BY <2>1
<1>7. CASE AppendNew \/ AppendDone
  BY <1>t, <1>7 DEF AppendNew, AppendDone
<1>8. CASE Send \/ SendFails \/ Clean \/ Crash
  BY <1>8 DEF Send, SendFails, Clean, Crash
<1>9. CASE UNCHANGED vars
  BY <1>t, <1>9 DEF vars
<1> QED BY <1>1, <1>2, <1>3, <1>4, <1>5, <1>6, <1>7, <1>8, <1>9 DEF Next

THEOREM NewsInvariant == Spec => []NewsInv
<1>1. Init => NewsInv
  BY DEF Init, NewsInv, Types, Content, Places, Copied, Compared, Written
<1>2. NewsInv /\ [Next]_vars => NewsInv'
  BY TypesStep, CopiedStep, ComparedStep, WrittenStep DEF NewsInv
<1> QED BY <1>1, <1>2, PTL DEF Spec

(***************************************************************************)
(* Whatever has gone wrong before, every subdomain of the list that was    *)
(* not in the list it was compared with is in the file that is posted      *)
(* (compare_files), for every list, every table and every hash function.   *)
(***************************************************************************)
THEOREM NothingMissed == Spec => []NothingNewIsMissed
<1>1. NewsInv => NothingNewIsMissed
  <2> SUFFICES ASSUME NewsInv, pc = "send"
               PROVE  ToSet(out) \ oldT \subseteq ToSet(newsub)
    BY DEF NothingNewIsMissed
  <2>1. /\ newsub \in Seq(Subs) /\ diff \in Seq(Subs)
        /\ Agree(newsub, diff, Len(diff))
        /\ ToSet(out) \ oldT \subseteq ToSet(diff)
    BY DEF NewsInv, Types, Compared, Written
  <2> QED BY <2>1, AgreeAll
<1> QED BY <1>1, NewsInvariant, PTL

----------------------------------------------------------------------------
(* The refinement. *)

LEMMA IntactStays ==
    ASSUME [Next]_vars, Intact'
    PROVE  Intact
<1>1. seen \subseteq seen'
  <2> USE DEF files
  <2>1. ASSUME NEW x \in Targets, NEW o \in Outputs, Begin(x, o)
        PROVE  seen \subseteq seen'
    BY <2>1 DEF Begin
  <2>2. CASE Rotate \/ RotateFails \/ NothingToRotate \/ CreateList \/ CopyLine
    BY <2>2 DEF Rotate, RotateFails, NothingToRotate, CreateList, CopyLine
  <2>3. CASE OutputMissing \/ Compare \/ CompareFails \/ WriteDiff \/ DropOld
    BY <2>3 DEF OutputMissing, Compare, CompareFails, WriteDiff, DropOld
  <2>4. CASE AppendNew \/ AppendDone \/ Send \/ SendFails \/ Clean \/ Crash
    BY <2>4 DEF AppendNew, AppendDone, Send, SendFails, Clean, Crash
  <2>5. CASE UNCHANGED vars
    BY <2>5 DEF vars
  <2> QED BY <2>1, <2>2, <2>3, <2>4, <2>5 DEF Next
<1> QED BY <1>1 DEF Intact

LEMMA FreshStep ==
    ASSUME NewsInv, ExactInv, [Next]_vars, Intact'
    PROVE  Fresh'
<1> USE DEF Fresh, files
<1>t. Types /\ Copied /\ Intact /\ Fresh /\ Exactly
  BY IntactStays DEF NewsInv, ExactInv
<1>1. ASSUME NEW x \in Targets, NEW o \in Outputs, Begin(x, o)
      PROVE  Fresh'
  BY <1>1 DEF Begin
<1>2. CASE Rotate
  <2>1. path[t] \in Seq(Subs)
    BY <1>t, <1>2, OpenedContent DEF Rotate, Types
  <2> QED BY <1>t, <1>2, <2>1 DEF Rotate, Types
<1>3. CASE RotateFails \/ OutputMissing
  BY <1>3 DEF RotateFails, OutputMissing, Intact
<1>4. CASE NothingToRotate
  <2>1. Opened(old[t]) \in Seq(Subs) /\ path[t] = NoFile
    BY <1>t, <1>4, OpenedContent DEF NothingToRotate, Types, Exists
  <2> QED BY <1>t, <1>4, <2>1 DEF NothingToRotate, Types
<1>5. CASE CreateList
  <2>1. Opened(path[t]) = << >> /\ k = 0
    BY <1>t, <1>5 DEF CreateList, Opened, Exists, Copied
  <2>2. Len(Opened(path[t])) = 0
    BY <2>1
  <2> QED BY <1>t, <1>5, <2>1, <2>2 DEF CreateList, Types
<1>6. CASE CopyLine
  <2>1. Len(Put(path[t], k, out[k + 1])) = k + 1
    BY <1>t, <1>6, AgreeNext DEF CopyLine, Types, Copied
  <2> QED BY <1>t, <1>6, <2>1 DEF CopyLine, Types
<1>7. CASE Compare
  BY <1>t, <1>7 DEF Compare
<1>8. CASE CompareFails \/ DropOld \/ AppendNew \/ AppendDone
  BY <1>8 DEF CompareFails, DropOld, AppendNew, AppendDone
<1>9. CASE WriteDiff
  BY <1>t, <1>9 DEF WriteDiff
<1>10. CASE Send \/ SendFails \/ Clean \/ Crash
  BY <1>10 DEF Send, SendFails, Clean, Crash
<1>11. CASE UNCHANGED vars
  BY <1>t, <1>11 DEF vars
<1> QED BY <1>1, <1>2, <1>3, <1>4, <1>5, <1>6, <1>7, <1>8, <1>9, <1>10, <1>11 DEF Next

LEMMA ExactlyStep ==
    ASSUME NewsInv, LeftoverInv, ExactInv, [Next]_vars, Intact'
    PROVE  Exactly'
<1> USE DEF Exactly, files
<1>t. Types /\ Copied /\ Compared /\ Written /\ Intact /\ Fresh /\ Exactly
  BY IntactStays DEF NewsInv, ExactInv
<1>1. ASSUME NEW x \in Targets, NEW o \in Outputs, Begin(x, o)
      PROVE  Exactly'
  BY <1>1 DEF Begin
<1>2. CASE Rotate \/ RotateFails \/ NothingToRotate
  BY <1>2 DEF Rotate, RotateFails, NothingToRotate
<1>3. CASE CreateList \/ CopyLine \/ OutputMissing \/ CompareFails
  BY <1>3 DEF CreateList, CopyLine, OutputMissing, CompareFails
<1>4. CASE Compare
  <2>1. Agree(path[t], out, Len(out)) /\ Len(path[t]) = Len(out)
    BY <1>t, <1>4 DEF Compare, Copied, Fresh
  <2>2. path[t] \in Seq(Subs) /\ out \in Seq(Subs)
    BY <1>4, CompareFacts, <1>t DEF Types
  <2>3. ToSet(path[t]) = ToSet(out)
    BY <2>1, <2>2, AgreeAll
  <2>4. newsub = NoFile
    BY <1>t, <1>4 DEF LeftoverInv, Quiet, Intact, Compare, Exists
  <2>5. newsub' = << >> /\ k' = 0 /\ pc' = "diff"
    BY <1>4, <2>4, CompareFacts DEF Opened, Exists, Compare
  <2>6. Len(newsub') = 0
    BY <2>5
  <2>7. UNCHANGED <<path, t, out>>
    BY <1>4 DEF Compare
  <2> QED BY <1>4, <2>3, <2>5, <2>6, <2>7, CompareFacts
<1>5. CASE WriteDiff
  <2>1. Len(Put(newsub, k, diff[k + 1])) = k + 1
    BY <1>t, <1>5, AgreeNext DEF WriteDiff, Types, Written
  <2> QED BY <1>t, <1>5, <2>1 DEF WriteDiff
<1>6. CASE DropOld
  BY <1>t, <1>6 DEF DropOld
<1>7. CASE AppendNew
  <2>1. /\ newsub \in Seq(Subs) /\ path[t] \in Seq(Subs) /\ diff \in Seq(Subs)
        /\ k + 1 \in 1..Len(newsub)
    BY <1>t, <1>7, LenProperties DEF AppendNew, Written, Types, Compared
  <2>2. ToSet(newsub) = ToSet(diff) /\ newsub[k + 1] \in ToSet(newsub)
    <3>1. ToSet(newsub) = ToSet(diff)
      BY <1>t, <1>7, <2>1, AgreeAll DEF AppendNew, Written
    <3>2. DOMAIN newsub = 1..Len(newsub)
      BY <2>1, LenProperties
    <3> QED BY <2>1, <3>1, <3>2 DEF ToSet
  <2>3. newsub[k + 1] \in Subs /\ newsub[k + 1] \in ToSet(path[t])
    BY <1>t, <1>7, <2>1, <2>2, ElementOfSeq DEF AppendNew
  <2>4. ToSet(Append(path[t], newsub[k + 1])) = ToSet(path[t])
    <3>1. ToSet(Append(path[t], newsub[k + 1])) = ToSet(path[t]) \cup {newsub[k + 1]}
      BY <2>1, <2>3, AppendSet
    <3> QED BY <2>3, <3>1
  <2>5. path'[t'] = Append(path[t], newsub[k + 1])
    BY <1>t, <1>7 DEF AppendNew, Types
  <2> QED BY <1>t, <1>7, <2>4, <2>5 DEF AppendNew
<1>8. CASE AppendDone
  BY <1>t, <1>8 DEF AppendDone
<1>9. CASE Send \/ SendFails \/ Clean \/ Crash
  BY <1>9 DEF Send, SendFails, Clean, Crash
<1>10. CASE UNCHANGED vars
  BY <1>t, <1>10 DEF vars
<1> QED BY <1>1, <1>2, <1>3, <1>4, <1>5, <1>6, <1>7, <1>8, <1>9, <1>10 DEF Next

LEMMA InitExact == Init => ExactInv
  BY DEF Init, ExactInv, Fresh, Exactly

\* A scan that the monitor has not done with is under way.
Busy == pc \notin {"idle", "clean"}

\* A step that only moves the program on or changes files in a way that the
\* rest of the scan makes up for.
LEMMA Stutter ==
    ASSUME Intact' <=> Intact, Busy' <=> Busy,
           UNCHANGED <<t, out, sent, lost>>,
           \A x \in Targets : KnownNow(x)' = KnownNow(x)
    PROVE  UNCHANGED Abstract!monitorVars
BY DEF Abstract!monitorVars, Busy

LEMMA QuietStep ==
    ASSUME NewsInv, LeftoverInv, ExactInv, Intact, Intact',
           \/ Rotate \/ NothingToRotate \/ CreateList \/ CopyLine \/ Compare
           \/ WriteDiff \/ DropOld \/ AppendNew \/ AppendDone \/ Clean
    PROVE  UNCHANGED Abstract!monitorVars
<1> USE DEF files, Busy
<1>t. Types /\ Copied /\ Compared /\ Fresh
  BY DEF NewsInv, ExactInv
<1>e. \A f \in Content : /\ Opened(f) \in Seq(Subs)
                         /\ f \in Seq(Subs) <=> Exists(f)
                         /\ f \in Seq(Subs) => Opened(f) = f
  BY OpenedContent
<1>1. (Busy' <=> Busy) /\ UNCHANGED <<t, out, sent, lost>>
  BY DEF Rotate, NothingToRotate, CreateList, CopyLine, Compare, WriteDiff, DropOld,
         AppendNew, AppendDone, Clean
<1>2. ASSUME NEW x \in Targets
      PROVE  KnownNow(x)' = KnownNow(x)
  <2> USE DEF KnownNow
  <2>1. CASE Rotate
    BY <1>t, <1>e, <2>1 DEF Rotate, Types
  <2>2. CASE NothingToRotate
    <3>1. Opened(Opened(old[t])) = Opened(old[t])
      BY DEF Opened, Exists, NoFile
    <3> QED BY <1>t, <1>e, <2>2, <3>1 DEF NothingToRotate, Types
  <2>3. CASE CreateList
    BY <1>t, <2>3 DEF CreateList, Types
  <2>4. CASE CopyLine
    BY <1>t, <2>4 DEF CopyLine, Types
  <2>5. CASE Compare
    BY <1>t, <2>5 DEF Compare
  <2>6. CASE WriteDiff
    BY <2>6 DEF WriteDiff
  <2>7. CASE DropOld
    <3>1. /\ pc = "diff" /\ pc' \in {"append", "send"}
          /\ UNCHANGED <<path, t, oldT>>
          /\ oldT = ToSet(Opened(old[t]))
      BY <1>t, <1>e, <2>7 DEF DropOld, Types, Fresh
    <3>2. x # t => old'[x] = old[x]
      BY <1>t, <2>7 DEF DropOld, Types
    <3> QED BY <3>1, <3>2
  <2>8. CASE AppendNew
    BY <1>t, <2>8 DEF AppendNew, Types
  <2>9. CASE AppendDone
    BY <2>9 DEF AppendDone
  <2>10. CASE Clean
    BY <2>10 DEF Clean
  <2> QED BY <2>1, <2>2, <2>3, <2>4, <2>5, <2>6, <2>7, <2>8, <2>9, <2>10
<1> QED BY <1>1, <1>2, Stutter

LEMMA BeginIsStart ==
    ASSUME NewsInv, Intact, NEW x \in Targets, NEW o \in Outputs, Begin(x, o)
    PROVE  Abstract!Start(x, ToSet(o)) /\ ToSet(o) \subseteq Subs
<1>1. Intact' /\ ToSet(o) \subseteq Subs
  <2>1. o \in Seq(Subs)
    BY OutputsAssumption
  <2>2. \A i \in DOMAIN o : o[i] \in Subs
    BY <2>1, LenProperties, ElementOfSeq
  <2> QED BY <2>2 DEF Begin, Intact, ToSet
<1>2. \A y \in Targets : KnownNow(y)' = KnownNow(y)
  BY DEF Begin, KnownNow, files
<1>3. pc = "idle" /\ pc' = "rotate" /\ t' = x /\ out' = o /\ UNCHANGED <<sent, lost>>
  BY DEF Begin
<1> QED BY <1>1, <1>2, <1>3 DEF Abstract!Start, Abstract!NoScan, M!NoScan

\* A message that is sent, and one that is lost, complete the scan.
LEMMA EndCompletes ==
    ASSUME NewsInv, ExactInv, Intact, Intact', Send \/ SendFails
    PROVE  Abstract!Complete
<1>t. Types /\ Compared /\ Exactly
  BY DEF NewsInv, ExactInv
<1>1. /\ pc = "send" /\ pc' = "clean" /\ UNCHANGED <<path, old, oldT, t, out>>
      /\ t \in Targets
  BY <1>t DEF Send, SendFails, files, Types
<1>2. ASSUME NEW x \in Targets, x = t
      PROVE  KnownNow(x)' = ToSet(out)
  <2>1. path[t] \in Seq(Subs) /\ path[t] \in Content /\ ToSet(path[t]) = ToSet(out)
    BY <1>t, <1>1 DEF Compared, Exactly, Types
  <2> QED BY <1>1, <1>2, <2>1, OpenedContent DEF KnownNow, Exists
<1>3. \A x \in Targets \ {t} : KnownNow(x)' = KnownNow(x)
  BY <1>1 DEF KnownNow
<1>4. [target |-> t, subs |-> ToSet(out)] # [target |-> "none", subs |-> {}]
  BY <1>1, NamesAssumption
<1>5. \A x \in Targets : KnownNow(x)' = IF x = t THEN ToSet(out) ELSE KnownNow(x)
  BY <1>2, <1>3
<1> QED BY <1>1, <1>4, <1>5 DEF Abstract!Complete, Abstract!NoScan, M!NoScan

LEMMA SendIsReport ==
    ASSUME NewsInv, ExactInv, Intact, Send
    PROVE  Abstract!Report
<1>t. Types /\ Written /\ Exactly
  BY DEF NewsInv, ExactInv
<1>1. Intact' /\ UNCHANGED lost /\ pc = "send"
  BY DEF Send, Intact
<1>2. Abstract!Complete
  BY <1>1, EndCompletes
<1>3. ToSet(newsub) = ToSet(out) \ oldT /\ ToSet(diff) = ToSet(out) \ oldT
  BY <1>t, <1>1, AgreeAll DEF Written, Exactly, Types
<1>4. diff # << >> <=> ToSet(out) \ oldT # {}
  <2>1. diff = << >> => ToSet(diff) = {}
    BY DEF ToSet
  <2>2. ASSUME diff # << >>
        PROVE  ToSet(diff) # {}
    <3>1. diff \in Seq(Subs)
      BY <1>t DEF Types
    <3>2. 1 \in DOMAIN diff
      BY <2>2, <3>1, EmptySeq, LenProperties
    <3> QED BY <3>2 DEF ToSet
  <2> QED BY <1>3, <2>1, <2>2
<1>5. KnownNow(t) = oldT /\ t \in Targets
  BY <1>t, <1>1 DEF KnownNow, Types
<1>6. sent' = [target |-> t, news |-> ToSet(out) \ oldT # {}, subs |-> ToSet(out) \ oldT]
  BY <1>3, <1>4 DEF Send
<1> QED BY <1>1, <1>2, <1>5, <1>6 DEF Abstract!Report

LEMMA SendFailsIsReportLost ==
    ASSUME NewsInv, ExactInv, Intact, SendFails
    PROVE  Abstract!ReportLost
<1>1. Intact' /\ lost' = lost + 1 /\ UNCHANGED sent
  BY DEF SendFails, Intact
<1> QED BY <1>1, EndCompletes DEF Abstract!ReportLost

LEMMA CrashIsGiveUp ==
    ASSUME NewsInv, ExactInv, Intact, Intact', Crash
    PROVE  Abstract!GiveUp
<1> USE DEF files
<1>t. Types /\ Fresh
  BY DEF NewsInv, ExactInv
<1>1. pc \in {"rotate", "create"}
  BY DEF Crash, Intact
<1>2. pc' = "idle" /\ UNCHANGED <<path, old, t, out, sent, lost>>
  BY DEF Crash
<1>3. \A x \in Targets : KnownNow(x)' = KnownNow(x)
  BY <1>t, <1>1, <1>2 DEF KnownNow, Fresh, Exists
<1> QED BY <1>1, <1>2, <1>3 DEF Abstract!GiveUp, Abstract!NoScan, M!NoScan

\* After a damaging fault only messages are seen.
LEMMA DamagedStep ==
    ASSUME NewsInv, [Next]_vars, ~Intact
    PROVE  [Abstract!MonitorNext]_(Abstract!monitorVars)
<1>1. ~Intact'
  BY IntactStays
<1>2. CASE sent' = sent
  BY <1>1, <1>2 DEF Abstract!monitorVars, M!NoScan, Intact
<1>3. CASE sent' # sent
  <2>1. Send
    <3> USE DEF files
    <3>1. ASSUME NEW x \in Targets, NEW o \in Outputs, Begin(x, o)
          PROVE  sent' = sent
      BY <3>1 DEF Begin
    <3>2. CASE Rotate \/ RotateFails \/ NothingToRotate \/ CreateList \/ CopyLine
      BY <1>3, <3>2 DEF Rotate, RotateFails, NothingToRotate, CreateList, CopyLine
    <3>3. CASE OutputMissing \/ Compare \/ CompareFails \/ WriteDiff \/ DropOld
      BY <1>3, <3>3 DEF OutputMissing, Compare, CompareFails, WriteDiff, DropOld
    <3>4. CASE AppendNew \/ AppendDone \/ SendFails \/ Clean \/ Crash
      BY <1>3, <3>4 DEF AppendNew, AppendDone, SendFails, Clean, Crash
    <3> QED BY <1>3, <3>1, <3>2, <3>3, <3>4 DEF Next, vars
  <2>2. ToSet(newsub) \subseteq Subs /\ t \in Targets
    <3>1. newsub \in Seq(Subs) /\ t \in Targets
      BY <2>1 DEF Send, NewsInv, Written, Types
    <3>2. \A i \in DOMAIN newsub : newsub[i] \in Subs
      BY <3>1, LenProperties, ElementOfSeq
    <3> QED BY <3>1, <3>2 DEF ToSet
  <2>3. sent' \in Abstract!Message
    BY <2>1, <2>2 DEF Send, Abstract!Message
  <2>4. Abstract!SentAfterDamage
    BY <1>1, <2>3 DEF Abstract!SentAfterDamage, M!NoScan, Intact
  <2> QED BY <2>4 DEF Abstract!MonitorNext
<1> QED BY <1>2, <1>3

LEMMA SimulationStep ==
    ASSUME NewsInv, LeftoverInv, ExactInv, [Next]_vars
    PROVE  [Abstract!MonitorNext]_(Abstract!monitorVars)
<1>1. CASE ~Intact
  BY <1>1, DamagedStep
<1>2. CASE Intact /\ ~Intact'
  <2>1. sent' = sent
    <3> USE DEF files
    <3>1. ASSUME NEW x \in Targets, NEW o \in Outputs, Begin(x, o)
          PROVE  sent' = sent
      BY <3>1 DEF Begin
    <3>2. CASE Rotate \/ RotateFails \/ NothingToRotate \/ CreateList \/ CopyLine
      BY <3>2 DEF Rotate, RotateFails, NothingToRotate, CreateList, CopyLine
    <3>3. CASE OutputMissing \/ Compare \/ CompareFails \/ WriteDiff \/ DropOld
      BY <3>3 DEF OutputMissing, Compare, CompareFails, WriteDiff, DropOld
    <3>4. CASE AppendNew \/ AppendDone \/ SendFails \/ Clean \/ Crash
      BY <3>4 DEF AppendNew, AppendDone, SendFails, Clean, Crash
    <3>5. CASE Send
      BY <1>2, <3>5 DEF Send, Intact
    <3>6. CASE UNCHANGED vars
      BY <3>6 DEF vars
    <3> QED BY <3>1, <3>2, <3>3, <3>4, <3>5, <3>6 DEF Next
  <2>2. Abstract!Damage
    BY <1>2, <2>1 DEF Abstract!Damage, Abstract!NoScan, Abstract!Nothing, M!NoScan, Intact
  <2> QED BY <2>2 DEF Abstract!MonitorNext
<1>3. CASE Intact /\ Intact'
  <2> USE <1>3
  <2>1. ASSUME NEW x \in Targets, NEW o \in Outputs, Begin(x, o)
        PROVE  Abstract!MonitorNext
    BY <2>1, BeginIsStart DEF Abstract!MonitorNext
  <2>2. CASE Rotate \/ NothingToRotate \/ CreateList \/ CopyLine \/ Compare
    BY <2>2, QuietStep
  <2>3. CASE WriteDiff \/ DropOld \/ AppendNew \/ AppendDone \/ Clean
    BY <2>3, QuietStep
  <2>4. ~RotateFails /\ ~OutputMissing
    BY DEF RotateFails, OutputMissing, Intact
  <2>5. ~CompareFails
    <3>1. ASSUME pc = "copy"
          PROVE  Exists(old[t])
      <4>1. old[t] \in Seq(Subs) /\ old[t] \in Content
        BY <3>1 DEF ExactInv, Fresh, NewsInv, Types
      <4> QED BY <4>1, OpenedContent
    <3> QED BY <3>1 DEF CompareFails
  <2>6. CASE Send
    BY <2>6, SendIsReport DEF Abstract!MonitorNext
  <2>7. CASE SendFails
    BY <2>7, SendFailsIsReportLost DEF Abstract!MonitorNext
  <2>8. CASE Crash
    BY <2>8, CrashIsGiveUp DEF Abstract!MonitorNext
  <2>9. CASE UNCHANGED vars
    <3>1. UNCHANGED Abstract!monitorVars
      BY <2>9 DEF vars, Abstract!monitorVars, M!NoScan, Intact, KnownNow
    <3> QED BY <3>1
  <2> QED BY <2>1, <2>2, <2>3, <2>4, <2>5, <2>6, <2>7, <2>8, <2>9 DEF Next
<1> QED BY <1>1, <1>2, <1>3

LEMMA SimulationInit == Init => Abstract!MonitorInit
<1> SUFFICES ASSUME Init
             PROVE  Abstract!MonitorInit
  OBVIOUS
<1>1. \A x \in Targets : KnownNow(x) = {}
  BY DEF Init, KnownNow, Opened, Exists, ToSet
<1> QED BY <1>1 DEF Init, Intact, Abstract!MonitorInit, Abstract!NoScan, Abstract!Nothing,
               Abstract!NoMessage, M!NoMessage, M!NoScan

(***************************************************************************)
(* Refinement: for every history of scans, crashes and failing steps, the  *)
(* lists in ./output and the messages are those of the abstract monitor,   *)
(* which compares each complete scan with the complete scan before it and  *)
(* reports what is new, until a fault damages the files.                   *)
(***************************************************************************)
THEOREM MonitorImplemented == Spec => ImplementsMonitor
<1>1. Spec => []ExactInv
  <2>1. NewsInv /\ NewsInv' /\ LeftoverInv /\ ExactInv /\ [Next]_vars => ExactInv'
    BY FreshStep, ExactlyStep DEF ExactInv
  <2> QED BY <2>1, InitExact, NewsInvariant, LeftoverInvariant, PTL DEF Spec
<1>2. NewsInv /\ LeftoverInv /\ ExactInv /\ [Next]_vars
         => [Abstract!MonitorNext]_(Abstract!monitorVars)
  BY SimulationStep
<1> QED BY <1>1, <1>2, NewsInvariant, LeftoverInvariant, SimulationInit, PTL
        DEF Spec, ImplementsMonitor, Abstract!MonitorSpec

=============================================================================
