------------------------- MODULE GetNextLineProofs -------------------------
(***************************************************************************)
(* For every set of bytes, block size and set of descriptors: the line     *)
(* reader loses, doubles and reorders nothing, and keeps less than one     *)
(* block between two calls.                                                *)
(***************************************************************************)
EXTENDS GetNextLine, SequenceTheorems, TLAPS

(***************************************************************************)
(* A cut between two bytes of a sequence.                                  *)
(***************************************************************************)
LEMMA CutInTwo ==
    ASSUME NEW s \in Seq(Char), NEW n \in 0..Len(s)
    PROVE  /\ SubSeq(s, 1, n) \in Seq(Char)
           /\ SubSeq(s, n + 1, Len(s)) \in Seq(Char)
           /\ Len(SubSeq(s, 1, n)) = n
           /\ Len(SubSeq(s, n + 1, Len(s))) = Len(s) - n
           /\ SubSeq(s, 1, n) \o SubSeq(s, n + 1, Len(s)) = s
<1>1. Len(s) \in Nat /\ n \in Nat /\ n <= Len(s)
  BY LenProperties
<1>2. \A i \in 1..Len(s) : s[i] \in Char
  BY ElementOfSeq
<1>3. /\ SubSeq(s, 1, n) \in Seq(Char)
      /\ Len(SubSeq(s, 1, n)) = n
  <2>1. \A i \in 1..n : s[i] \in Char
    BY <1>1, <1>2
  <2> QED BY <1>1, <2>1, SubSeqProperties
<1>4. /\ SubSeq(s, n + 1, Len(s)) \in Seq(Char)
      /\ Len(SubSeq(s, n + 1, Len(s))) = Len(s) - n
  <2>1. \A i \in (n+1)..Len(s) : s[i] \in Char
    BY <1>1, <1>2
  <2> QED BY <1>1, <2>1, SubSeqProperties
<1>5. SubSeq(s, 1, n) \o SubSeq(s, n + 1, Len(s)) = SubSeq(s, 1, Len(s))
  <2>1. 1 \in 1..(Len(s) + 1) /\ n \in (1-1)..Len(s) /\ Len(s) \in n..Len(s)
    BY <1>1
  <2> QED BY <2>1, ConcatAdjacentSubSeq
<1>6. SubSeq(s, 1, Len(s)) = s
  BY SubSeqFull
<1> QED BY <1>3, <1>4, <1>5, <1>6

(***************************************************************************)
(* Joining byte sequences is associative, in the direction the proofs use  *)
(* it.                                                                     *)
(***************************************************************************)
LEMMA Assoc ==
    ASSUME NEW s \in Seq(Char), NEW t \in Seq(Char), NEW u \in Seq(Char)
    PROVE  s \o (t \o u) = (s \o t) \o u
<1>1. (s \o t) \o u = s \o (t \o u)
  BY ConcatAssociative
<1> QED BY <1>1

(***************************************************************************)
(* A byte of the second part of two joined sequences.                      *)
(***************************************************************************)
LEMMA ConcatIndex ==
    ASSUME NEW s \in Seq(Char), NEW t \in Seq(Char), NEW k \in 1..Len(t)
    PROVE  (s \o t)[Len(s) + k] = t[k]
<1>1. Len(s) \in Nat /\ Len(t) \in Nat
  BY LenProperties
<1>2. /\ Len(s) + k \in 1..(Len(s) + Len(t))
      /\ ~(Len(s) + k <= Len(s))
      /\ Len(s) + k - Len(s) = k
  BY <1>1
<1> QED BY <1>2, ConcatProperties

(***************************************************************************)
(* The empty list of blocks is a sequence of bytes, of length 0.           *)
(***************************************************************************)
LEMMA EmptyBytes == <<>> \in Seq(Char) /\ Len(<<>>) = 0
BY EmptySeq

(***************************************************************************)
(* The end of a line lies within the sequence, and what follows the line   *)
(* is shorter than a sequence that holds the newline.                      *)
(***************************************************************************)
LEMMA LineEndsInRange ==
    ASSUME NEW s \in Seq(Char), NEW i \in LineEnds(s)
    PROVE  i \in 0..Len(s) /\ (s # <<>> => i > 0)
<1>1. Len(s) \in Nat /\ (s # <<>> => Len(s) > 0)
  BY EmptySeq, LenProperties
<1> QED BY <1>1 DEF LineEnds, HasNL

(***************************************************************************)
(* When the nodes before the last hold no newline, the first line of the   *)
(* whole list ends where the first line of its last node ends.             *)
(***************************************************************************)
LEMMA SameLineEnd ==
    ASSUME NEW f \in Seq(Char), NEW l \in Seq(Char), ~HasNL(f),
           NEW i \in LineEnds(f \o l), NEW j \in LineEnds(l)
    PROVE  i = Len(f) + j
<1> DEFINE h == f \o l
<1>1. /\ Len(f) \in Nat /\ Len(l) \in Nat
      /\ Len(h) = Len(f) + Len(l)
      /\ \A k \in 1..(Len(f) + Len(l)) :
             h[k] = IF k <= Len(f) THEN f[k] ELSE l[k - Len(f)]
  BY ConcatProperties, LenProperties
<1>2. \A k \in 1..Len(f) : f[k] # NL
  BY DEF HasNL
<1> HIDE DEF h
<1>3. i \in LineEnds(h)
  BY DEF h
<1>4. CASE HasNL(l)
  <2>1. j \in 1..Len(l) /\ l[j] = NL /\ \A k \in 1..(j-1) : l[k] # NL
    BY <1>4 DEF LineEnds
  <2>2. h[Len(f) + j] = NL /\ Len(f) + j \in 1..Len(h)
    BY <1>1, <2>1
  <2>3. HasNL(h)
    BY <2>2 DEF HasNL
  <2>4. i \in 1..Len(h) /\ h[i] = NL /\ \A k \in 1..(i-1) : h[k] # NL
    BY <1>3, <2>3 DEF LineEnds
  <2>5. i > Len(f) /\ l[i - Len(f)] = NL
    BY <1>1, <1>2, <2>4
  <2>6. ~ (i - Len(f) < j)
    BY <1>1, <2>1, <2>4, <2>5
  <2>7. ~ (Len(f) + j < i)
    BY <1>1, <2>1, <2>2, <2>4
  <2>8. i \in Int /\ j \in Int /\ Len(f) \in Int
    BY <1>1, <2>1, <2>4
  <2> QED BY <2>6, <2>7, <2>8
<1>5. CASE ~HasNL(l)
  <2>1. ~HasNL(h)
    BY <1>1, <1>2, <1>5 DEF HasNL
  <2> QED BY <1>1, <1>3, <1>5, <2>1 DEF LineEnds
<1> QED BY <1>4, <1>5

----------------------------------------------------------------------------
(***************************************************************************)
(* The list is empty when the program starts, which is well typed.         *)
(***************************************************************************)
LEMMA InitTypeOK == Init => TypeOK
<1> SUFFICES ASSUME Init PROVE TypeOK
  OBVIOUS
<1>1. rest \in [Fds -> Seq(Char)]
  BY EmptyBytes DEF Init
<1>2. changes \in 0..MaxChanges
  BY MaxChangesAssumption DEF Init
<1>3. cleared \in BOOLEAN
  BY DEF Init
<1>4. /\ front \in Seq(Char) /\ last \in Seq(Char) /\ line \in Seq(Char)
      /\ got \in Seq(Char) /\ given \in Seq(Char)
  BY EmptyBytes DEF Init
<1>5. Len(last) <= BufferSize
  BY EmptyBytes, BufferSizeAssumption DEF Init
<1> QED BY <1>1, <1>2, <1>3, <1>4, <1>5 DEF Init, TypeOK

(***************************************************************************)
(* Type correctness: no handler leaves the types, and no node outgrows one *)
(* block of BUFFER_SIZE bytes.                                             *)
(***************************************************************************)
THEOREM TypeCorrect == Spec => []TypeOK
<1> USE CharAssumption, BufferSizeAssumption, ContentsAssumption,
        FailingAssumption, MaxChangesAssumption
<1>1. Init => TypeOK
  BY InitTypeOK
<1>2. TypeOK /\ [Next]_vars => TypeOK'
  <2> SUFFICES ASSUME TypeOK, [Next]_vars
               PROVE  TypeOK'
    OBVIOUS
  <2> USE DEF TypeOK
  <2>0. head \in Seq(Char)
    BY ConcatProperties DEF head
  <2>1. ASSUME NEW fd \in Fds, NEW c \in Contents, Open(fd, c)
        PROVE  TypeOK'
    BY <2>1 DEF Open
  <2>2. ASSUME NEW fd \in Fds, NEW c \in Contents, Grow(fd, c)
        PROVE  TypeOK'
    <3>1. rest[fd] \o c \in Seq(Char)
      BY ConcatProperties
    <3> QED BY <2>2, <3>1 DEF Grow
  <2>3. ASSUME NEW fd \in Fds, Call(fd)
        PROVE  TypeOK'
    BY <2>3 DEF Call
  <2>4. ASSUME NEW fd \in Fds, ProbeFails(fd)
        PROVE  TypeOK'
    BY <2>4, EmptySeq DEF ProbeFails
  <2>5. CASE ReadBlock
    <3> DEFINE r == rest[cfd]
               n == IF Len(r) < BufferSize THEN Len(r) ELSE BufferSize
               block == SubSeq(r, 1, n)
    <3>1. r \in Seq(Char) /\ n \in 0..Len(r) /\ n <= BufferSize
      BY LenProperties
    <3>2. /\ block \in Seq(Char) /\ SubSeq(r, n + 1, Len(r)) \in Seq(Char)
          /\ Len(block) <= BufferSize
      BY <3>1, CutInTwo
    <3>3. got \o block \in Seq(Char) /\ front \o last \in Seq(Char)
      BY <3>2, ConcatProperties
    <3>4. /\ front' = front \o last /\ last' = block
          /\ rest' = [rest EXCEPT ![cfd] = SubSeq(r, n + 1, Len(r))]
          /\ got' = got \o block
          /\ pc' \in {"read", "take"}
          /\ UNCHANGED <<cfd, line, given, cleared, changes>>
      BY <2>5 DEF ReadBlock
    <3> QED BY <3>2, <3>3, <3>4
  <2>6. CASE ReadFails
    BY <2>6 DEF ReadFails
  <2>7. CASE TakeLine
    <3>1. PICK i \in LineEnds(head) : line' = SubSeq(head, 1, i)
      BY <2>7 DEF TakeLine
    <3>2. PICK j \in LineEnds(last) : last' = SubSeq(last, j + 1, Len(last))
      BY <2>7 DEF TakeLine
    <3>3. line' \in Seq(Char) /\ last' \in Seq(Char)
      BY <2>0, <3>1, <3>2, LineEndsInRange, CutInTwo
    <3>5. Len(last') <= BufferSize
      <4>1. j \in 0..Len(last) /\ Len(last) \in Nat
        BY LineEndsInRange, LenProperties
      <4>2. Len(last') = Len(last) - j
        BY <3>2, <4>1, CutInTwo
      <4> QED BY <4>1, <4>2
    <3>4. given' \in Seq(Char)
      BY <2>7, <3>3, ConcatProperties DEF TakeLine
    <3> QED BY <2>7, <3>3, <3>4, <3>5, EmptySeq DEF TakeLine
  <2>8. CASE UNCHANGED vars
    BY <2>8 DEF vars
  <2> QED BY <2>1, <2>2, <2>3, <2>4, <2>5, <2>6, <2>7, <2>8 DEF Next
<1> QED BY <1>1, <1>2, PTL DEF Spec

----------------------------------------------------------------------------
(***************************************************************************)
(* The inductive invariant.  Conservation needs that take_line and         *)
(* allocate_after_newline cut at the same place, hence that only the last  *)
(* node may hold a newline; that in turn needs that the loop only reads on *)
(* while the list holds none.  The bound on what is left over needs the    *)
(* bound on one node in TypeOK.                                            *)
(***************************************************************************)
ReadsOnlyWithoutNewline == pc = "read" => ~HasNL(head)

IInv ==
    /\ TypeOK
    /\ NewlineOnlyInLast
    /\ ReadsOnlyWithoutNewline
    /\ LeftoverBound
    /\ Conservation

(***************************************************************************)
(* A block without a newline, added to a list without one, leaves a list   *)
(* without one.                                                            *)
(***************************************************************************)
LEMMA NoNLConcat ==
    ASSUME NEW s \in Seq(Char), NEW t \in Seq(Char), ~HasNL(s), ~HasNL(t)
    PROVE  ~HasNL(s \o t)
<1>1. /\ Len(s) \in Nat /\ Len(t) \in Nat
      /\ Len(s \o t) = Len(s) + Len(t)
      /\ \A k \in 1..(Len(s) + Len(t)) :
             (s \o t)[k] = IF k <= Len(s) THEN s[k] ELSE t[k - Len(s)]
  BY ConcatProperties, LenProperties
<1>2. \A k \in 1..Len(s) : s[k] # NL
  BY DEF HasNL
<1>3. \A k \in 1..Len(t) : t[k] # NL
  BY DEF HasNL
<1>4. ASSUME NEW k \in 1..Len(s \o t) PROVE (s \o t)[k] # NL
  <2>1. k \in 1..(Len(s) + Len(t))
    BY <1>1
  <2>2. CASE k <= Len(s)
    BY <1>1, <1>2, <2>1, <2>2
  <2>3. CASE ~(k <= Len(s))
    <3>1. k - Len(s) \in 1..Len(t)
      BY <1>1, <2>1, <2>3
    <3> QED BY <1>1, <1>3, <2>1, <2>3, <3>1
  <2> QED BY <2>2, <2>3
<1> QED BY <1>4 DEF HasNL

(***************************************************************************)
(* The empty list holds no newline.                                        *)
(***************************************************************************)
LEMMA EmptyHasNoNL == ~HasNL(<<>>)
BY DEF HasNL

(***************************************************************************)
(* The inductive invariant holds when the program starts.                  *)
(***************************************************************************)
LEMMA InvInit == Init => IInv
<1> SUFFICES ASSUME Init PROVE IInv
  OBVIOUS
<1>1. <<>> \in Seq(Char) /\ Len(<<>>) = 0
  BY EmptySeq
<1>2. TypeOK
  BY InitTypeOK
<1>3. head = <<>>
  BY DEF Init, head
<1>4. Conservation
  BY <1>1, <1>3, ConcatEmptySeq DEF Init, Conservation
<1> QED BY <1>1, <1>2, <1>4, EmptyHasNoNL, BufferSizeAssumption
        DEF Init, IInv, NewlineOnlyInLast, ReadsOnlyWithoutNewline,
            LeftoverBound

(***************************************************************************)
(* A step that leaves the list and the histories alone.                    *)
(***************************************************************************)
LEMMA UntouchedList ==
    ASSUME IInv, TypeOK',
           UNCHANGED <<front, last, got, given, cleared>>,
           pc' = "idle" => pc = "idle",
           pc' = "read" => ~HasNL(head)
    PROVE  IInv'
BY DEF IInv, NewlineOnlyInLast, ReadsOnlyWithoutNewline,
       LeftoverBound, Conservation, head, HasNL

(***************************************************************************)
(* In every behaviour the nodes before the last hold no newline, less than *)
(* one block is kept between two calls of get_next_line, and the lines it  *)
(* has returned followed by what waits in `head` are the bytes it has      *)
(* read, in order, until a failing read clears the list.                   *)
(***************************************************************************)
THEOREM ConservationCorrect == Spec => [](NewlineOnlyInLast /\ LeftoverBound /\ Conservation)
<1>1. TypeOK /\ TypeOK' /\ IInv /\ [Next]_vars => IInv'
  <2> SUFFICES ASSUME TypeOK, TypeOK', IInv, [Next]_vars
               PROVE  IInv'
    OBVIOUS
  <2> USE BufferSizeAssumption
  <2>1. ASSUME NEW fd \in Fds, NEW c \in Contents, Open(fd, c) \/ Grow(fd, c)
        PROVE  IInv'
    <3>1. UNCHANGED <<front, last, got, given, cleared, pc>>
      BY <2>1 DEF Open, Grow
    <3>2. pc = "read" => ~HasNL(head)
      BY DEF IInv, ReadsOnlyWithoutNewline
    <3> QED BY <3>1, <3>2, UntouchedList
  <2>2. ASSUME NEW fd \in Fds, Call(fd)
        PROVE  IInv'
    <3>1. /\ UNCHANGED <<front, last, got, given, cleared>>
          /\ pc' = IF HasNL(head) THEN "take" ELSE "read"
      BY <2>2 DEF Call
    <3> QED BY <3>1, UntouchedList
  <2>3. ASSUME NEW fd \in Fds, ProbeFails(fd)
        PROVE  IInv'
    <3>1. front' = <<>> /\ last' = <<>> /\ pc' = "idle" /\ cleared'
      BY <2>3 DEF ProbeFails
    <3>2. Len(<<>>) = 0
      BY EmptySeq
    <3> QED BY <3>1, <3>2, EmptyHasNoNL
            DEF IInv, NewlineOnlyInLast, ReadsOnlyWithoutNewline,
                LeftoverBound, Conservation
  <2>4. CASE ReadBlock
    <3> DEFINE r == rest[cfd]
               n == IF Len(r) < BufferSize THEN Len(r) ELSE BufferSize
               block == SubSeq(r, 1, n)
    <3>1. r \in Seq(Char) /\ n \in 0..Len(r) /\ n <= BufferSize
      <4>1. r \in Seq(Char)
        BY <2>4 DEF ReadBlock, TypeOK
      <4> HIDE DEF r
      <4>2. Len(r) \in Nat /\ BufferSize \in Nat
        BY <4>1, LenProperties, BufferSizeAssumption
      <4> QED BY <4>1, <4>2
    <3>2. block \in Seq(Char) /\ Len(block) = n
      BY <3>1, CutInTwo
    <3>3. /\ front' = head /\ last' = block /\ got' = got \o block
          /\ pc = "read"
          /\ pc' = IF n < BufferSize \/ HasNL(block) THEN "take" ELSE "read"
          /\ UNCHANGED <<given, cleared>>
      BY <2>4 DEF ReadBlock, head
    <3> HIDE DEF r, n, block
    <3>4. head \in Seq(Char) /\ ~HasNL(head)
      BY <3>3, ConcatProperties DEF TypeOK, IInv, ReadsOnlyWithoutNewline, head
    <3>5. head' = head \o block
      BY <3>3 DEF head
    <3>6. NewlineOnlyInLast'
      BY <3>3, <3>4 DEF NewlineOnlyInLast, HasNL
    <3>7. ReadsOnlyWithoutNewline'
      <4>1. SUFFICES ASSUME pc' = "read" PROVE ~HasNL(head')
        BY DEF ReadsOnlyWithoutNewline, HasNL
      <4>2. ~HasNL(block)
        BY <3>3, <4>1
      <4> QED BY <3>2, <3>4, <3>5, <4>2, NoNLConcat
    <3>9. LeftoverBound'
      BY <3>3 DEF LeftoverBound
    <3>10. Conservation'
      <4>1. SUFFICES ASSUME ~cleared' PROVE given' \o head' = got'
        BY DEF Conservation
      <4>0. given \in Seq(Char)
        BY DEF TypeOK
      <4>2. given \o head = got
        BY <3>3, <4>1 DEF IInv, Conservation
      <4>3. given \o (head \o block) = (given \o head) \o block
        BY <3>2, <3>4, <4>0, Assoc
      <4> QED BY <3>3, <3>5, <4>2, <4>3
    <3> QED BY <3>6, <3>7, <3>9, <3>10 DEF IInv
  <2>5. CASE ReadFails
    <3>1. UNCHANGED <<front, last, got, given, cleared>> /\ pc' = "take"
      BY <2>5 DEF ReadFails
    <3> QED BY <3>1, UntouchedList
  <2>6. CASE TakeLine
    <3>1. PICK i \in LineEnds(head) : line' = SubSeq(head, 1, i)
      BY <2>6 DEF TakeLine
    <3>2. PICK j \in LineEnds(last) : last' = SubSeq(last, j + 1, Len(last))
      BY <2>6 DEF TakeLine
    <3>3. front' = <<>> /\ given' = given \o line' /\ pc' = "idle"
          /\ UNCHANGED <<got, cleared>>
      BY <2>6 DEF TakeLine
    <3>4. /\ front \in Seq(Char) /\ last \in Seq(Char) /\ given \in Seq(Char)
          /\ ~HasNL(front)
      BY DEF TypeOK, IInv, NewlineOnlyInLast
    <3>5. /\ head \in Seq(Char) /\ Len(head) = Len(front) + Len(last)
          /\ Len(front) \in Nat /\ Len(last) \in Nat
      BY <3>4, ConcatProperties, LenProperties DEF head
    <3>6. i \in 0..Len(head) /\ j \in 0..Len(last) /\ (last # <<>> => j > 0)
      BY <3>4, <3>5, LineEndsInRange
    <3>7. /\ last' \in Seq(Char) /\ Len(last') = Len(last) - j
          /\ line' \in Seq(Char)
      BY <3>1, <3>2, <3>4, <3>5, <3>6, CutInTwo
    <3>8. head' = last'
      BY <3>3, <3>7, ConcatEmptySeq DEF head
    <3>9. Len(last') < BufferSize
      <4>1. Len(last) <= BufferSize
        BY DEF TypeOK
      <4>2. CASE last = <<>>
        BY <3>5, <3>6, <3>7, <4>2, EmptySeq
      <4>3. CASE last # <<>>
        BY <3>5, <3>6, <3>7, <4>1, <4>3
      <4> QED BY <4>2, <4>3
    <3>10. SubSeq(head, i + 1, Len(head)) = last'
      <4>1. i = Len(front) + j
        BY <3>4, SameLineEnd DEF head
      <4> DEFINE tl == SubSeq(head, i + 1, Len(head))
      <4>2. tl \in Seq(Char) /\ Len(tl) = Len(last')
        BY <3>5, <3>6, <3>7, <4>1, CutInTwo
      <4>3. ASSUME NEW k \in 1..Len(tl)
            PROVE  tl[k] = last'[k]
        <5>1. k \in Nat /\ k >= 1 /\ k <= Len(last) - j
          BY <3>5, <3>6, <3>7, <4>2
        <5>2. tl[k] = head[i + 1 + k - 1]
          <6>1. \A m \in (i+1)..Len(head) : head[m] \in Char
            BY <3>5, <3>6, ElementOfSeq
          <6>2. \A m \in 1..(Len(head) - (i+1) + 1) : tl[m] = head[i + 1 + m - 1]
            BY <3>5, <3>6, <6>1, SubSeqProperties
          <6> QED BY <3>5, <3>6, <4>1, <5>1, <6>2
        <5>3. last'[k] = last[j + 1 + k - 1]
          <6>1. \A m \in (j+1)..Len(last) : last[m] \in Char
            BY <3>4, <3>6, ElementOfSeq
          <6>2. \A m \in 1..(Len(last) - (j+1) + 1) :
                   SubSeq(last, j + 1, Len(last))[m] = last[j + 1 + m - 1]
            BY <3>5, <3>6, <6>1, SubSeqProperties
          <6> QED BY <3>2, <3>5, <3>6, <5>1, <6>2
        <5>4. head[Len(front) + (j + k)] = last[j + k]
          <6>1. j + k \in 1..Len(last)
            BY <3>5, <3>6, <5>1
          <6> QED BY <3>4, <6>1, ConcatIndex DEF head
        <5>5. i + 1 + k - 1 = Len(front) + (j + k) /\ j + 1 + k - 1 = j + k
          BY <3>5, <3>6, <4>1, <5>1
        <5> QED BY <5>2, <5>3, <5>4, <5>5
      <4> HIDE DEF tl
      <4>4. tl = last'
        BY <3>7, <4>2, <4>3, SeqEqual
      <4> QED BY <4>4 DEF tl
    <3>11. Conservation'
      <4>1. SUFFICES ASSUME ~cleared' PROVE given' \o head' = got'
        BY DEF Conservation
      <4>2. given \o head = got
        BY <3>3, <4>1 DEF IInv, Conservation
      <4>3. line' \o last' = head
        BY <3>1, <3>5, <3>6, <3>10, CutInTwo
      <4>4. (given \o line') \o last' = given \o (line' \o last')
        BY <3>4, <3>7, Assoc
      <4> QED BY <3>3, <3>8, <4>2, <4>3, <4>4
    <3>12. NewlineOnlyInLast' /\ ReadsOnlyWithoutNewline'
      BY <3>3, EmptyHasNoNL DEF NewlineOnlyInLast, ReadsOnlyWithoutNewline
    <3>13. LeftoverBound'
      BY <3>3, <3>9 DEF LeftoverBound
    <3> QED BY <3>11, <3>12, <3>13 DEF IInv
  <2>7. CASE UNCHANGED vars
    <3>1. UNCHANGED <<front, last, got, given, cleared, pc>>
      BY <2>7 DEF vars
    <3>2. pc = "read" => ~HasNL(head)
      BY DEF IInv, ReadsOnlyWithoutNewline
    <3> QED BY <3>1, <3>2, UntouchedList
  <2> QED BY <2>1, <2>2, <2>3, <2>4, <2>5, <2>6, <2>7 DEF Next
<1>2. IInv => NewlineOnlyInLast /\ LeftoverBound /\ Conservation
  BY DEF IInv
<1> QED BY InvInit, TypeCorrect, <1>1, <1>2, PTL DEF Spec

(***************************************************************************)
(* The two halves of a call cut a line at the same place, in every         *)
(* behaviour: no node of `head` but the last ever holds a newline.         *)
(***************************************************************************)
THEOREM NewlineOnlyInLastCorrect == Spec => []NewlineOnlyInLast
BY ConservationCorrect, PTL

(***************************************************************************)
(* A block that holds a newline brings it into the list.                   *)
(***************************************************************************)
LEMMA NLStaysInConcat ==
    ASSUME NEW s \in Seq(Char), NEW t \in Seq(Char), HasNL(t)
    PROVE  HasNL(s \o t)
<1>1. PICK k \in 1..Len(t) : t[k] = NL
  BY DEF HasNL
<1>2. (s \o t)[Len(s) + k] = NL
  BY <1>1, ConcatIndex
<1>3. Len(s) \in Nat /\ Len(t) \in Nat /\ Len(s \o t) = Len(s) + Len(t)
  BY ConcatProperties, LenProperties
<1>4. Len(s) + k \in 1..Len(s \o t)
  BY <1>3
<1> QED BY <1>2, <1>4 DEF HasNL

(***************************************************************************)
(* A call on a descriptor whose reads succeed only stops reading with a    *)
(* whole line in the list or at the end of the file: a short block is the  *)
(* rest of the file, and a failing read needs a descriptor in Failing.     *)
(***************************************************************************)
THEOREM PartialLineCorrect == Spec => PartialLineOnlyAtEof
<1> DEFINE Stops == pc = "read" /\ pc' = "take" /\ cfd \notin Failing
           AtEnd == HasNL(head') \/ rest'[cfd] = <<>>
<1>1. TypeOK /\ [Next]_vars => [Stops => AtEnd]_vars
  <2> SUFFICES ASSUME TypeOK, Next, Stops
               PROVE  AtEnd
    OBVIOUS
  <2>1. ReadBlock
    <3>1. ~TakeLine /\ ~ReadFails
      BY DEF TakeLine, ReadFails
    <3>2. ASSUME NEW fd \in Fds, Call(fd) \/ ProbeFails(fd)
          PROVE  FALSE
      BY <3>2 DEF Call, ProbeFails
    <3>3. ASSUME NEW fd \in Fds, NEW c \in Contents, Open(fd, c) \/ Grow(fd, c)
          PROVE  FALSE
      BY <3>3 DEF Open, Grow
    <3> QED BY <3>1, <3>2, <3>3 DEF Next
  <2> DEFINE r == rest[cfd]
             n == IF Len(r) < BufferSize THEN Len(r) ELSE BufferSize
             block == SubSeq(r, 1, n)
  <2>2. r \in Seq(Char) /\ cfd \in Fds /\ front \in Seq(Char) /\ last \in Seq(Char)
    BY DEF TypeOK
  <2>3. Len(r) \in Nat /\ n \in 0..Len(r)
    BY <2>2, LenProperties, BufferSizeAssumption
  <2>4. /\ front' = front \o last /\ last' = block
        /\ rest' = [rest EXCEPT ![cfd] = SubSeq(@, n + 1, Len(@))]
        /\ pc' = IF n < BufferSize \/ HasNL(block) THEN "take" ELSE "read"
    BY <2>1 DEF ReadBlock
  <2>5. rest'[cfd] = SubSeq(r, n + 1, Len(r))
    BY <2>2, <2>4 DEF TypeOK
  <2> HIDE DEF n, r
  <2>6. block \in Seq(Char) /\ SubSeq(r, n + 1, Len(r)) \in Seq(Char)
        /\ Len(SubSeq(r, n + 1, Len(r))) = Len(r) - n
    BY <2>2, <2>3, CutInTwo
  <2>7. CASE HasNL(block)
    <3>1. front \o last \in Seq(Char)
      BY <2>2, ConcatProperties
    <3>2. HasNL((front \o last) \o block)
      BY <2>6, <2>7, <3>1, NLStaysInConcat
    <3> QED BY <2>4, <3>2 DEF head
  <2>8. CASE n < BufferSize
    <3>1. n = Len(r)
      BY <2>3, <2>8, BufferSizeAssumption DEF n
    <3>2. Len(rest'[cfd]) = 0
      BY <2>3, <2>5, <2>6, <3>1
    <3> QED BY <2>5, <2>6, <3>2, EmptySeq
  <2> QED BY <2>4, <2>7, <2>8
<1>2. (Stops => AtEnd) <=> ((pc = "read" /\ pc' = "take" /\ cfd \notin Failing)
                              => HasNL(head') \/ rest'[cfd] = <<>>)
  OBVIOUS
<1> HIDE DEF Stops, AtEnd
<1> QED BY <1>1, <1>2, TypeCorrect, PTL DEF Spec, PartialLineOnlyAtEof

============================================================================
