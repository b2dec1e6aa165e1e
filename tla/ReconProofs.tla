---------------------------- MODULE ReconProofs ----------------------------
(***************************************************************************)
(* For every list, commands file, command line and block size: the loops   *)
(* over domains.txt lose nothing and read nothing twice, the commands of a *)
(* round are those of the commands file behind what was left of the list,  *)
(* and a run that ends with success has scanned every domain it met.       *)
(***************************************************************************)
EXTENDS Recon, OrderingProofs

----------------------------------------------------------------------------
(* Lines. *)

(***************************************************************************)
(* A file cut in two.                                                      *)
(***************************************************************************)
LEMMA CutInTwo ==
    ASSUME NEW s \in File, NEW n \in 0..Len(s)
    PROVE  /\ Take(s, n) \in File /\ Drop(s, n) \in File
           /\ Take(s, n) = SubSeq(s, 1, n)
           /\ Len(Take(s, n)) = n /\ Len(Drop(s, n)) = Len(s) - n
           /\ Take(s, n) \o Drop(s, n) = s
<1>1. Len(s) \in Nat /\ n \in Nat /\ n <= Len(s) /\ DOMAIN s = 1..Len(s)
      /\ \A i \in 1..Len(s) : s[i] \in Symbols
  BY LenProperties, ElementOfSeq DEF File
<1>2. Min({n, Len(s)}) = n
  <2>1. {n, Len(s)} \subseteq Nat /\ n \in {n, Len(s)}
    BY <1>1
  <2>2. Min({n, Len(s)}) \in {n, Len(s)} /\ Min({n, Len(s)}) <= n
    BY <2>1, MinIs
  <2> QED BY <1>1, <2>2
<1>3. Take(s, n) = SubSeq(s, 1, n)
  BY <1>2 DEF Take
<1>4. SubSeq(s, 1, n) \in File /\ Len(SubSeq(s, 1, n)) = n
  <2>1. \A i \in 1..n : s[i] \in Symbols
    BY <1>1
  <2>2. /\ SubSeq(s, 1, n) \in Seq(Symbols)
        /\ Len(SubSeq(s, 1, n)) = IF 1 <= n THEN n - 1 + 1 ELSE 0
    BY <1>1, <2>1, SubSeqProperties
  <2> QED BY <1>1, <2>2 DEF File
<1>5. Drop(s, n) \in File /\ Len(Drop(s, n)) = Len(s) - n
  <2>1. \A i \in (n + 1)..Len(s) : s[i] \in Symbols
    BY <1>1
  <2>2. /\ Drop(s, n) \in Seq(Symbols)
        /\ Len(Drop(s, n)) = IF n + 1 <= Len(s) THEN Len(s) - (n + 1) + 1 ELSE 0
    BY <1>1, <2>1, SubSeqProperties DEF Drop
  <2>3. ASSUME NEW l \in Nat, n <= l
        PROVE  (IF n + 1 <= l THEN l - (n + 1) + 1 ELSE 0) = l - n
    BY <1>1, <2>3
  <2>4. Drop(s, n) \in File
    BY <2>2 DEF File
  <2> QED BY <1>1, <2>2, <2>3, <2>4
<1>6. SubSeq(s, 1, n) \o Drop(s, n) = s
  <2>1. SubSeq(s, 1, n) \o SubSeq(s, n + 1, Len(s)) = SubSeq(s, 1, Len(s))
    <3>1. s \in Seq(Symbols) /\ 1 \in 1..(Len(s) + 1) /\ n \in (1 - 1)..Len(s) /\ Len(s) \in n..Len(s)
      BY <1>1 DEF File
    <3> QED BY <3>1, ConcatAdjacentSubSeq
  <2>2. SubSeq(s, 1, Len(s)) = s
    BY <1>1, SubSeqFull DEF File
  <2> QED BY <2>1, <2>2 DEF Drop
<1> QED BY <1>3, <1>4, <1>5, <1>6

(***************************************************************************)
(* A line ends within the file and, unless there is nothing left, is not   *)
(* empty.                                                                  *)
(***************************************************************************)
LEMMA LineEndIs ==
    ASSUME NEW s \in File
    PROVE  LineEnd(s) \in 0..Len(s) /\ (s # <<>> => LineEnd(s) # 0)
<1> DEFINE Ends == {Len(s)} \union {k \in DOMAIN s : s[k] = "NL"}
<1>1. Len(s) \in Nat /\ DOMAIN s = 1..Len(s) /\ (s # <<>> => Len(s) # 0)
  BY LenProperties, EmptySeq DEF File
<1>2. Ends \subseteq 0..Len(s) /\ Ends # {} /\ (Len(s) # 0 => 0 \notin Ends)
  BY <1>1
<1>3. Min(Ends) \in Ends
  BY <1>2, MinIs
<1> QED BY <1>1, <1>2, <1>3 DEF LineEnd

(***************************************************************************)
(* A call of the line reader divides what was kept and what is left to     *)
(* read into a line, what is kept and what is left now.                    *)
(***************************************************************************)
LEMMA ReadsInOrder ==
    ASSUME NEW kept \in File, NEW file \in File
    PROVE  LET r == GetNextLine(kept, file)
           IN  /\ r.line \in File /\ r.left \in File /\ r.rest \in File
               /\ r.line \o r.left \o r.rest = kept \o file
<1> DEFINE HasNL(m) == "NL" \in Range(kept \o Take(file, m))
           Stops == {Len(file)} \union {m \in 0..Len(file) : m % BufferSize = 0 /\ HasNL(m)}
           n == Min(Stops)
           buffer == kept \o Take(file, n)
           e == LineEnd(buffer)
           r == GetNextLine(kept, file)
<1>1. n \in 0..Len(file)
  <2>1. Len(file) \in Nat
    BY LenProperties DEF File
  <2>2. Stops \subseteq 0..Len(file) /\ Stops # {}
    BY <2>1
  <2> QED BY <2>2, MinIs
<1>2. r = [line |-> Take(buffer, e), left |-> Drop(buffer, e), rest |-> Drop(file, n)]
  BY DEF GetNextLine
<1> HIDE DEF n, r, Stops
<1>3. Take(file, n) \in File /\ Drop(file, n) \in File /\ Take(file, n) \o Drop(file, n) = file
  BY <1>1, CutInTwo
<1>4. buffer \in File
  BY <1>3, ConcatProperties DEF File
<1>5. e \in 0..Len(buffer)
  BY <1>4, LineEndIs
<1>6. Take(buffer, e) \in File /\ Drop(buffer, e) \in File /\ Take(buffer, e) \o Drop(buffer, e) = buffer
  <2> HIDE DEF buffer, e
  <2> QED BY <1>4, <1>5, CutInTwo
<1>7. buffer \o Drop(file, n) = kept \o file
  <2>1. (kept \o Take(file, n)) \o Drop(file, n) = kept \o (Take(file, n) \o Drop(file, n))
    <3> DEFINE u == Take(file, n)
               v == Drop(file, n)
    <3>1. kept \in Seq(Symbols) /\ u \in Seq(Symbols) /\ v \in Seq(Symbols)
      BY <1>3 DEF File
    <3> HIDE DEF u, v
    <3> QED BY <3>1, ConcatAssociative
  <2> QED BY <1>3, <2>1
<1> HIDE DEF buffer, e
<1>8. r.line \o r.left \o r.rest = kept \o file
  BY <1>2, <1>6, <1>7
<1> QED BY <1>2, <1>3, <1>6, <1>8 DEF r

(***************************************************************************)
(* Where a line begins: its text reaches no further than the file.         *)
(***************************************************************************)
LEMMA StartsAre ==
    ASSUME NEW s \in File, NEW I \in SUBSET Starts(s)
    PROVE  I \in SUBSET Nat /\ I \subseteq 1..Len(s) /\ IsFiniteSet(I) /\ Len(s) \in Nat
<1>1. Len(s) \in Nat /\ DOMAIN s = 1..Len(s)
  BY LenProperties DEF File
<1>2. I \subseteq 1..Len(s)
  BY <1>1 DEF Starts
<1>3. IsFiniteSet(I)
  <2>1. IsFiniteSet(1..Len(s))
    BY <1>1, FS_Interval
  <2> QED BY <1>2, <2>1, FS_Subset
<1>4. I \in SUBSET Nat
  BY <1>1, <1>2
<1> QED BY <1>1, <1>2, <1>3, <1>4

LEMMA LineAtIs ==
    ASSUME NEW s \in File, NEW k \in 1..Len(s)
    PROVE  /\ LineAt(s, k) \in File /\ Len(LineAt(s, k)) \in Nat
           /\ LineAt(s, k) # <<>>
           /\ k - 1 + Len(LineAt(s, k)) \in 0..Len(s)
<1> DEFINE t == Drop(s, k - 1)
<1>1. Len(s) \in Nat /\ k - 1 \in 0..Len(s)
  BY LenProperties DEF File
<1>2. t \in File /\ Len(t) = Len(s) - (k - 1)
  BY <1>1, CutInTwo
<1>3. t # <<>>
  BY <1>1, <1>2, EmptySeq
<1> HIDE DEF t
<1>4. LineEnd(t) \in 0..Len(t) /\ LineEnd(t) # 0
  BY <1>2, <1>3, LineEndIs
<1>5. Take(t, LineEnd(t)) \in File /\ Len(Take(t, LineEnd(t))) = LineEnd(t)
  BY <1>2, <1>4, CutInTwo
<1>6. LineAt(s, k) = Take(t, LineEnd(t))
  BY DEF LineAt, t
<1>7. Take(t, LineEnd(t)) # <<>>
  BY <1>1, <1>2, <1>4, <1>5, EmptySeq
<1> QED BY <1>1, <1>2, <1>4, <1>5, <1>6, <1>7

(***************************************************************************)
(* The lines of a file are a sequence, one for each place where one        *)
(* begins.                                                                 *)
(***************************************************************************)
LEMMA LinesAtIs ==
    ASSUME NEW s \in File, NEW I \in SUBSET Starts(s)
    PROVE  /\ LinesAt(s, I) \in Seq(File) /\ Cardinality(I) \in Nat
           /\ Len(LinesAt(s, I)) = Cardinality(I)
           /\ DOMAIN LinesAt(s, I) = 1..Cardinality(I)
           /\ \A n \in 1..Cardinality(I) :
                 /\ InOrder(I, Less(I))[n] \in I
                 /\ LinesAt(s, I)[n] = LineAt(s, InOrder(I, Less(I))[n])
                 /\ LinesAt(s, I)[n] \in File
<1>1. I \in SUBSET Nat /\ I \subseteq 1..Len(s) /\ IsFiniteSet(I)
  BY StartsAre
<1>2. Cardinality(I) \in Nat /\ InOrder(I, Less(I)) \in [1..Cardinality(I) -> I]
  BY <1>1, LessIsStrictOrder, InOrderLists
<1>3. ASSUME NEW n \in 1..Cardinality(I)
      PROVE  /\ InOrder(I, Less(I))[n] \in I
             /\ LineAt(s, InOrder(I, Less(I))[n]) \in File
  <2> DEFINE k == InOrder(I, Less(I))[n]
  <2>1. k \in I
    BY <1>2
  <2> HIDE DEF k
  <2>2. LineAt(s, k) \in File
    BY <1>1, <2>1, LineAtIs
  <2> QED BY <2>1, <2>2 DEF k
<1> DEFINE L == [n \in 1..Cardinality(I) |-> LineAt(s, InOrder(I, Less(I))[n])]
<1>4. L \in Seq(File) /\ Len(L) = Cardinality(I)
  BY <1>2, <1>3
<1>5. LinesAt(s, I) = L
  BY DEF LinesAt
<1> QED BY <1>2, <1>3, <1>4, <1>5

LEMMA ChompType ==
    ASSUME NEW line \in File
    PROVE  Chomp(line) \in File
<1>1. CASE line # <<>> /\ Last(line) = "NL"
  <2>1. Len(line) \in Nat /\ DOMAIN line = 1..Len(line) /\ \A i \in 1..Len(line) : line[i] \in Symbols
    BY LenProperties, ElementOfSeq DEF File
  <2>2. \A i \in 1..(Len(line) - 1) : line[i] \in Symbols
    BY <2>1
  <2>3. SubSeq(line, 1, Len(line) - 1) \in Seq(Symbols)
    BY <2>1, <2>2, SubSeqProperties
  <2> QED BY <1>1, <2>3 DEF Chomp, Front, File
<1>2. CASE ~(line # <<>> /\ Last(line) = "NL")
  BY <1>2 DEF Chomp
<1> QED BY <1>1, <1>2

(***************************************************************************)
(* What a removal writes is a file.                                        *)
(***************************************************************************)
LEMMA WithoutType ==
    ASSUME NEW file \in File, NEW name
    PROVE  Without(file, name) \in File
<1> DEFINE ls == Lines(file)
           kept(k) == IF Chomp(ls[k]) = name THEN <<>> ELSE Append(Chomp(ls[k]), "NL")
           all == [k \in DOMAIN ls |-> kept(k)]
           N == Cardinality(Starts(file))
<1>1. N \in Nat /\ DOMAIN ls = 1..N /\ \A k \in 1..N : ls[k] \in File
  BY LinesAtIs DEF Lines
<1> HIDE DEF ls, N
<1>2. ASSUME NEW k \in 1..N
      PROVE  kept(k) \in File
  <2>1. Chomp(ls[k]) \in Seq(Symbols)
    BY <1>1, ChompType DEF File
  <2>2. Append(Chomp(ls[k]), "NL") \in Seq(Symbols)
    <3> DEFINE c == Chomp(ls[k])
    <3>1. c \in Seq(Symbols)
      BY <2>1
    <3>2. "NL" \in Symbols
      BY FilesAssumption
    <3> HIDE DEF c
    <3>3. Append(c, "NL") \in Seq(Symbols)
      BY <3>1, <3>2, AppendProperties
    <3> QED BY <3>3 DEF c
  <2>3. <<>> \in Seq(Symbols)
    BY EmptySeq
  <2> QED BY <2>2, <2>3 DEF File
<1> HIDE DEF kept
<1>3. all \in Seq(Seq(Symbols))
  BY <1>1, <1>2 DEF File
<1>4. Without(file, name) = FlattenSeq(all)
  BY DEF Without, kept, ls
<1> HIDE DEF all
<1> QED BY <1>3, <1>4, FlattenType DEF File

LEMMA KeptType ==
    ASSUME domains \in File
    PROVE  KeptByCheck \in File
<1> DEFINE found == {k \in Starts(domains) : Chomp(LineAt(domains, k)) = opts.target}
           size == Min(found) - 1 + Len(LineAt(domains, Min(found)))
           blocks == {m \in 0..Len(domains) : m % BufferSize = 0 /\ m >= size}
           n == Min(blocks \union {Len(domains)})
<1>1. <<>> \in File
  BY EmptySeq DEF File
<1>2. ASSUME found # {}
      PROVE  Drop(Take(domains, n), size) \in File
  <2>1. found \in SUBSET Nat /\ found \subseteq 1..Len(domains) /\ Len(domains) \in Nat
    BY StartsAre
  <2>2. Min(found) \in 1..Len(domains)
    BY <1>2, <2>1, MinIs
  <2>3. size \in 0..Len(domains)
    BY <2>2, LineAtIs
  <2> HIDE DEF size, found
  <2>4. /\ blocks \union {Len(domains)} \in SUBSET Nat
        /\ \A m \in blocks \union {Len(domains)} : m <= Len(domains) /\ m >= size
    BY <2>1, <2>3
  <2>5. n \in Nat /\ n <= Len(domains) /\ n >= size
    BY <2>4, MinIs
  <2> HIDE DEF n, blocks
  <2>6. n \in 0..Len(domains)
    BY <2>1, <2>5
  <2>7. Take(domains, n) \in File /\ Len(Take(domains, n)) = n
    BY <2>6, CutInTwo
  <2>8. size \in 0..Len(Take(domains, n))
    BY <2>3, <2>5, <2>7
  <2> QED BY <2>7, <2>8, CutInTwo
<1>3. KeptByCheck = IF Missing(domains) \/ found = {} THEN <<>>
                    ELSE Drop(Take(domains, n), size)
  BY DEF KeptByCheck
<1> QED BY <1>1, <1>2, <1>3

----------------------------------------------------------------------------
(* Options. *)

Opts == [target: File, remove: File, processes: Int, resolve: BOOLEAN,
         listing: BOOLEAN, reset: BOOLEAN, outputs: BOOLEAN, usage: Int]

CommandLine == Seq([letter: STRING, name: File])

Parsing == [o: Opts, skip: BOOLEAN]

LEMMA NoneIsFile == None \in File /\ <<>> \in File /\ <<"NL">> \in File
<1>1. "none" \in Symbols /\ "NL" \in Symbols
  BY FilesAssumption
<1> QED BY <1>1 DEF None, File

LEMMA OptionType ==
    ASSUME NEW o \in Opts, NEW letter, NEW value \in File
    PROVE  Option(o, letter, value) \in Opts
<1>1. /\ [o EXCEPT !.target = value] \in Opts /\ [o EXCEPT !.remove = value] \in Opts
      /\ [o EXCEPT !.processes = 1] \in Opts
  BY DEF Opts
<1>2. /\ [o EXCEPT !.resolve = TRUE] \in Opts /\ [o EXCEPT !.listing = TRUE] \in Opts
      /\ [o EXCEPT !.reset = TRUE] \in Opts /\ [o EXCEPT !.outputs = TRUE] \in Opts
  BY DEF Opts
<1>3. [o EXCEPT !.usage = 0] \in Opts /\ [o EXCEPT !.usage = 1] \in Opts
  BY DEF Opts
<1> QED BY <1>1, <1>2, <1>3, Zenon DEF Option

LEMMA ParseArgumentType ==
    ASSUME NEW argv \in CommandLine, NEW s \in Parsing, NEW k \in 1..Len(argv)
    PROVE  ParseArgument(argv, s, k) \in Parsing
<1> DEFINE letter == argv[k].letter
           set == [s EXCEPT !.o = Option(s.o, letter, None)]
           failed == [s EXCEPT !.o.usage = 1]
           taken == [o |-> Option(s.o, letter, argv[k + 1].name), skip |-> TRUE]
<1>1. s.o \in Opts /\ s.skip \in BOOLEAN
  BY DEF Parsing
<1>2. [s EXCEPT !.skip = FALSE] \in Parsing
  BY DEF Parsing
<1>3. set \in Parsing
  <2>1. Option(s.o, letter, None) \in Opts
    BY <1>1, NoneIsFile, OptionType
  <2> QED BY <2>1 DEF Parsing
<1>4. failed \in Parsing
  BY DEF Parsing, Opts
<1>5. ASSUME k # Len(argv)
      PROVE  taken \in Parsing
  <2>1. Len(argv) \in Nat
    BY LenProperties DEF CommandLine
  <2>2. argv[k + 1].name \in File
    <3>1. k + 1 \in 1..Len(argv)
      BY <1>5, <2>1
    <3>2. argv[k + 1] \in [letter: STRING, name: File]
      BY <3>1, ElementOfSeq DEF CommandLine
    <3> QED BY <3>2
  <2>3. Option(s.o, letter, argv[k + 1].name) \in Opts
    BY <1>1, <2>2, OptionType
  <2> QED BY <2>3 DEF Parsing
<1>6. ParseArgument(argv, s, k) =
          IF s.skip THEN [s EXCEPT !.skip = FALSE]
          ELSE IF s.o.usage >= 0 THEN s
          ELSE IF letter \notin Argument THEN set
          ELSE IF k = Len(argv) THEN failed ELSE taken
  BY DEF ParseArgument
<1> HIDE DEF set, failed, taken
<1> QED BY <1>2, <1>3, <1>4, <1>5, <1>6

(***************************************************************************)
(* Whatever the command line, the options are of their types.              *)
(***************************************************************************)
LEMMA OptionsType ==
    ASSUME NEW argv \in Argvs
    PROVE  ParseArguments(argv) \in Opts
<1> DEFINE n == Len(argv)
           a == [o |-> Defaults, skip |-> FALSE]
           IsParse(f) == f = [k \in 0..n |-> IF k = 0 THEN a
                                             ELSE ParseArgument(argv, f[k - 1], k)]
           step == [p \in Parsing \X (1..n) |-> ParseArgument(argv, p[1], p[2])]
<1>1. argv \in CommandLine /\ n \in Nat
  <2>1. argv \in CommandLine
    BY FilesAssumption DEF CommandLine
  <2> QED BY <2>1, LenProperties DEF CommandLine
<1>2. a \in Parsing
  <2>1. Defaults \in Opts
    BY NoneIsFile DEF Defaults, Opts
  <2> QED BY <2>1 DEF Parsing
<1>3. step \in [Parsing \X (1..n) -> Parsing]
  BY <1>1, ParseArgumentType
<1> HIDE DEF n, a
<1>4. PICK g : IsPath(g, n, Parsing, a, step)
  <2> HIDE DEF step
  <2> QED BY <1>1, <1>2, <1>3, Iterates
<1>5. ASSUME NEW k \in 1..n
      PROVE  g[k] = ParseArgument(argv, g[k - 1], k)
  <2>1. g[k] = step[<<g[k - 1], k>>] /\ k - 1 \in 0..n /\ g \in [0..n -> Parsing]
    <3> HIDE DEF step
    <3>1. k - 1 \in 0..n
      BY <1>1
    <3> QED BY <1>4, <3>1 DEF IsPath
  <2>2. <<g[k - 1], k>> \in Parsing \X (1..n)
    BY <2>1
  <2> QED BY <2>1, <2>2
<1>6. g \in [0..n -> Parsing] /\ g[0] = a
  BY <1>4 DEF IsPath
<1>7. IsParse(g)
  <2>1. \A k \in 0..n : k # 0 => k \in 1..n
    BY <1>1
  <2>2. \A k \in 0..n : g[k] = IF k = 0 THEN a ELSE ParseArgument(argv, g[k - 1], k)
    BY <1>5, <1>6, <2>1
  <2> QED BY <1>6, <2>2
<1> DEFINE f == CHOOSE f : IsParse(f)
<1>8. IsParse(f)
  BY <1>7
<1>9. ParseArguments(argv) = f[n].o
  BY DEF ParseArguments, n, a
<1> HIDE DEF f, step
<1>10. \A k \in 0..n : f[k] = IF k = 0 THEN a ELSE ParseArgument(argv, f[k - 1], k)
  BY <1>8
<1> DEFINE Others == {k \in 0..n : f[k] # g[k]}
<1>11. Others = {}
  <2> SUFFICES ASSUME Others # {} PROVE FALSE
    OBVIOUS
  <2>1. Others \subseteq Nat
    OBVIOUS
  <2>2. PICK k \in Others : \A j \in Others : k <= j
    BY <2>1, LeastNumber
  <2>3. k \in 1..n
    BY <1>6, <1>10, <2>2
  <2>4. k - 1 \in 0..n /\ k - 1 \notin Others
    BY <1>1, <2>2, <2>3
  <2>5. f[k - 1] = g[k - 1]
    BY <2>4
  <2> QED BY <1>5, <1>10, <2>2, <2>3, <2>5
<1>12. n \in 0..n /\ f[n] = g[n]
  BY <1>1, <1>11
<1> QED BY <1>6, <1>9, <1>12 DEF Parsing

----------------------------------------------------------------------------
(* The list and its readers. *)

(***************************************************************************)
(* What is read and what names are, are files.                             *)
(***************************************************************************)
Types ==
    /\ domains \in File /\ commands \in File
    /\ left \in File /\ rest \in File /\ source \in File /\ used \in File
    /\ stdin \in File /\ target \in File
    /\ opts \in Opts

LEMMA InitTypes == Init => Types
<1> SUFFICES ASSUME Init PROVE Types
  OBVIOUS
<1>1. Defaults \in Opts
  BY NoneIsFile DEF Defaults, Opts
<1> QED BY <1>1, NoneIsFile, FilesAssumption DEF Init, Types

LEMMA Assoc ==
    ASSUME NEW s \in File, NEW t \in File, NEW u \in File
    PROVE  (s \o t) \o u = s \o (t \o u)
<1>1. s \in Seq(Symbols) /\ t \in Seq(Symbols) /\ u \in Seq(Symbols)
  BY DEF File
<1> QED BY <1>1, ConcatAssociative

LEMMA JoinType ==
    ASSUME NEW s \in File, NEW t \in File
    PROVE  s \o t \in File
BY ConcatProperties DEF File

LEMMA NextLineTypes ==
    ASSUME Types, NEW here, NEW next, NEW end, NextLine(here, next, end)
    PROVE  /\ Types'
           /\ source' = source /\ used' \o left' \o rest' = used \o left \o rest
<1> DEFINE r == GetNextLine(left, rest)
<1>1. /\ r.line \in File /\ r.left \in File /\ r.rest \in File
      /\ r.line \o r.left \o r.rest = left \o rest
  BY ReadsInOrder DEF Types
<1>2. /\ left' = r.left /\ rest' = r.rest /\ used' = used \o r.line
      /\ target' = IF IsEntry(r.line) THEN Chomp(r.line) ELSE target
      /\ UNCHANGED <<files, opts, runs, late, stdin, source, num, cmds, processes, strays, scanned,
                     inside, oldPath>>
  BY DEF NextLine
<1> HIDE DEF r
<1>3. Chomp(r.line) \in File
  BY <1>1, ChompType
<1>4. used \o r.line \in File
  BY <1>1, ConcatProperties DEF Types, File
<1>5. Types'
  BY <1>1, <1>2, <1>3, <1>4 DEF Types, files
<1>6. (used \o r.line) \o r.left \o r.rest = used \o left \o rest
  <2> DEFINE l == r.line
             k == r.left
             m == r.rest
  <2>1. /\ used \in File /\ left \in File /\ rest \in File
        /\ l \in File /\ k \in File /\ m \in File
        /\ (l \o k) \o m = left \o rest
    BY <1>1 DEF Types
  <2> HIDE DEF l, k, m
  <2>2. l \o k \in File
    BY <2>1, JoinType
  <2>3. (used \o l) \o k = used \o (l \o k)
    BY <2>1, Assoc
  <2>4. (used \o (l \o k)) \o m = used \o ((l \o k) \o m)
    <3> DEFINE w == l \o k
    <3>1. w \in File
      BY <2>2
    <3>2. used \in File /\ m \in File
      BY <2>1
    <3> HIDE DEF w
    <3>3. (used \o w) \o m = used \o (w \o m)
      BY ONLY <3>1, <3>2, Assoc, Zenon
    <3> QED BY <3>3 DEF w
  <2>5. (used \o left) \o rest = used \o (left \o rest)
    BY <2>1, Assoc
  <2>6. ((used \o l) \o k) \o m = (used \o left) \o rest
    BY <2>1, <2>3, <2>4, <2>5
  <2> QED BY <2>6 DEF l, k, m
<1> QED BY <1>2, <1>5, <1>6

LEMMA AskTypes ==
    ASSUME Types, NEW here, NEW next, NEW cut, Ask(here, next, cut)
    PROVE  Types'
<1> DEFINE r == GetNextLine(left, stdin)
<1>1. r.line \in File /\ r.left \in File /\ r.rest \in File
  BY ReadsInOrder DEF Types
<1>2. /\ left' = r.left /\ stdin' = r.rest
      /\ UNCHANGED <<files, opts, runs, late, rest, source, used, inside, oldPath, scanning>>
  BY DEF Ask
<1> HIDE DEF r
<1> QED BY <1>1, <1>2 DEF Types, files, scanning

LEMMA OpensListTypes ==
    ASSUME Types, OpensList, UNCHANGED <<files, opts, stdin, target>>
    PROVE  Types' /\ source' = used' \o left' \o rest'
<1>1. left \o domains \in File /\ <<>> \o left = left
  BY ConcatProperties, ConcatEmptySeq DEF Types, File
<1> QED BY <1>1, NoneIsFile DEF OpensList, Types, files

LEMMA TargetTypes ==
    ASSUME Types, HandleTarget
    PROVE  Types'
<1>1. KeptByCheck \in File
  BY KeptType DEF Types
<1>2. opts.target \in File
  BY DEF Types, Opts
<1>3. domains \o opts.target \o <<"NL">> \in File
  <2>1. domains \o opts.target \in File
    BY <1>2, ConcatProperties DEF Types, File
  <2> QED BY <2>1, NoneIsFile, ConcatProperties DEF File
<1>4. /\ left' \in {KeptByCheck, left}
      /\ domains' \in {domains, domains \o opts.target \o <<"NL">>}
      /\ target' = opts.target
      /\ UNCHANGED <<commands, opts, rest, source, used, stdin>>
  BY DEF HandleTarget, fixed
<1> QED BY <1>1, <1>2, <1>3, <1>4 DEF Types

LEMMA StartTypes ==
    ASSUME Types, Start
    PROVE  Types'
<1>1. PICK argv \in Argvs : opts' = ParseArguments(argv)
  BY DEF Start
<1>2. opts' \in Opts
  BY <1>1, OptionsType
<1>3. /\ left' = <<>> /\ rest' = <<>> /\ source' = <<>> /\ used' = <<>> /\ stdin' = <<>>
      /\ target' = None /\ commands' \in CommandFiles /\ domains' = domains
  BY DEF Start
<1> QED BY <1>2, <1>3, NoneIsFile, FilesAssumption DEF Types

LEMMA ReadCommandsTypes ==
    ASSUME Types, ReadCommands
    PROVE  /\ Types' /\ source' = source /\ rest' = rest
           /\ pc' = "pool" => used' \o left' = used \o left
<1>1. used \o left \in File /\ (used \o left) \o <<>> = used \o left
  BY ConcatProperties, ConcatEmptySeq DEF Types, File
<1>2. /\ UNCHANGED <<commands, opts, domains, stdin, rest, source, target>>
      /\ \/ left' = left /\ used' = used /\ pc' = "exited"
         \/ left' = <<>> /\ used' = used \o left /\ pc' = "pool"
  BY DEF ReadCommands, fixed, ExitWith, Goto
<1> QED BY <1>1, <1>2, NoneIsFile DEF Types

LEMMA ResolveTypes ==
    ASSUME Types, Resolve
    PROVE  Types' /\ source' = source /\ rest' = rest /\ used' \o left' = used \o left
<1>1. used \o left \in File /\ (used \o left) \o <<>> = used \o left
  BY ConcatProperties, ConcatEmptySeq DEF Types, File
<1>2. /\ UNCHANGED <<commands, opts, domains, stdin, rest, source, target>>
      /\ \/ left' = left /\ used' = used
         \/ left' = <<>> /\ used' = used \o left
  BY DEF Resolve, fixed, scanning
<1> QED BY <1>1, <1>2, NoneIsFile DEF Types

LEMMA TypesKept ==
    ASSUME Types, [Next]_vars
    PROVE  Types'
<1>1. CASE UNCHANGED vars
  BY <1>1 DEF vars, files, reading, scanning, Types
<1>2. CASE ResetAll
  <2>1. domains' \in {<<>>, domains, None}
    BY <1>2 DEF ResetAll
  <2> QED BY <1>2, <2>1, NoneIsFile DEF ResetAll, fixed, reading, scanning, Types
<1>3. CASE HandleRemoveDomain
  <2>1. Without(domains, opts.remove) \in File
    BY WithoutType DEF Types
  <2>2. domains' \in {domains, Without(domains, opts.remove)}
    BY <1>3 DEF HandleRemoveDomain
  <2> QED BY <1>3, <2>1, <2>2 DEF HandleRemoveDomain, fixed, reading, scanning, Types
<1>4. CASE HandleListing \/ HasResolvers \/ HasSubdomains
  BY <1>4 DEF HandleListing, HasResolvers, HasSubdomains, Has, files, reading, scanning, Types
<1>5. CASE OpenDomains
  <2>1. \/ UNCHANGED reading
        \/ OpensList
    BY <1>5 DEF OpenDomains
  <2>2. UNCHANGED <<files, opts, stdin, target>>
    BY <1>5 DEF OpenDomains
  <2>3. CASE UNCHANGED reading
    BY <2>2, <2>3 DEF reading, files, Types
  <2> QED BY <2>1, <2>2, <2>3, OpensListTypes
<1>6. CASE OpenNames
  BY <1>6, OpensListTypes DEF OpenNames, scanning
<1>7. CASE RunPool \/ Collect
  BY <1>7 DEF RunPool, Collect, files, reading, Types
<1>8. CASE RemoveOutputs \/ ResolveFindsNothing \/ ResolveFirst
  BY <1>8 DEF RemoveOutputs, ResolveFindsNothing, ResolveFirst, fixed, reading, scanning, Types
<1>9. CASE OpenResolve
  <2>1. stdin' \in File
    BY <1>9, FilesAssumption DEF OpenResolve
  <2> QED BY <1>9, <2>1 DEF OpenResolve, files, reading, scanning, Types
<1>10. CASE ToolCreates
  BY <1>10 DEF ToolCreates, reading, scanning, Types
<1> QED BY <1>1, <1>2, <1>3, <1>4, <1>5, <1>6, <1>7, <1>8, <1>9, <1>10, StartTypes, TargetTypes,
           NextLineTypes, ReadCommandsTypes, ResolveTypes, AskTypes
        DEF Next, NeedsResolvers, NeedsSubdomains

(***************************************************************************)
(* Every symbol of the list goes to one of its readers, in order.          *)
(***************************************************************************)
THEOREM LinesConservedCorrect == Spec => []LinesConserved
<1>1. Init => LinesConserved
  BY DEF Init, LinesConserved
<1>2. Types /\ LinesConserved /\ [Next]_vars => LinesConserved'
  <2> SUFFICES ASSUME Types, LinesConserved, [Next]_vars PROVE LinesConserved'
    OBVIOUS
  <2>1. CASE UNCHANGED vars
    BY <2>1 DEF vars, reading, scanning, LinesConserved
  <2>2. CASE Start \/ ResetAll \/ HandleListing \/ HandleRemoveDomain \/ RemoveOutputs
             \/ OpenResolve \/ HasResolvers \/ HasSubdomains \/ ResolveFindsNothing \/ ResolveFirst
    <3>1. pc' \in {"exited", "reset", "list", "remove", "scan", "resolve", "resolvers",
                   "subdomains", "opened"}
      BY <2>2 DEF Start, ResetAll, HandleListing, HandleRemoveDomain, RemoveOutputs, OpenResolve,
                  HasResolvers, HasSubdomains, Has, ResolveFindsNothing, ResolveFirst, Goto, ExitWith
    <3> QED BY <3>1 DEF LinesConserved
  <2>3. CASE NeedsResolvers \/ NeedsSubdomains
    <3>1. pc' \in {"exited", "subdomains", "opened"}
      BY <2>3 DEF NeedsResolvers, NeedsSubdomains, Ask, Goto, ExitWith
    <3> QED BY <3>1 DEF LinesConserved
  <2>4. CASE HandleTarget
    <3>1. opts' = opts /\ opts.target # None /\ pc' \in {"exited", "commands"}
      BY <2>4 DEF HandleTarget, fixed, Goto, ExitWith
    <3> QED BY <3>1 DEF LinesConserved
  <2>5. CASE OpenDomains
    <3>1. \/ pc' = "exited"
          \/ OpensList /\ UNCHANGED <<files, opts, stdin, target>>
      BY <2>5 DEF OpenDomains, ExitWith
    <3> QED BY <3>1, OpensListTypes DEF LinesConserved
  <2>6. CASE OpenNames
    BY <2>6, OpensListTypes DEF OpenNames, scanning, LinesConserved
  <2>7. CASE NextLine("line", "commands", "outputs")
    <3>1. pc = "line" /\ pc' \in {"line", "commands", "outputs"} /\ opts' = opts
      BY <2>7 DEF NextLine, Goto
    <3> QED BY <2>7, <3>1, NextLineTypes DEF LinesConserved
  <2>8. CASE NextLine("names", "name", "exited")
    <3>1. pc = "names" /\ pc' \in {"names", "name", "exited"} /\ opts' = opts
      BY <2>8 DEF NextLine, Goto, ExitWith
    <3> QED BY <2>8, <3>1, NextLineTypes DEF LinesConserved
  <2>9. CASE ReadCommands
    <3>1. pc = "commands" /\ pc' \in {"pool", "exited"} /\ opts' = opts
      BY <2>9 DEF ReadCommands, fixed, Goto, ExitWith
    <3> QED BY <2>9, <3>1, ReadCommandsTypes DEF LinesConserved
  <2>10. CASE RunPool \/ ToolCreates
    BY <2>10 DEF RunPool, ToolCreates, reading, Goto, ExitWith, LinesConserved
  <2>11. CASE Collect
    BY <2>11 DEF Collect, reading, Goto, ExitWith, LinesConserved
  <2>12. CASE Resolve
    <3>1. pc = "name" /\ pc' = "names" /\ opts' = opts
      BY <2>12 DEF Resolve, fixed, Goto
    <3> QED BY <2>12, <3>1, ResolveTypes DEF LinesConserved
  <2> QED BY <2>1, <2>2, <2>3, <2>4, <2>5, <2>6, <2>7, <2>8, <2>9, <2>10, <2>11, <2>12 DEF Next
<1>3. Types /\ [Next]_vars => Types'
  BY TypesKept
<1> QED BY <1>1, <1>2, <1>3, InitTypes, PTL DEF Spec

----------------------------------------------------------------------------
(* The lines of a joined file. *)

(***************************************************************************)
(* The line at k ends at the first newline, or where the file ends.        *)
(***************************************************************************)
LEMMA LineIs ==
    ASSUME NEW s \in File, NEW k \in 1..Len(s), NEW e \in k..Len(s),
           e = Len(s) \/ s[e] = "NL", \A j \in k..(e - 1) : s[j] # "NL"
    PROVE  LineAt(s, k) = SubSeq(s, k, e)
<1> DEFINE t == Drop(s, k - 1)
           Ends == {Len(t)} \union {j \in DOMAIN t : t[j] = "NL"}
           d == e - (k - 1)
<1>1. Len(s) \in Nat /\ k - 1 \in 0..Len(s)
  BY LenProperties DEF File
<1>2. t \in File /\ Len(t) = Len(s) - (k - 1) /\ DOMAIN t = 1..Len(t)
  BY <1>1, CutInTwo, LenProperties DEF File
<1>3. t = SubSeq(s, k, Len(s))
  <2>1. (k - 1) + 1 = k
    BY <1>1
  <2> QED BY <2>1 DEF Drop
<1>4. ASSUME NEW j \in 1..Len(t)
      PROVE  t[j] = s[k - 1 + j]
  <2>1. \A i \in k..Len(s) : s[i] \in Symbols
    BY <1>1, ElementOfSeq DEF File
  <2>2. \A i \in 1..(Len(s) - k + 1) : SubSeq(s, k, Len(s))[i] = s[k + i - 1]
    BY <1>1, <2>1, SubSeqProperties
  <2>3. j \in 1..(Len(s) - k + 1) /\ k + j - 1 = k - 1 + j
    BY <1>1, <1>2
  <2> QED BY <1>3, <2>2, <2>3
<1>5. d \in 1..Len(t) /\ k - 1 + d = e /\ Len(t) \in Nat
  BY <1>1, <1>2
<1> HIDE DEF d, t
<1>6. d \in Ends
  <2>1. CASE e = Len(s)
    BY <1>1, <1>2, <1>5, <2>1
  <2>2. CASE s[e] = "NL"
    BY <1>2, <1>4, <1>5, <2>2
  <2> QED BY <2>1, <2>2
<1>7. ASSUME NEW j \in Ends
      PROVE  d <= j /\ j \in Nat
  <2>1. CASE j = Len(t)
    BY <1>5, <2>1
  <2>2. CASE j \in 1..Len(t) /\ t[j] = "NL"
    <3>1. s[k - 1 + j] = "NL" /\ k - 1 + j >= k
      BY <1>1, <1>4, <2>2
    <3>2. k - 1 + j \notin k..(e - 1)
      BY <3>1
    <3> QED BY <1>1, <1>5, <2>2, <3>1, <3>2
  <2> QED BY <1>2, <2>1, <2>2
<1>8. Min(Ends) = d
  <2>1. Ends \in SUBSET Nat /\ Ends # {}
    BY <1>6, <1>7
  <2> HIDE DEF Ends
  <2>2. Min(Ends) \in Ends /\ Min(Ends) <= d
    BY <1>6, <2>1, MinIs
  <2>3. d <= Min(Ends) /\ Min(Ends) \in Nat
    BY <1>7, <2>2
  <2> QED BY <1>5, <2>2, <2>3
<1>9. LineAt(s, k) = SubSeq(t, 1, d)
  <2>1. LineEnd(t) = d
    BY <1>8 DEF LineEnd
  <2>2. Take(t, d) = SubSeq(t, 1, d)
    <3>1. d \in 0..Len(t)
      BY <1>5
    <3> QED BY <1>2, <3>1, CutInTwo
  <2> QED BY <2>1, <2>2 DEF LineAt, t
<1>10. SubSeq(SubSeq(s, k, Len(s)), 1, d) = SubSeq(s, k, e)
  <2>1. /\ s \in Seq(Symbols) /\ k \in 1..Len(s) /\ Len(s) \in 1..Len(s)
        /\ 1 \in 1..(Len(s) - k + 1) /\ d \in 1..(Len(s) - k + 1)
    BY <1>1, <1>2, <1>5 DEF File
  <2>2. SubSeq(SubSeq(s, k, Len(s)), 1, d) = SubSeq(s, k + 1 - 1, k + d - 1)
    BY <2>1, SubSeqOfSubSeq
  <2>3. k + 1 - 1 = k /\ k + d - 1 = e
    BY <1>1, <1>5
  <2> QED BY <2>2, <2>3
<1> QED BY <1>3, <1>9, <1>10

LEMMA LineEnds ==
    ASSUME NEW s \in File, NEW k \in 1..Len(s)
    PROVE  \E e \in k..Len(s) :
              /\ e = Len(s) \/ s[e] = "NL"
              /\ \A j \in k..(e - 1) : s[j] # "NL"
<1> DEFINE Ends == {e \in k..Len(s) : e = Len(s) \/ s[e] = "NL"}
<1>1. Len(s) \in Nat
  BY LenProperties DEF File
<1>2. Ends \in SUBSET Nat /\ Len(s) \in Ends
  BY <1>1
<1>3. PICK e \in Ends : \A j \in Ends : e <= j
  BY <1>2, LeastNumber
<1>4. ASSUME NEW j \in k..(e - 1)
      PROVE  s[j] # "NL"
  <2>1. j \in k..Len(s) /\ ~ e <= j
    BY <1>1, <1>3
  <2> QED BY <1>3, <2>1
<1> QED BY <1>3, <1>4

(***************************************************************************)
(* A line of the first part, if that ends with a newline, and one of the   *)
(* second part.                                                            *)
(***************************************************************************)
LEMMA LineBefore ==
    ASSUME NEW u \in File, NEW v \in File, NEW k \in 1..Len(u), u[Len(u)] = "NL"
    PROVE  LineAt(u \o v, k) = LineAt(u, k)
<1>1. PICK e \in k..Len(u) :
          /\ e = Len(u) \/ u[e] = "NL"
          /\ \A j \in k..(e - 1) : u[j] # "NL"
  BY LineEnds
<1>2. /\ u \o v \in File /\ Len(u \o v) = Len(u) + Len(v) /\ Len(u) \in Nat /\ Len(v) \in Nat
      /\ \A j \in 1..Len(u) : (u \o v)[j] = u[j]
  BY ConcatProperties, LenProperties DEF File
<1>3. LineAt(u, k) = SubSeq(u, k, e)
  BY <1>1, LineIs
<1>4. LineAt(u \o v, k) = SubSeq(u \o v, k, e)
  <2> DEFINE w == u \o v
  <2>1. w \in File /\ k \in 1..Len(w) /\ e \in k..Len(w)
    BY <1>1, <1>2
  <2>2. w[e] = "NL" /\ \A j \in k..(e - 1) : w[j] # "NL"
    BY <1>1, <1>2
  <2> HIDE DEF w
  <2>3. LineAt(w, k) = SubSeq(w, k, e)
    BY <2>1, <2>2, LineIs
  <2> QED BY <2>3 DEF w
<1>5. SubSeq(u \o v, k, e) = SubSeq(u, k, e)
  <2>1. e \in 1..Len(u) /\ u \in Seq(Symbols) /\ v \in Seq(Symbols)
    BY <1>1, <1>2 DEF File
  <2> QED BY <2>1, SubSeqOfConcat1
<1> QED BY <1>3, <1>4, <1>5

LEMMA LineBehind ==
    ASSUME NEW u \in File, NEW v \in File, NEW k \in 1..Len(v)
    PROVE  LineAt(u \o v, Len(u) + k) = LineAt(v, k)
<1> DEFINE n == Len(u)
<1>1. /\ u \o v \in File /\ Len(u \o v) = n + Len(v) /\ n \in Nat /\ Len(v) \in Nat
      /\ u \in Seq(Symbols) /\ v \in Seq(Symbols)
  BY ConcatProperties, LenProperties DEF File
<1>2. SubSeq(u \o v, n + k, n + Len(v)) = SubSeq(v, (n + k) - n, (n + Len(v)) - n)
  <2>1. n + k \in (n + 1)..(n + Len(v)) /\ n + Len(v) \in (n + 1)..(n + Len(v))
    BY <1>1
  <2> QED BY <1>1, <2>1, SubSeqOfConcat2
<1>3. /\ (n + k) - n = k /\ (n + Len(v)) - n = Len(v)
      /\ (n + k) - 1 + 1 = n + k /\ (k - 1) + 1 = k
  BY <1>1
<1>4. Drop(u \o v, (n + k) - 1) = Drop(v, k - 1)
  BY <1>1, <1>2, <1>3 DEF Drop
<1> QED BY <1>4 DEF LineAt

(***************************************************************************)
(* Where the entries of a file begin.                                      *)
(***************************************************************************)
EntryStarts(s) == {k \in Starts(s) : IsEntry(LineAt(s, k))}

LEMMA EntriesAre ==
    ASSUME NEW s \in File
    PROVE  /\ EntryStarts(s) \in SUBSET Nat /\ EntryStarts(s) \subseteq 1..Len(s)
           /\ IsFiniteSet(EntryStarts(s))
           /\ Entries(s) \in Seq(File) /\ Len(Entries(s)) = Cardinality(EntryStarts(s))
           /\ Cardinality(EntryStarts(s)) \in Nat
           /\ \A m \in 1..Cardinality(EntryStarts(s)) :
                 Entries(s)[m] = LineAt(s, InOrder(EntryStarts(s), Less(EntryStarts(s)))[m])
<1> DEFINE I == EntryStarts(s)
<1>1. I \in SUBSET Starts(s) /\ Entries(s) = LinesAt(s, I)
  BY DEF EntryStarts, Entries
<1> HIDE DEF I
<1>2. I \in SUBSET Nat /\ I \subseteq 1..Len(s) /\ IsFiniteSet(I)
  BY <1>1, StartsAre
<1>3. /\ LinesAt(s, I) \in Seq(File) /\ Cardinality(I) \in Nat
      /\ Len(LinesAt(s, I)) = Cardinality(I)
      /\ \A m \in 1..Cardinality(I) : LinesAt(s, I)[m] = LineAt(s, InOrder(I, Less(I))[m])
  BY <1>1, LinesAtIs
<1> QED BY <1>1, <1>2, <1>3 DEF I

LEMMA WholeEnds ==
    ASSUME NEW u \in File, Whole(u), Len(u) # 0
    PROVE  u[Len(u)] = "NL"
BY LenProperties DEF Whole, Last, File

(***************************************************************************)
(* An entry of the second part is one of the joined file, unless it begins *)
(* in the middle of a line; so is an entry of the first part, if that ends *)
(* with a newline.                                                         *)
(***************************************************************************)
LEMMA EntryBehind ==
    ASSUME NEW u \in File, NEW v \in File, NEW k \in 1..Len(v), k # 1 \/ Whole(u)
    PROVE  Len(u) + k \in EntryStarts(u \o v) <=> k \in EntryStarts(v)
<1> DEFINE w == u \o v
           n == Len(u)
<1>1. /\ Len(w) = n + Len(v) /\ n \in Nat /\ Len(v) \in Nat
      /\ DOMAIN w = 1..Len(w) /\ DOMAIN v = 1..Len(v)
      /\ \A j \in 1..(n + Len(v)) : w[j] = IF j <= n THEN u[j] ELSE v[j - n]
  BY ConcatProperties, LenProperties DEF File
<1>2. LineAt(w, n + k) = LineAt(v, k)
  BY LineBehind
<1>3. n + k \in DOMAIN w /\ k \in DOMAIN v
  BY <1>1
<1>4. n + k \in Starts(w) <=> k \in Starts(v)
  <2>1. CASE k # 1
    <3>1. (n + k) - 1 \in 1..(n + Len(v)) /\ ~ (n + k) - 1 <= n /\ ((n + k) - 1) - n = k - 1
          /\ n + k # 1
      BY <1>1, <2>1
    <3> HIDE DEF w, n
    <3>2. w[(n + k) - 1] = v[k - 1]
      BY <1>1, <3>1
    <3> QED BY <1>3, <2>1, <3>1, <3>2 DEF Starts
  <2>2. CASE k = 1 /\ n = 0
    <3>1. n + k = 1
      BY <2>2
    <3> HIDE DEF w, n
    <3> QED BY <1>3, <2>2, <3>1 DEF Starts
  <2>3. CASE k = 1 /\ n # 0
    <3>1. (n + k) - 1 = n /\ n \in 1..(n + Len(v)) /\ n <= n
      BY <1>1, <2>3
    <3>2. u[n] = "NL"
      BY <2>3, WholeEnds
    <3> HIDE DEF w, n
    <3>3. w[(n + k) - 1] = "NL"
      BY <1>1, <3>1, <3>2
    <3> QED BY <1>3, <2>3, <3>3 DEF Starts
  <2> QED BY <2>1, <2>2, <2>3
<1> HIDE DEF w, n
<1>5. n + k \in EntryStarts(w) <=> k \in EntryStarts(v)
  BY <1>2, <1>4 DEF EntryStarts
<1> QED BY <1>5 DEF w, n

LEMMA EntryBefore ==
    ASSUME NEW u \in File, NEW v \in File, Whole(u), NEW k \in 1..Len(u)
    PROVE  k \in EntryStarts(u \o v) <=> k \in EntryStarts(u)
<1> DEFINE w == u \o v
           n == Len(u)
<1>1. /\ Len(w) = n + Len(v) /\ n \in Nat /\ Len(v) \in Nat
      /\ DOMAIN w = 1..Len(w) /\ DOMAIN u = 1..n
      /\ \A j \in 1..(n + Len(v)) : w[j] = IF j <= n THEN u[j] ELSE v[j - n]
  BY ConcatProperties, LenProperties DEF File
<1>2. LineAt(w, k) = LineAt(u, k)
  <2>1. n # 0
    BY <1>1
  <2> QED BY <2>1, WholeEnds, LineBefore
<1>3. k \in DOMAIN w /\ k \in DOMAIN u
  BY <1>1
<1>4. k # 1 => w[k - 1] = u[k - 1]
  <2>1. k # 1 => k - 1 \in 1..(n + Len(v)) /\ k - 1 <= n
    BY <1>1
  <2> HIDE DEF w, n
  <2> QED BY <1>1, <2>1
<1> HIDE DEF w
<1>5. k \in Starts(w) <=> k \in Starts(u)
  BY <1>3, <1>4 DEF Starts
<1>6. k \in EntryStarts(w) <=> k \in EntryStarts(u)
  BY <1>2, <1>5 DEF EntryStarts
<1> QED BY <1>6 DEF w

(***************************************************************************)
(* A file that ends with a newline, joined with another one, has first its *)
(* own entries, then those of the other.                                   *)
(***************************************************************************)
LEMMA EntriesJoined ==
    ASSUME NEW u \in File, NEW v \in File, Whole(u)
    PROVE  /\ Entries(u \o v) = Entries(u) \o Entries(v)
           /\ Len(Entries(u \o v)) = Len(Entries(u)) + Len(Entries(v))
<1> DEFINE w == u \o v
           n == Len(u)
           I == EntryStarts(w)
           J == EntryStarts(u)
           K == EntryStarts(v)
           U == Entries(u)
           V == Entries(v)
           W == Entries(w)
<1>1. w \in File /\ Len(w) = n + Len(v) /\ n \in Nat /\ Len(v) \in Nat
  BY ConcatProperties, LenProperties DEF File
<1>2. I \subseteq 1..Len(w) /\ J \subseteq 1..n /\ K \subseteq 1..Len(v) /\ IsFiniteSet(K)
  <2> HIDE DEF w
  <2> QED BY <1>1, EntriesAre
<1>3. I = J \union {n + k : k \in K}
  <2>1. ASSUME NEW i \in I
        PROVE  i \in J \union {n + k : k \in K}
    <3>1. CASE i \in 1..n
      BY <3>1, EntryBefore
    <3>2. CASE i \notin 1..n
      <4>1. i - n \in 1..Len(v) /\ n + (i - n) = i
        BY <1>1, <1>2, <3>2
      <4>2. i - n \in K
        BY <4>1, EntryBehind
      <4> QED BY <4>1, <4>2
    <3> QED BY <3>1, <3>2
  <2>2. \A i \in J : i \in I
    BY <1>2, EntryBefore
  <2>3. \A k \in K : n + k \in I
    BY <1>2, EntryBehind
  <2> QED BY <2>1, <2>2, <2>3
<1>4. J \in SUBSET (0..n) /\ K \in SUBSET (Nat \ {0})
  BY <1>1, <1>2
<1> HIDE DEF I, J, K
<1>5. /\ Cardinality(J) \in Nat /\ Cardinality(K) \in Nat
      /\ Cardinality(I) = Cardinality(J) + Cardinality(K)
      /\ \A m \in 1..Cardinality(J) : InOrder(I, Less(I))[m] = InOrder(J, Less(J))[m]
      /\ \A m \in 1..Cardinality(K) :
            InOrder(I, Less(I))[Cardinality(J) + m] = n + InOrder(K, Less(K))[m]
  <2>1. Continued(I, J, n, K)
    BY <1>1, <1>2, <1>3, <1>4 DEF Continued
  <2> HIDE DEF n
  <2> QED BY <2>1, OrderJoined
<1>6. /\ U \in Seq(File) /\ Len(U) = Cardinality(J)
      /\ \A m \in 1..Cardinality(J) : U[m] = LineAt(u, InOrder(J, Less(J))[m])
  BY EntriesAre DEF J
<1>7. /\ V \in Seq(File) /\ Len(V) = Cardinality(K)
      /\ \A m \in 1..Cardinality(K) : V[m] = LineAt(v, InOrder(K, Less(K))[m])
  BY EntriesAre DEF K
<1>8. /\ W \in Seq(File) /\ Len(W) = Cardinality(I)
      /\ \A m \in 1..Cardinality(I) : W[m] = LineAt(w, InOrder(I, Less(I))[m])
  <2> HIDE DEF w
  <2> QED BY <1>1, EntriesAre DEF I
<1>9. ASSUME NEW m \in 1..Cardinality(J)
      PROVE  W[m] = U[m]
  <2> DEFINE k == InOrder(J, Less(J))[m]
  <2>1. k \in 1..n
    <3>1. J \in SUBSET Nat /\ IsFiniteSet(J)
      BY EntriesAre DEF J
    <3>2. k \in J
      BY <3>1, NumbersBelow
    <3> QED BY <1>2, <3>2
  <2>2. W[m] = LineAt(w, k) /\ U[m] = LineAt(u, k)
    <3>1. m \in 1..Cardinality(I)
      BY <1>5
    <3> QED BY <1>5, <1>6, <1>8, <3>1
  <2> HIDE DEF k
  <2>3. n # 0
    BY <1>1, <2>1
  <2>4. LineAt(w, k) = LineAt(u, k)
    BY <2>1, <2>3, WholeEnds, LineBefore
  <2> QED BY <2>2, <2>4
<1>10. ASSUME NEW m \in 1..Cardinality(K)
       PROVE  W[Cardinality(J) + m] = V[m]
  <2> DEFINE k == InOrder(K, Less(K))[m]
  <2>1. k \in 1..Len(v)
    <3>1. K \in SUBSET Nat /\ IsFiniteSet(K)
      BY EntriesAre DEF K
    <3>2. k \in K
      BY <3>1, NumbersBelow
    <3> QED BY <1>2, <3>2
  <2>2. W[Cardinality(J) + m] = LineAt(w, n + k) /\ V[m] = LineAt(v, k)
    <3>1. Cardinality(J) + m \in 1..Cardinality(I)
      BY <1>5
    <3> QED BY <1>5, <1>7, <1>8, <3>1
  <2> HIDE DEF k
  <2>3. LineAt(w, n + k) = LineAt(v, k)
    BY <2>1, LineBehind
  <2> QED BY <2>2, <2>3
<1> HIDE DEF U, V, W, n, w
<1>11. /\ U \o V \in Seq(File) /\ Len(U \o V) = Len(U) + Len(V)
       /\ \A m \in 1..(Len(U) + Len(V)) :
             (U \o V)[m] = IF m <= Len(U) THEN U[m] ELSE V[m - Len(U)]
  BY <1>6, <1>7, ConcatProperties
<1>12. \A m \in 1..Len(W) : W[m] = (U \o V)[m]
  <2> SUFFICES ASSUME NEW m \in 1..Len(W) PROVE W[m] = (U \o V)[m]
    OBVIOUS
  <2>1. CASE m <= Len(U)
    <3>1. m \in 1..Cardinality(J)
      BY <1>5, <1>6, <1>8, <2>1
    <3> QED BY <1>5, <1>6, <1>7, <1>8, <1>9, <1>11, <2>1, <3>1
  <2>2. CASE ~ m <= Len(U)
    <3>1. m - Len(U) \in 1..Cardinality(K) /\ Cardinality(J) + (m - Len(U)) = m
      BY <1>5, <1>6, <1>8, <2>2
    <3>2. W[m] = V[m - Len(U)]
      BY <1>10, <3>1
    <3> QED BY <1>5, <1>6, <1>7, <1>8, <1>11, <2>2, <3>2
  <2> QED BY <2>1, <2>2
<1>13. Len(W) = Len(U) + Len(V)
  BY <1>5, <1>6, <1>7, <1>8
<1>14. W = U \o V
  BY <1>8, <1>11, <1>12, <1>13, SeqEqual
<1> QED BY <1>13, <1>14 DEF U, V, W, w

(***************************************************************************)
(* Whatever comes before it, all entries of a file but the first are at    *)
(* the end of the joined file.                                             *)
(***************************************************************************)
LEMMA LastEntries ==
    ASSUME NEW u \in File, NEW v \in File
    PROVE  LET before == Len(Entries(u \o v)) - Len(Entries(v))
           IN  \A k \in 2..Len(Entries(v)) :
                  /\ before + k \in 1..Len(Entries(u \o v))
                  /\ Entries(u \o v)[before + k] = Entries(v)[k]
<1> DEFINE w == u \o v
           n == Len(u)
           I == EntryStarts(w)
           V == EntryStarts(v)
           J == {i \in I : i <= n + 1}
           H == V \intersect {1}
           K == {k \in 1..Len(v) : k + 1 \in V}
<1>1. /\ w \in File /\ Len(w) = n + Len(v) /\ n \in Nat /\ Len(v) \in Nat
      /\ I \in SUBSET (1..Len(w)) /\ V \in SUBSET (1..Len(v))
  <2>1. w \in File /\ Len(w) = n + Len(v) /\ n \in Nat /\ Len(v) \in Nat
    BY ConcatProperties, LenProperties DEF File
  <2> HIDE DEF w
  <2> QED BY <2>1, EntriesAre
<1>2. IsFiniteSet(K) /\ K \in SUBSET (Nat \ {0})
  <2>1. K \in SUBSET (1..Len(v)) /\ IsFiniteSet(1..Len(v))
    BY <1>1, FS_Interval
  <2> HIDE DEF K
  <2>2. IsFiniteSet(K)
    BY <2>1, FS_Subset
  <2> QED BY <1>1, <2>1, <2>2
<1>3. Continued(V, H, 1, K)
  <2>1. ASSUME NEW i \in V, i # 1
        PROVE  i - 1 \in K /\ 1 + (i - 1) = i
    BY <1>1, <2>1
  <2>2. ASSUME NEW k \in K
        PROVE  1 + k \in V
    <3>1. k + 1 \in V /\ k + 1 = 1 + k
      BY <1>1
    <3> QED BY <3>1
  <2>3. H \in SUBSET (0..1)
    OBVIOUS
  <2> HIDE DEF K, V
  <2>4. V = H \union {1 + k : k \in K}
    BY <2>1, <2>2
  <2> QED BY <1>2, <2>3, <2>4 DEF Continued
<1>4. Continued(I, J, n + 1, K)
  <2>1. ASSUME NEW k \in 2..Len(v)
        PROVE  n + k \in I <=> k \in V
    <3>1. k \in 1..Len(v) /\ k # 1
      BY <1>1
    <3> QED BY <3>1, EntryBehind
  <2>2. ASSUME NEW i \in I, ~ i <= n + 1
        PROVE  i - (n + 1) \in K /\ (n + 1) + (i - (n + 1)) = i
    <3>1. i - n \in 2..Len(v) /\ n + (i - n) = i
      BY <1>1, <2>2
    <3>2. i - n \in V
      BY <2>1, <3>1
    <3>3. i - (n + 1) \in 1..Len(v) /\ (i - (n + 1)) + 1 = i - n /\ (n + 1) + (i - (n + 1)) = i
      BY <1>1, <3>1
    <3> QED BY <3>2, <3>3
  <2>3. ASSUME NEW k \in K
        PROVE  (n + 1) + k \in I
    <3>1. k + 1 \in V /\ k \in 1..Len(v)
      OBVIOUS
    <3>2. k + 1 \in 2..Len(v) /\ n + (k + 1) = (n + 1) + k
      BY <1>1, <3>1
    <3>3. n + (k + 1) \in I
      BY <2>1, <3>1, <3>2
    <3> QED BY <3>2, <3>3
  <2>4. J \in SUBSET (0..(n + 1)) /\ n + 1 \in Nat
    BY <1>1
  <2> HIDE DEF K, V, I, n
  <2>5. I = J \union {(n + 1) + k : k \in K}
    BY <2>2, <2>3
  <2> QED BY <1>2, <2>4, <2>5 DEF Continued
<1>5. /\ Len(Entries(w)) = Cardinality(I) /\ Len(Entries(v)) = Cardinality(V)
      /\ \A m \in 1..Cardinality(I) : Entries(w)[m] = LineAt(w, InOrder(I, Less(I))[m])
      /\ \A m \in 1..Cardinality(V) : Entries(v)[m] = LineAt(v, InOrder(V, Less(V))[m])
  <2> HIDE DEF w
  <2> QED BY <1>1, EntriesAre
<1>6. Cardinality(H) \in {0, 1}
  <2>1. H = {} \/ H = {1}
    OBVIOUS
  <2> HIDE DEF H
  <2> QED BY <2>1, FS_EmptySet, FS_Singleton
<1>7. K \in SUBSET Nat /\ \A k \in K : k + 1 \in 1..Len(v)
  BY <1>1
<1> HIDE DEF I, V, J, H, K
<1>8. /\ Cardinality(H) \in Nat /\ Cardinality(K) \in Nat
      /\ Cardinality(V) = Cardinality(H) + Cardinality(K)
      /\ \A m \in 1..Cardinality(K) :
            InOrder(V, Less(V))[Cardinality(H) + m] = 1 + InOrder(K, Less(K))[m]
  BY <1>3, OrderJoined
<1>9. /\ Cardinality(J) \in Nat
      /\ Cardinality(I) = Cardinality(J) + Cardinality(K)
      /\ \A m \in 1..Cardinality(K) :
            InOrder(I, Less(I))[Cardinality(J) + m] = (n + 1) + InOrder(K, Less(K))[m]
  <2> DEFINE n1 == n + 1
  <2>1. Continued(I, J, n1, K)
    BY <1>4
  <2> HIDE DEF n1
  <2>2. /\ Cardinality(J) \in Nat
        /\ Cardinality(I) = Cardinality(J) + Cardinality(K)
        /\ \A m \in 1..Cardinality(K) :
              InOrder(I, Less(I))[Cardinality(J) + m] = n1 + InOrder(K, Less(K))[m]
    BY <2>1, OrderJoined
  <2> QED BY <2>2 DEF n1
<1>10. ASSUME NEW k \in 2..Cardinality(V)
       PROVE  /\ (Cardinality(I) - Cardinality(V)) + k \in 1..Cardinality(I)
              /\ Entries(w)[(Cardinality(I) - Cardinality(V)) + k] = Entries(v)[k]
  <2> DEFINE h == Cardinality(H)
             j == Cardinality(J)
             q == Cardinality(K)
             m == k - h
  <2>1. m \in 1..q /\ h + m = k /\ j + m = (Cardinality(I) - Cardinality(V)) + k
        /\ j + m \in 1..Cardinality(I) /\ k \in 1..Cardinality(V)
    <3>1. /\ h \in {0, 1} /\ j \in Nat /\ q \in Nat
          /\ Cardinality(V) = h + q /\ Cardinality(I) = j + q
      BY <1>6, <1>8, <1>9
    <3> HIDE DEF h, j, q
    <3> QED BY <3>1
  <2> DEFINE p == InOrder(K, Less(K))[m]
  <2>2. p \in K
    BY <1>2, <1>7, <2>1, NumbersBelow
  <2>3. InOrder(V, Less(V))[h + m] = 1 + p /\ InOrder(I, Less(I))[j + m] = (n + 1) + p
    BY <1>8, <1>9, <2>1
  <2> HIDE DEF p, m, h, j
  <2>4. Entries(v)[k] = LineAt(v, 1 + p) /\ Entries(w)[j + m] = LineAt(w, (n + 1) + p)
    BY <1>5, <2>1, <2>3
  <2>5. 1 + p = p + 1 /\ (n + 1) + p = n + (p + 1) /\ p + 1 \in 1..Len(v)
    BY <1>1, <1>7, <2>2
  <2>6. LineAt(w, n + (p + 1)) = LineAt(v, p + 1)
    BY <2>5, LineBehind
  <2> QED BY <2>1, <2>4, <2>5, <2>6
<1> QED BY <1>5, <1>10

----------------------------------------------------------------------------
(* The commands of a scan. *)

(***************************************************************************)
(* Between the reading of the commands and the next domain, nothing of     *)
(* what they were made of changes.                                         *)
(***************************************************************************)
StraysAre == strays \in Seq(File)

LEMMA StraysKept ==
    ASSUME Types, StraysAre, [Next]_vars
    PROVE  StraysAre'
<1>1. strays' \in {strays, <<>>, Append(strays, left)}
  BY DEF Next, vars, scanning, Start, ResetAll, HandleListing, HandleRemoveDomain, HandleTarget,
         OpenDomains, NextLine, ReadCommands, RunPool, ToolCreates, Collect, RemoveOutputs,
         OpenResolve, NeedsResolvers, HasResolvers, NeedsSubdomains, HasSubdomains, Ask, Has,
         OpenNames, Resolve, ResolveFindsNothing, ResolveFirst
<1>2. Append(strays, left) \in Seq(File)
  BY AppendProperties DEF Types, StraysAre
<1> QED BY <1>1, <1>2, EmptySeq DEF StraysAre

LEMMA CommandsRead ==
    ASSUME Types, StraysAre, ReadCommands, pc' = "pool"
    PROVE  OwnCommandsRun'
<1> DEFINE E == Entries(left \o commands)
           own == Entries(commands)
           skip == IF Whole(left) THEN 0 ELSE 1
           before == Len(E) - Len(own)
<1>1. left \in File /\ commands \in File /\ left \o commands \in File
  BY ConcatProperties DEF Types, File
<1>2. /\ E \in Seq(File) /\ own \in Seq(File) /\ Len(E) \in Nat /\ Len(own) \in Nat
      /\ DOMAIN E = 1..Len(E)
  BY <1>1, EntriesAre, LenProperties
<1>3. /\ cmds' = [k \in DOMAIN E |-> ExpandCommand(E[k], k - 1)]
      /\ strays' = Append(strays, left) /\ UNCHANGED <<commands, target>>
  BY DEF ReadCommands, ReadAsCommands, ExitWith, fixed
<1>4. Last(strays') = left
  BY <1>1, <1>3, AppendProperties, LenProperties DEF Last, StraysAre
<1> HIDE DEF E
<1>5. Len(cmds') = Len(E)
  BY <1>2, <1>3
<1>6. ASSUME NEW k \in (skip + 1)..Len(own)
      PROVE  before + k \in 1..Len(E) /\ E[before + k] = own[k]
  <2>1. CASE Whole(left)
    <3>1. E = Entries(left) \o own /\ Len(E) = Len(Entries(left)) + Len(own)
          /\ Entries(left) \in Seq(File) /\ Len(Entries(left)) \in Nat
      BY <1>1, <2>1, EntriesJoined, EntriesAre DEF E
    <3> HIDE DEF own
    <3>2. before = Len(Entries(left)) /\ k \in 1..Len(own)
      BY <1>2, <2>1, <3>1
    <3>3. before + k \in 1..Len(E) /\ ~ before + k <= Len(Entries(left))
          /\ (before + k) - Len(Entries(left)) = k
      BY <1>2, <3>1, <3>2
    <3> DEFINE b == before + k
               U == Entries(left)
    <3>4. b \in 1..(Len(U) + Len(own)) /\ ~ b <= Len(U) /\ b - Len(U) = k
      BY <3>1, <3>3
    <3>5. U \in Seq(File) /\ E = U \o own
      BY <3>1
    <3> HIDE DEF b, U
    <3>6. E[b] = own[k]
      BY <1>2, <3>4, <3>5, ConcatProperties
    <3> QED BY <3>3, <3>6 DEF b
  <2>2. CASE ~Whole(left)
    <3>1. k \in 2..Len(own)
      BY <1>2, <2>2
    <3> QED BY <1>1, <3>1, LastEntries DEF E
  <2> QED BY <2>1, <2>2
<1>7. Whole(left) => before = Len(Entries(left))
  <2> SUFFICES ASSUME Whole(left) PROVE before = Len(Entries(left))
    OBVIOUS
  <2>1. Len(E) = Len(Entries(left)) + Len(own) /\ Len(Entries(left)) \in Nat
    BY <1>1, EntriesJoined, EntriesAre DEF E
  <2> QED BY <1>2, <2>1
<1>8. ASSUME NEW k \in (skip + 1)..Len(own)
      PROVE  cmds'[before + k] = ExpandCommand(own[k], before + k - 1)
  <2> DEFINE b == before + k
  <2>1. b \in DOMAIN E /\ E[b] = own[k]
    BY <1>2, <1>6
  <2> HIDE DEF b, own
  <2>2. cmds'[b] = ExpandCommand(own[k], b - 1)
    BY <1>3, <2>1
  <2> QED BY <2>2 DEF b
<1>9. \A line, k : ExpandCommand(line, k)' = ExpandCommand(line, k)
  BY <1>3 DEF ExpandCommand
<1> QED BY <1>3, <1>4, <1>5, <1>7, <1>8 DEF OwnCommandsRun, ExpandCommand

(***************************************************************************)
(* The commands of a scan are those of commands.txt behind what was kept.  *)
(***************************************************************************)
THEOREM OwnCommandsRunCorrect == Spec => []OwnCommandsRun
<1>1. Init => StraysAre /\ OwnCommandsRun
  BY EmptySeq DEF Init, StraysAre, OwnCommandsRun
<1>2. Types /\ StraysAre /\ OwnCommandsRun /\ [Next]_vars => OwnCommandsRun'
  <2> SUFFICES ASSUME Types, StraysAre, OwnCommandsRun, [Next]_vars PROVE OwnCommandsRun'
    OBVIOUS
  <2>1. CASE UNCHANGED vars
    BY <2>1 DEF vars, files, scanning, OwnCommandsRun, ExpandCommand
  <2>2. CASE RunPool \/ ToolCreates
    BY <2>2 DEF RunPool, ToolCreates, files, scanning, Goto, ExitWith, OwnCommandsRun, ExpandCommand
  <2>3. CASE ReadCommands
    <3>1. pc' \in {"pool", "exited"}
      BY <2>3 DEF ReadCommands, ExitWith, Goto
    <3> QED BY <2>3, <3>1, CommandsRead DEF OwnCommandsRun
  <2>4. CASE Start \/ ResetAll \/ HandleListing \/ HandleRemoveDomain \/ HandleTarget \/ OpenDomains
             \/ NextLine("line", "commands", "outputs") \/ Collect \/ RemoveOutputs
             \/ OpenResolve \/ HasResolvers \/ HasSubdomains \/ NeedsResolvers \/ NeedsSubdomains
             \/ OpenNames \/ NextLine("names", "name", "exited")
             \/ Resolve \/ ResolveFindsNothing \/ ResolveFirst
    <3>1. pc' \in {"exited", "reset", "list", "remove", "scan", "commands", "line", "outputs",
                   "resolve", "resolvers", "subdomains", "opened", "names", "name"}
      BY <2>4 DEF Start, ResetAll, HandleListing, HandleRemoveDomain, HandleTarget, OpenDomains,
                  NextLine, Collect, RemoveOutputs, OpenResolve, HasResolvers, HasSubdomains,
                  NeedsResolvers, NeedsSubdomains, Ask, Has, OpenNames, Resolve,
                  ResolveFindsNothing, ResolveFirst, Goto, ExitWith
    <3> QED BY <3>1 DEF OwnCommandsRun
  <2> QED BY <2>1, <2>2, <2>3, <2>4 DEF Next
<1>3. Types /\ StraysAre /\ [Next]_vars => Types' /\ StraysAre'
  BY TypesKept, StraysKept
<1> QED BY <1>1, <1>2, <1>3, InitTypes, PTL DEF Spec

----------------------------------------------------------------------------
(* What a call of the line reader returns. *)

(***************************************************************************)
(* It is the first line of what was kept and is left to read.              *)
(***************************************************************************)
LEMMA ReadsFirstLine ==
    ASSUME NEW kept \in File, NEW file \in File, kept \o file # <<>>
    PROVE  GetNextLine(kept, file).line = LineAt(kept \o file, 1)
<1> DEFINE HasNL(m) == "NL" \in Range(kept \o Take(file, m))
           Stops == {Len(file)} \union {m \in 0..Len(file) : m % BufferSize = 0 /\ HasNL(m)}
           n == Min(Stops)
           b == kept \o Take(file, n)
           c == Drop(file, n)
           r == GetNextLine(kept, file)
<1>1. n \in 0..Len(file) /\ (n = Len(file) \/ HasNL(n))
  <2>1. Len(file) \in Nat
    BY LenProperties DEF File
  <2>2. Stops \subseteq 0..Len(file) /\ Stops # {}
    BY <2>1
  <2>3. n \in Stops
    <3>1. Stops \in SUBSET Nat
      BY <2>1, <2>2
    <3> HIDE DEF Stops
    <3> QED BY <2>2, <3>1, MinIs
  <2> QED BY <2>2, <2>3
<1>2. r.line = Take(b, LineEnd(b))
  BY DEF GetNextLine
<1> HIDE DEF n, r, Stops
<1>3. /\ Take(file, n) \in File /\ c \in File
      /\ Take(file, n) \o c = file /\ Len(c) = Len(file) - n
  BY <1>1, CutInTwo
<1>4. b \in File /\ b \o c = kept \o file
  <2>1. (kept \o Take(file, n)) \o c = kept \o (Take(file, n) \o c)
    <3> DEFINE u == Take(file, n)
    <3>1. u \in File /\ c \in File
      BY <1>3
    <3> HIDE DEF u, c
    <3> QED BY <3>1, Assoc
  <2> QED BY <1>3, <2>1, JoinType
<1>5. ("NL" \in Range(b)) \/ b = kept \o file
  <2>1. CASE HasNL(n)
    BY <2>1
  <2>2. CASE n = Len(file)
    <3>1. Len(c) = 0
      BY <1>3, <2>2, LenProperties DEF File
    <3> HIDE DEF c, b
    <3>2. c = <<>>
      BY <1>3, <3>1, EmptySeq DEF File
    <3> QED BY <1>4, <3>2, ConcatEmptySeq DEF File
  <2> QED BY <1>1, <2>1, <2>2
<1> HIDE DEF b, c
<1>6. Len(b) \in Nat /\ DOMAIN b = 1..Len(b) /\ Len(c) \in Nat
  BY <1>3, <1>4, LenProperties DEF File
<1>7. b # <<>> /\ 1 \in 1..Len(b)
  <2>1. b # <<>>
    <3>1. b = <<>> => "NL" \notin Range(b)
      BY DEF Range
    <3> QED BY <1>5, <3>1
  <2>2. Len(b) # 0
    BY <1>4, <2>1, EmptySeq DEF File
  <2> QED BY <1>6, <2>1, <2>2
<1>8. PICK e \in 1..Len(b) :
          /\ e = Len(b) \/ b[e] = "NL"
          /\ \A j \in 1..(e - 1) : b[j] # "NL"
  BY <1>4, <1>7, LineEnds
<1>9. LineAt(b, 1) = SubSeq(b, 1, e)
  BY <1>4, <1>7, <1>8, LineIs
<1>10. LineAt(b, 1) = Take(b, LineEnd(b))
  <2>1. Drop(b, 1 - 1) = b
    <3>1. SubSeq(b, 1, Len(b)) = b /\ (1 - 1) + 1 = 1
      BY <1>4, SubSeqFull DEF File
    <3> QED BY <3>1 DEF Drop
  <2> QED BY <2>1 DEF LineAt
<1>11. CASE b = kept \o file
  BY <1>2, <1>10, <1>11 DEF r
<1>12. CASE "NL" \in Range(b)
  <2>1. b[e] = "NL"
    <3>1. PICK j \in 1..Len(b) : b[j] = "NL"
      BY <1>6, <1>12 DEF Range
    <3>2. j \notin 1..(e - 1)
      BY <1>8, <3>1
    <3>3. e = Len(b) => j = e
      <4>1. \A d \in Nat : e \in 1..d /\ j \in 1..d /\ e = d => j = e
        BY <3>2
      <4> QED BY <1>6, <1>8, <3>1, <4>1
    <3> QED BY <1>8, <3>1, <3>3
  <2> DEFINE w == b \o c
  <2>2. /\ w \in File /\ Len(w) = Len(b) + Len(c)
        /\ \A j \in 1..Len(b) : w[j] = b[j]
    <3>1. /\ w \in File /\ Len(w) = Len(b) + Len(c)
          /\ \A j \in 1..(Len(b) + Len(c)) : w[j] = IF j <= Len(b) THEN b[j] ELSE c[j - Len(b)]
      BY <1>3, <1>4, ConcatProperties DEF File
    <3> HIDE DEF w
    <3> QED BY <1>6, <3>1
  <2>3. SubSeq(w, 1, e) = SubSeq(b, 1, e)
    BY <1>3, <1>4, <1>7, <1>8, SubSeqOfConcat1 DEF File
  <2> HIDE DEF w
  <2>4. 1 \in 1..Len(w) /\ e \in 1..Len(w) /\ w[e] = "NL" /\ \A j \in 1..(e - 1) : w[j] # "NL"
    BY <1>6, <1>7, <1>8, <2>1, <2>2
  <2>5. LineAt(w, 1) = SubSeq(w, 1, e)
    BY <2>2, <2>4, LineIs
  <2> QED BY <1>2, <1>4, <1>9, <1>10, <2>3, <2>5 DEF r, w
<1> QED BY <1>5, <1>11, <1>12

(***************************************************************************)
(* It is empty only at the end.                                            *)
(***************************************************************************)
LEMMA ReadsNothing ==
    ASSUME NEW kept \in File, NEW file \in File, GetNextLine(kept, file).line = <<>>
    PROVE  kept \o file = <<>>
<1> SUFFICES ASSUME kept \o file # <<>> PROVE FALSE
  OBVIOUS
<1> DEFINE w == kept \o file
<1>1. w \in File
  BY JoinType
<1>2. GetNextLine(kept, file).line = LineAt(w, 1)
  BY ReadsFirstLine
<1> HIDE DEF w
<1>3. 1 \in 1..Len(w)
  BY <1>1, EmptySeq DEF w, File
<1> QED BY <1>1, <1>2, <1>3, LineAtIs

(***************************************************************************)
(* A line is a file of one line, and at most one entry.                    *)
(***************************************************************************)
LEMMA OneLine ==
    ASSUME NEW w \in File, w # <<>>
    PROVE  LET line == LineAt(w, 1)
           IN  /\ line \in File /\ line # <<>>
               /\ Whole(line) \/ line = w
               /\ IsEntry(line) => Len(Entries(line)) = 1 /\ Entries(line)[1] = line
               /\ ~IsEntry(line) => Len(Entries(line)) = 0
<1> DEFINE line == LineAt(w, 1)
           I == EntryStarts(line)
<1>1. Len(w) \in Nat /\ 1 \in 1..Len(w)
  BY EmptySeq, LenProperties DEF File
<1>2. line \in File /\ line # <<>>
  BY <1>1, LineAtIs
<1>3. PICK e \in 1..Len(w) :
          /\ e = Len(w) \/ w[e] = "NL"
          /\ \A j \in 1..(e - 1) : w[j] # "NL"
  BY <1>1, LineEnds
<1>4. line = SubSeq(w, 1, e)
  BY <1>1, <1>3, LineIs
<1>5. Len(line) = e /\ DOMAIN line = 1..e /\ \A j \in 1..e : line[j] = w[j]
  <2>1. \A j \in 1..e : w[j] \in Symbols
    BY <1>1, <1>3, ElementOfSeq DEF File
  <2>2. /\ SubSeq(w, 1, e) \in Seq(Symbols)
        /\ Len(SubSeq(w, 1, e)) = IF 1 <= e THEN e - 1 + 1 ELSE 0
        /\ \A j \in 1..(e - 1 + 1) : SubSeq(w, 1, e)[j] = w[1 + j - 1]
    BY <1>1, <1>3, <2>1, SubSeqProperties
  <2>3. e - 1 + 1 = e /\ 1 <= e /\ \A j \in 1..e : 1 + j - 1 = j
    BY <1>1, <1>3
  <2>4. Len(line) = e /\ \A j \in 1..e : line[j] = w[j]
    <3> HIDE DEF line
    <3> QED BY <1>4, <2>2, <2>3
  <2> QED BY <1>2, <2>4, LenProperties DEF File
<1> HIDE DEF line
<1>6. Whole(line) \/ line = w
  <2>1. CASE e = Len(w)
    BY <1>4, <2>1, SubSeqFull DEF File
  <2>2. CASE w[e] = "NL"
    BY <1>3, <1>5, <2>2 DEF Whole, Last
  <2> QED BY <1>3, <2>1, <2>2
<1>7. Starts(line) = {1}
  <2>1. ASSUME NEW k \in 1..e, k # 1
        PROVE  line[k - 1] # "NL"
    <3>1. k - 1 \in 1..(e - 1) /\ k - 1 \in 1..e
      BY <1>3, <2>1
    <3> QED BY <1>3, <1>5, <3>1
  <2>2. 1 \in 1..e
    BY <1>3
  <2> QED BY <1>5, <2>1, <2>2 DEF Starts
<1>8. LineAt(line, 1) = line
  <2>1. 1 \in 1..Len(line) /\ e \in 1..Len(line) /\ e = Len(line)
        /\ \A j \in 1..(e - 1) : line[j] # "NL"
    BY <1>3, <1>5
  <2>2. LineAt(line, 1) = SubSeq(line, 1, e)
    BY <1>2, <2>1, LineIs
  <2>3. SubSeq(line, 1, Len(line)) = line
    BY <1>2, SubSeqFull DEF File
  <2> QED BY <2>1, <2>2, <2>3
<1>9. /\ I \in SUBSET Nat /\ IsFiniteSet(I) /\ Len(Entries(line)) = Cardinality(I)
      /\ \A m \in 1..Cardinality(I) : Entries(line)[m] = LineAt(line, InOrder(I, Less(I))[m])
  BY <1>2, EntriesAre
<1>10. I = IF IsEntry(line) THEN {1} ELSE {}
  BY <1>7, <1>8 DEF EntryStarts
<1> HIDE DEF I
<1>11. IsEntry(line) => Len(Entries(line)) = 1 /\ Entries(line)[1] = line
  <2> SUFFICES ASSUME IsEntry(line) PROVE Len(Entries(line)) = 1 /\ Entries(line)[1] = line
    OBVIOUS
  <2>1. I = {1}
    BY <1>10
  <2>2. Cardinality(I) = 1
    BY <2>1, FS_Singleton
  <2>3. 1 \in 1..Cardinality(I)
    BY <2>2
  <2>4. InOrder(I, Less(I))[1] = 1
    BY <1>9, <2>1, <2>3, NumbersBelow
  <2> QED BY <1>8, <1>9, <2>2, <2>3, <2>4
<1>12. ~IsEntry(line) => Len(Entries(line)) = 0
  BY <1>9, <1>10, FS_EmptySet
<1> QED BY <1>2, <1>6, <1>11, <1>12 DEF line

(***************************************************************************)
(* The domains of a list, to which a line is added.                        *)
(***************************************************************************)
LEMMA DomainsJoined ==
    ASSUME NEW u \in File, NEW v \in File, Whole(u)
    PROVE  /\ Len(Entries(v)) = 0 => DomainsOf(u \o v) = DomainsOf(u)
           /\ Len(Entries(v)) = 1 =>
                 DomainsOf(u \o v) = Append(DomainsOf(u), Chomp(Entries(v)[1]))
<1> DEFINE U == Entries(u)
           V == Entries(v)
           W == Entries(u \o v)
<1>1. U \in Seq(File) /\ V \in Seq(File) /\ W = U \o V /\ Len(W) = Len(U) + Len(V)
  BY EntriesAre, EntriesJoined
<1> HIDE DEF U, V, W
<1>2. /\ Len(U) \in Nat /\ DOMAIN U = 1..Len(U) /\ Len(V) \in Nat
      /\ W \in Seq(File) /\ DOMAIN W = 1..Len(W)
      /\ \A k \in 1..(Len(U) + Len(V)) : W[k] = IF k <= Len(U) THEN U[k] ELSE V[k - Len(U)]
  BY <1>1, ConcatProperties, LenProperties
<1>3. /\ DomainsOf(u) = [k \in DOMAIN U |-> Chomp(U[k])]
      /\ DomainsOf(u \o v) = [k \in DOMAIN W |-> Chomp(W[k])]
  BY DEF DomainsOf, U, W
<1>4. ASSUME Len(V) = 0
      PROVE  DomainsOf(u \o v) = DomainsOf(u)
  <2>1. W = U
    <3>1. V = <<>>
      BY <1>1, <1>4, EmptySeq
    <3> QED BY <1>1, <3>1, ConcatEmptySeq
  <2> QED BY <1>3, <2>1
<1>5. ASSUME Len(V) = 1
      PROVE  DomainsOf(u \o v) = Append(DomainsOf(u), Chomp(V[1]))
  <2> DEFINE D == [k \in DOMAIN U |-> Chomp(U[k])]
             E == [k \in DOMAIN W |-> Chomp(W[k])]
             c == Chomp(V[1])
  <2>1. \A k \in 1..Len(U) : U[k] \in File
    BY <1>1, ElementOfSeq
  <2>2. \A k \in 1..Len(W) : W[k] \in File
    BY <1>2, ElementOfSeq
  <2>3. V[1] \in File /\ c \in File
    BY <1>1, <1>5, ElementOfSeq, ChompType
  <2>4. D \in Seq(File) /\ Len(D) = Len(U) /\ \A k \in 1..Len(U) : D[k] = Chomp(U[k])
    BY <1>2, <2>1, ChompType
  <2>5. E \in Seq(File) /\ Len(E) = Len(W) /\ \A k \in 1..Len(W) : E[k] = Chomp(W[k])
    BY <1>2, <2>2, ChompType
  <2>6. Len(W) = Len(U) + 1 /\ \A k \in 1..Len(U) : W[k] = U[k]
    BY <1>1, <1>2, <1>5
  <2>7. W[Len(U) + 1] = V[1]
    <3>1. Len(U) + 1 \in 1..(Len(U) + Len(V)) /\ ~ Len(U) + 1 <= Len(U)
          /\ (Len(U) + 1) - Len(U) = 1
      BY <1>2, <1>5
    <3> QED BY <1>2, <3>1
  <2> HIDE DEF D, E, c
  <2>8. /\ Append(D, c) \in Seq(File) /\ Len(Append(D, c)) = Len(D) + 1
        /\ \A k \in 1..Len(D) : Append(D, c)[k] = D[k]
        /\ Append(D, c)[Len(D) + 1] = c
    BY <2>3, <2>4, AppendProperties
  <2>9. \A k \in 1..Len(E) : E[k] = Append(D, c)[k]
    <3> SUFFICES ASSUME NEW k \in 1..Len(E) PROVE E[k] = Append(D, c)[k]
      OBVIOUS
    <3>1. CASE k = Len(U) + 1
      BY <2>4, <2>5, <2>6, <2>7, <2>8, <3>1 DEF c
    <3>2. CASE k # Len(U) + 1
      <4>1. k \in 1..Len(U) /\ k \in 1..Len(W)
        BY <1>2, <2>5, <2>6, <3>2
      <4> QED BY <2>4, <2>5, <2>6, <2>8, <4>1
    <3> QED BY <3>1, <3>2
  <2>10. E = Append(D, c)
    BY <2>4, <2>5, <2>6, <2>8, <2>9, SeqEqual
  <2> QED BY <1>3, <2>10 DEF D, E, c
<1> QED BY <1>4, <1>5 DEF U, V

----------------------------------------------------------------------------
(* Every domain is scanned. *)

(***************************************************************************)
(* A run without a target that has commands, of which no read so far has   *)
(* ended inside of a line when commands were read, and in which no tool of *)
(* an earlier scan has created the output of a line of the list.           *)
(***************************************************************************)
Regular ==
    /\ opts.target = None /\ Entries(commands) # <<>>
    /\ \A k \in DOMAIN strays : Whole(strays[k])
    /\ \A kept \in intruded : Entries(kept) = <<>>

Before == {"reset", "list", "remove", "scan"}
During == {"line", "commands", "pool", "collect"}

(***************************************************************************)
(* Before the loop nothing is kept, and nothing has been scanned.          *)
(***************************************************************************)
NothingYet == pc \in Before => left = <<>> /\ strays = <<>> /\ scanned = <<>>

(***************************************************************************)
(* What is read is the list; the loop stands behind a line of it, or at    *)
(* its end; and there is an output to be removed.                          *)
(***************************************************************************)
InTheList ==
    pc \in During /\ Regular =>
        /\ source = domains /\ source = used \o left \o rest
        /\ Whole(used) \/ left \o rest = <<>>
        /\ num \in Nat /\ (num # 0 \/ Missing(commands))

(***************************************************************************)
(* Nothing that was kept was taken for a command.                          *)
(***************************************************************************)
NoneTaken == Entries(Last(strays)) = <<>>

(***************************************************************************)
(* The tool that creates the first output of the scan.                     *)
(***************************************************************************)
FirstTool == [run |-> runs, scan |-> Len(strays), output |-> 0]

(***************************************************************************)
(* If a domain was taken for a command, that command is the first one of   *)
(* the scan, and does not mention the first output, which is not there     *)
(* either.                                                                 *)
(***************************************************************************)
TakenFails ==
    /\ pc = "pool" /\ Regular =>
          /\ cmds = <<>> \/ (Len(cmds) \in Nat \ {0} /\ DOMAIN cmds = 1..Len(cmds))
          /\ NoneTaken \/ (0 \notin outputs /\ Output(0) \notin Range(cmds[1]))
    /\ pc = "collect" /\ Regular =>
          /\ num \in Nat \ {0}
          /\ NoneTaken \/ (0 \notin outputs /\ FirstTool \notin tools)

(***************************************************************************)
(* The tools are those of scans that have begun, before the pool runs of   *)
(* earlier ones.                                                           *)
(***************************************************************************)
ToolsAreOfScans ==
    /\ runs \in Nat /\ tools \subseteq [run: Nat, scan: Nat, output: Nat]
    /\ \A tool \in tools :
          /\ tool.run <= runs
          /\ tool.run = runs =>
                /\ tool.scan <= Len(strays)
                /\ pc = "pool" => tool.scan < Len(strays)

(***************************************************************************)
(* The domains behind which the loop stands are those that are scanned,    *)
(* the last one perhaps still to come.                                     *)
(***************************************************************************)
ScannedSoFar ==
    Regular =>
        /\ pc = "line" => scanned = DomainsOf(used)
        /\ pc = "commands" => DomainsOf(used) = Append(scanned, target)
        /\ pc \in {"pool", "collect"} /\ NoneTaken => DomainsOf(used) = Append(scanned, target)
        /\ pc \in {"outputs", "resolve"} => scanned = DomainsOf(domains)

(***************************************************************************)
(* The list holds no place for an output.                                  *)
(***************************************************************************)
Names == Symbols \ {"$scp"}
ListIsPlain == domains \in Seq(Names)

ListInv ==
    NothingYet /\ InTheList /\ TakenFails /\ ScannedSoFar /\ ListIsPlain /\ ToolsAreOfScans

----------------------------------------------------------------------------
(* What files are made of. *)

LEMMA LineOver ==
    ASSUME NEW X \in SUBSET Symbols, NEW s \in Seq(X), NEW k \in 1..Len(s)
    PROVE  LineAt(s, k) \in Seq(X)
<1>1. s \in File
  BY SeqMonotonic DEF File
<1>2. PICK e \in k..Len(s) :
          /\ e = Len(s) \/ s[e] = "NL"
          /\ \A j \in k..(e - 1) : s[j] # "NL"
  BY <1>1, LineEnds
<1>3. LineAt(s, k) = SubSeq(s, k, e)
  BY <1>1, <1>2, LineIs
<1>4. \A j \in k..e : s[j] \in X
  <2>1. Len(s) \in Nat
    BY LenProperties
  <2>2. \A j \in k..e : j \in 1..Len(s)
    BY <1>2, <2>1
  <2> QED BY <2>2, ElementOfSeq
<1>5. k \in Int /\ e \in Int
  BY <1>2
<1> QED BY <1>3, <1>4, <1>5, SubSeqProperties

LEMMA ChompOver ==
    ASSUME NEW X, NEW line \in Seq(X)
    PROVE  Chomp(line) \in Seq(X)
<1>1. CASE line # <<>> /\ Last(line) = "NL"
  <2>1. Len(line) \in Nat /\ DOMAIN line = 1..Len(line) /\ \A i \in 1..Len(line) : line[i] \in X
    BY LenProperties, ElementOfSeq
  <2>2. \A i \in 1..(Len(line) - 1) : line[i] \in X
    BY <2>1
  <2>3. SubSeq(line, 1, Len(line) - 1) \in Seq(X)
    BY <2>1, <2>2, SubSeqProperties
  <2> QED BY <1>1, <2>3 DEF Chomp, Front
<1>2. CASE ~(line # <<>> /\ Last(line) = "NL")
  BY <1>2 DEF Chomp
<1> QED BY <1>1, <1>2

LEMMA WithoutOver ==
    ASSUME NEW X \in SUBSET Symbols, "NL" \in X, NEW file \in Seq(X), NEW name
    PROVE  Without(file, name) \in Seq(X)
<1> DEFINE ls == Lines(file)
           kept(k) == IF Chomp(ls[k]) = name THEN <<>> ELSE Append(Chomp(ls[k]), "NL")
           all == [k \in DOMAIN ls |-> kept(k)]
           I == Starts(file)
           N == Cardinality(I)
<1>1. file \in File
  BY SeqMonotonic DEF File
<1>2. /\ N \in Nat /\ DOMAIN ls = 1..N
      /\ \A k \in 1..N : InOrder(I, Less(I))[k] \in I /\ ls[k] = LineAt(file, InOrder(I, Less(I))[k])
  BY <1>1, LinesAtIs DEF Lines
<1>3. I \subseteq 1..Len(file)
  BY <1>1, StartsAre
<1>4. \A k \in 1..N : ls[k] \in Seq(X)
  BY <1>2, <1>3, LineOver
<1> HIDE DEF ls, N, I
<1>5. ASSUME NEW k \in 1..N
      PROVE  kept(k) \in Seq(X)
  <2> DEFINE c == Chomp(ls[k])
  <2>1. c \in Seq(X)
    BY <1>4, ChompOver
  <2> HIDE DEF c
  <2>2. Append(c, "NL") \in Seq(X) /\ <<>> \in Seq(X)
    BY <2>1, AppendProperties, EmptySeq
  <2> QED BY <2>2 DEF c
<1> HIDE DEF kept
<1>6. all \in Seq(Seq(X))
  BY <1>2, <1>5
<1>7. Without(file, name) = FlattenSeq(all)
  BY DEF Without, kept, ls
<1> HIDE DEF all
<1> QED BY <1>6, <1>7, FlattenType

LEMMA PartsOver ==
    ASSUME NEW X, NEW u \in File, NEW v \in File, u \o v \in Seq(X)
    PROVE  u \in Seq(X) /\ v \in Seq(X)
<1> DEFINE w == u \o v
           n == Len(u)
<1>1. /\ w \in Seq(X) /\ Len(w) = n + Len(v) /\ n \in Nat /\ Len(v) \in Nat
      /\ \A j \in 1..(n + Len(v)) : w[j] = IF j <= n THEN u[j] ELSE v[j - n]
  BY ConcatProperties, LenProperties DEF File
<1>2. \A j \in 1..(n + Len(v)) : w[j] \in X
  <2> HIDE DEF w, n
  <2> QED BY <1>1, ElementOfSeq
<1> HIDE DEF w
<1>3. ASSUME NEW j \in 1..n
      PROVE  u[j] \in X
  <2>1. j \in 1..(n + Len(v)) /\ j <= n
    BY <1>1
  <2> QED BY <1>1, <1>2, <2>1
<1>4. ASSUME NEW j \in 1..Len(v)
      PROVE  v[j] \in X
  <2>1. n + j \in 1..(n + Len(v)) /\ ~ n + j <= n /\ (n + j) - n = j
    BY <1>1
  <2>2. w[n + j] = v[j]
    BY <1>1, <2>1
  <2> QED BY <1>2, <2>1, <2>2
<1>5. SubSeq(u, 1, n) = u /\ SubSeq(v, 1, Len(v)) = v
  BY SubSeqFull DEF File
<1>6. SubSeq(u, 1, n) \in Seq(X)
  BY <1>1, <1>3, SubSeqProperties
<1>7. SubSeq(v, 1, Len(v)) \in Seq(X)
  BY <1>1, <1>4, SubSeqProperties
<1> QED BY <1>5, <1>6, <1>7

LEMMA ReplacedOver ==
    ASSUME NEW X, NEW Y, NEW pattern, NEW by \in Seq(Y), X \subseteq Y \union {pattern},
           NEW s \in Seq(X)
    PROVE  ReplaceSymbol(s, pattern, by) \in Seq(Y)
<1> DEFINE piece(k) == IF s[k] = pattern THEN by ELSE <<s[k]>>
           all == [k \in DOMAIN s |-> piece(k)]
<1>1. Len(s) \in Nat /\ DOMAIN s = 1..Len(s) /\ \A k \in 1..Len(s) : s[k] \in X
  BY LenProperties, ElementOfSeq
<1>2. ASSUME NEW k \in 1..Len(s)
      PROVE  piece(k) \in Seq(Y)
  <2>1. s[k] # pattern => s[k] \in Y
    BY <1>1
  <2> QED BY <2>1
<1> HIDE DEF piece
<1>3. all \in Seq(Seq(Y))
  BY <1>1, <1>2
<1>4. ReplaceSymbol(s, pattern, by) = FlattenSeq(all)
  BY DEF ReplaceSymbol, piece
<1> HIDE DEF all
<1> QED BY <1>3, <1>4, FlattenType

(***************************************************************************)
(* A line of the list, taken for a command, does not mention its output.   *)
(***************************************************************************)
LEMMA NamesNoOutput ==
    ASSUME Types, NEW line \in Seq(Names)
    PROVE  Output(0) \notin Range(ExpandCommand(line, 0))
<1> DEFINE c == Chomp(line)
           d == ReplaceSymbol(c, "$scp", <<Output(0)>>)
           e == ReplaceSymbol(d, "$target", target)
<1>1. c \in Seq(Names)
  BY ChompOver
<1> HIDE DEF c
<1>2. d = ReplaceSymbol(c, "$scp", <<>>)
  <2>1. Len(c) \in Nat /\ DOMAIN c = 1..Len(c) /\ \A k \in 1..Len(c) : c[k] # "$scp"
    BY <1>1, LenProperties, ElementOfSeq DEF Names
  <2>2. [k \in DOMAIN c |-> IF c[k] = "$scp" THEN <<Output(0)>> ELSE <<c[k]>>]
          = [k \in DOMAIN c |-> IF c[k] = "$scp" THEN <<>> ELSE <<c[k]>>]
    BY <2>1
  <2> QED BY <2>2 DEF ReplaceSymbol
<1>3. d \in Seq(Symbols)
  <2> HIDE DEF d
  <2>1. <<>> \in Seq(Symbols) /\ Names \subseteq Symbols \union {"$scp"}
    BY EmptySeq DEF Names
  <2>2. ReplaceSymbol(c, "$scp", <<>>) \in Seq(Symbols)
    BY <1>1, <2>1, ReplacedOver
  <2> QED BY <1>2, <2>2
<1> HIDE DEF d
<1>4. e \in Seq(Symbols)
  <2>1. target \in Seq(Symbols) /\ Symbols \subseteq Symbols \union {"$target"}
    BY DEF Types, File
  <2> QED BY <1>3, <2>1, ReplacedOver
<1>5. ExpandCommand(line, 0) = e
  BY DEF ExpandCommand, c, d
<1> HIDE DEF e
<1>6. Range(e) \subseteq Symbols
  BY <1>4, LenProperties, ElementOfSeq DEF Range
<1> QED BY <1>5, <1>6, OutputsAssumption

(***************************************************************************)
(* The list stays plain: what is added to it is a valid name.              *)
(***************************************************************************)
LEMMA PlainKept ==
    ASSUME Types, ListIsPlain, [Next]_vars
    PROVE  ListIsPlain'
<1>1. "NL" \in Names /\ "none" \in Names /\ <<>> \in Seq(Names) /\ None \in Seq(Names)
      /\ <<"NL">> \in Seq(Names)
  <2>1. "NL" \in Names /\ "none" \in Names
    BY FilesAssumption DEF Names
  <2> QED BY <2>1, EmptySeq DEF None
<1>2. CASE ResetAll
  <2>1. domains' \in {<<>>, domains, None}
    BY <1>2 DEF ResetAll
  <2> QED BY <1>1, <2>1 DEF ListIsPlain
<1>3. CASE HandleRemoveDomain
  <2>1. domains' \in {domains, Without(domains, opts.remove)}
    BY <1>3 DEF HandleRemoveDomain
  <2>2. Names \in SUBSET Symbols
    BY DEF Names
  <2>3. Without(domains, opts.remove) \in Seq(Names)
    BY <1>1, <2>2, WithoutOver DEF ListIsPlain
  <2> QED BY <2>1, <2>3 DEF ListIsPlain
<1>4. CASE HandleTarget
  <2> DEFINE name == opts.target
  <2>1. \/ domains' = domains
        \/ ValidDomainName(name) /\ domains' = domains \o name \o <<"NL">>
    BY <1>4 DEF HandleTarget
  <2>2. ASSUME ValidDomainName(name)
        PROVE  name \in Seq(Names)
    <3>1. \A k \in DOMAIN name : name[k] \in Alnum \union {".", "-"}
      BY <2>2 DEF ValidDomainName
    <3>2. name \in File
      BY DEF Types, Opts
    <3> HIDE DEF name
    <3>3. Len(name) \in Nat /\ DOMAIN name = 1..Len(name) /\ \A k \in 1..Len(name) : name[k] \in Symbols
      BY <3>2, LenProperties, ElementOfSeq DEF File
    <3>4. \A k \in 1..Len(name) : name[k] \in Names
      BY <3>1, <3>3, OutputsAssumption DEF Names
    <3>5. SubSeq(name, 1, Len(name)) = name
      BY <3>2, SubSeqFull DEF File
    <3>6. SubSeq(name, 1, Len(name)) \in Seq(Names)
      BY <3>3, <3>4, SubSeqProperties
    <3> QED BY <3>5, <3>6
  <2>3. ASSUME name \in Seq(Names)
        PROVE  domains \o name \o <<"NL">> \in Seq(Names)
    <3> HIDE DEF name
    <3>1. domains \o name \in Seq(Names)
      BY <2>3, ConcatProperties DEF ListIsPlain
    <3> QED BY <1>1, <3>1, ConcatProperties
  <2> HIDE DEF name
  <2> QED BY <2>1, <2>2, <2>3 DEF ListIsPlain
<1>5. CASE ~(ResetAll \/ HandleRemoveDomain \/ HandleTarget)
  <2>1. domains' = domains
    BY <1>5 DEF Next, vars, files, fixed, Start, HandleListing, OpenDomains, NextLine, ReadCommands,
         RunPool, ToolCreates, Collect, RemoveOutputs, OpenResolve, NeedsResolvers, HasResolvers, NeedsSubdomains,
         HasSubdomains, Ask, Has, OpenNames, Resolve, ResolveFindsNothing, ResolveFirst
  <2> QED BY <2>1 DEF ListIsPlain
<1> QED BY <1>2, <1>3, <1>4, <1>5

(***************************************************************************)
(* The loop over the list, action by action.                               *)
(***************************************************************************)
Looping == InTheList /\ TakenFails /\ ScannedSoFar

LEMMA Elsewhere ==
    ASSUME pc \notin During \union {"outputs", "resolve"} \/ ~Regular
    PROVE  Looping
BY DEF Looping, InTheList, TakenFails, ScannedSoFar, During

LEMMA NothingYetKept ==
    ASSUME NothingYet, [Next]_vars
    PROVE  NothingYet'
<1>1. CASE Start
  BY <1>1 DEF Start, NothingYet
<1>2. CASE ResetAll \/ HandleListing \/ HandleRemoveDomain
  BY <1>2 DEF ResetAll, HandleListing, HandleRemoveDomain, reading, scanning, NothingYet, Before
<1>3. CASE UNCHANGED vars \/ ToolCreates
  BY <1>3 DEF vars, ToolCreates, reading, scanning, NothingYet
<1>4. CASE HandleTarget \/ OpenDomains
             \/ NextLine("line", "commands", "outputs") \/ ReadCommands \/ RunPool \/ Collect
             \/ RemoveOutputs
             \/ OpenResolve \/ HasResolvers \/ HasSubdomains \/ NeedsResolvers \/ NeedsSubdomains
             \/ OpenNames \/ NextLine("names", "name", "exited")
             \/ Resolve \/ ResolveFindsNothing \/ ResolveFirst
  <2>1. pc' \in {"exited", "commands", "line", "outputs", "pool", "collect",
                 "resolve", "resolvers", "subdomains", "opened", "names", "name"}
    BY <1>4 DEF HandleTarget, OpenDomains, NextLine, ReadCommands, RunPool, Collect, RemoveOutputs,
                OpenResolve, HasResolvers, HasSubdomains, NeedsResolvers, NeedsSubdomains, Ask, Has,
                OpenNames, Resolve, ResolveFindsNothing, ResolveFirst, Goto, ExitWith
  <2> QED BY <2>1 DEF NothingYet, Before
<1> QED BY <1>1, <1>2, <1>3, <1>4 DEF Next

LEMMA OpenDomainsLoops ==
    ASSUME Types, ListInv, OpenDomains
    PROVE  Looping'
<1>1. CASE pc' = "exited"
  BY <1>1, Elsewhere DEF During, Looping, InTheList, TakenFails, ScannedSoFar
<1>2. CASE pc' # "exited"
  <2>1. /\ pc' = "line" /\ OpensList /\ left = <<>> /\ scanned' = <<>>
        /\ num' = Count /\ UNCHANGED <<files, opts, stdin, target, inside>>
    BY <1>2 DEF OpenDomains, Goto, ExitWith, ListInv, NothingYet, Before, scanning
  <2>2. source' = domains' /\ source' = used' \o left' \o rest'
    <3>1. source' = domains
      BY <2>1, ConcatEmptySeq DEF OpensList, Types, File
    <3> QED BY <2>1, <3>1, OpensListTypes DEF files
  <2>3. used' = <<>>
    BY <2>1 DEF OpensList
  <2>4. Entries(commands) # <<>> => num' \in Nat /\ (num' # 0 \/ Missing(commands))
    <3>1. Entries(commands) \in Seq(File)
      BY EntriesAre DEF Types
    <3> QED BY <2>1, <3>1, EmptySeq DEF Count
  <2>5. commands' = commands /\ Missing(commands)' = Missing(commands)
    BY <2>1 DEF files, Missing
  <2>6. DomainsOf(<<>>) = <<>>
    <3>1. <<>> \in File /\ Len(<<>>) = 0
      BY NoneIsFile
    <3>2. /\ EntryStarts(<<>>) \subseteq 1..Len(<<>>) /\ Entries(<<>>) \in Seq(File)
          /\ Len(Entries(<<>>)) = Cardinality(EntryStarts(<<>>))
      BY <3>1, EntriesAre
    <3>3. Cardinality(EntryStarts(<<>>)) = 0
      <4>1. EntryStarts(<<>>) = {}
        BY <3>1, <3>2
      <4> QED BY <4>1, FS_EmptySet
    <3>4. Entries(<<>>) = <<>>
      BY <3>2, <3>3, EmptySeq
    <3> QED BY <3>4 DEF DomainsOf
  <2>7. InTheList'
    BY <2>2, <2>3, <2>4, <2>5 DEF InTheList, Regular, Whole
  <2>8. TakenFails' /\ ScannedSoFar'
    BY <2>1, <2>3, <2>6 DEF TakenFails, ScannedSoFar
  <2> QED BY <2>7, <2>8 DEF Looping
<1> QED BY <1>1, <1>2

LEMMA WholeJoined ==
    ASSUME NEW u \in File, NEW v \in File, Whole(v), v # <<>> \/ Whole(u)
    PROVE  Whole(u \o v)
<1>1. CASE v = <<>>
  <2>1. u \o v = u
    BY <1>1, ConcatEmptySeq DEF File
  <2> QED BY <1>1, <2>1
<1>2. CASE v # <<>>
  <2> DEFINE w == u \o v
  <2>1. /\ w \in File /\ Len(w) = Len(u) + Len(v) /\ Len(u) \in Nat /\ Len(v) \in Nat
        /\ \A j \in 1..(Len(u) + Len(v)) : w[j] = IF j <= Len(u) THEN u[j] ELSE v[j - Len(u)]
    BY ConcatProperties, LenProperties DEF File
  <2>2. Len(v) # 0
    BY <1>2, EmptySeq DEF File
  <2> HIDE DEF w
  <2>3. Len(w) \in 1..(Len(u) + Len(v)) /\ ~ Len(w) <= Len(u) /\ Len(w) - Len(u) = Len(v)
    BY <2>1, <2>2
  <2>4. w[Len(w)] = v[Len(v)]
    BY <2>1, <2>3
  <2>5. v[Len(v)] = "NL"
    BY <2>2, WholeEnds
  <2> QED BY <2>4, <2>5 DEF Whole, Last, w
<1> QED BY <1>1, <1>2

(***************************************************************************)
(* The loop goes on behind the next line of the list.                      *)
(***************************************************************************)
LEMMA NextLineLoops ==
    ASSUME Types, ListInv, NextLine("line", "commands", "outputs")
    PROVE  Looping'
<1> DEFINE r == GetNextLine(left, rest)
           w == left \o rest
           line == r.line
<1>1. /\ pc = "line" /\ left' = r.left /\ rest' = r.rest /\ used' = used \o line
      /\ target' = IF IsEntry(line) THEN Chomp(line) ELSE target
      /\ UNCHANGED <<files, opts, source, num, strays, scanned, inside, intruded>>
  BY DEF NextLine, late
<1>2. /\ line = <<>> => pc' = "outputs"
      /\ line # <<>> /\ IsEntry(line) => pc' = "commands"
      /\ line # <<>> /\ ~IsEntry(line) => pc' = "line"
  <2> HIDE DEF r
  <2>1. CASE line = <<>>
    <3>1. ~IsEntry(line)
      BY <2>1 DEF IsEntry
    <3> QED BY <2>1, <3>1 DEF NextLine, Goto, r
  <2>2. CASE line # <<>>
    BY <2>2 DEF NextLine, Goto, r
  <2> QED BY <2>1, <2>2
<1>3. /\ line \in File /\ left' \in File /\ rest' \in File
      /\ (line \o left') \o rest' = w
  <2>1. /\ r.line \in File /\ r.left \in File /\ r.rest \in File
        /\ r.line \o r.left \o r.rest = left \o rest
    BY ReadsInOrder DEF Types
  <2> HIDE DEF r
  <2> QED BY <1>1, <2>1
<1>4. w \in File /\ used \in File /\ left \in File /\ rest \in File
  BY JoinType DEF Types
<1>5. w # <<>> => line = LineAt(w, 1)
  BY <1>4, ReadsFirstLine
<1>6. line = <<>> => w = <<>>
  BY <1>4, ReadsNothing
<1>7. source' = source /\ used' \o left' \o rest' = used \o left \o rest
  BY NextLineTypes
<1> HIDE DEF r, line, w
<1> SUFFICES ASSUME Regular' PROVE Looping'
  BY Elsewhere DEF Looping, InTheList, TakenFails, ScannedSoFar
<1>8. Regular
  BY <1>1 DEF Regular, files
<1>9. /\ source = domains /\ source = used \o left \o rest
      /\ Whole(used) \/ w = <<>>
      /\ num \in Nat /\ (num # 0 \/ Missing(commands))
      /\ scanned = DomainsOf(used)
  BY <1>1, <1>8 DEF ListInv, InTheList, ScannedSoFar, During, w
<1>10. /\ source' = domains' /\ source' = used' \o left' \o rest'
       /\ num' \in Nat /\ (num' # 0 \/ Missing(commands)')
  BY <1>1, <1>7, <1>9 DEF files, Missing
<1>11. CASE line = <<>>
  <2>1. used = domains
    <3>1. (used \o left) \o rest = used \o w
      BY <1>4, Assoc DEF w
    <3>2. used \o w = used
      BY <1>4, <1>6, <1>11, ConcatEmptySeq DEF File
    <3> QED BY <1>9, <3>1, <3>2
  <2>2. ScannedSoFar'
    BY <1>1, <1>2, <1>9, <1>11, <2>1 DEF ScannedSoFar, files
  <2> QED BY <1>2, <1>11, <2>2 DEF Looping, InTheList, TakenFails, During
<1>12. CASE line # <<>>
  <2>1. line \o left' \in File /\ (line \o left') \o rest' = line \o (left' \o rest')
    BY <1>3, JoinType, Assoc
  <2>2. w # <<>>
    <3>1. line \o (left' \o rest') = <<>> => line = <<>>
      BY <1>3, JoinType, ConcatEqualIffEmpty DEF File
    <3> QED BY <1>3, <1>12, <2>1, <3>1
  <2>3. /\ Whole(line) \/ line = w
        /\ IsEntry(line) => Len(Entries(line)) = 1 /\ Entries(line)[1] = line
        /\ ~IsEntry(line) => Len(Entries(line)) = 0
    BY <1>4, <1>5, <2>2, OneLine
  <2>4. Whole(used)
    BY <1>9, <2>2
  <2>5. Whole(used') \/ left' \o rest' = <<>>
    <3>1. CASE Whole(line)
      BY <1>1, <1>3, <1>4, <1>12, <3>1, WholeJoined
    <3>2. CASE line = w
      <4>1. line \o (left' \o rest') = line
        BY <1>3, <2>1, <3>2
      <4>2. left' \o rest' \in File
        BY <1>3, JoinType
      <4> QED BY <1>3, <4>1, <4>2, ConcatEqualIffEmpty DEF File
    <3> QED BY <2>3, <3>1, <3>2
  <2>6. /\ IsEntry(line) => DomainsOf(used') = Append(DomainsOf(used), Chomp(line))
        /\ ~IsEntry(line) => DomainsOf(used') = DomainsOf(used)
    BY <1>1, <1>3, <1>4, <2>3, <2>4, DomainsJoined
  <2>7. InTheList'
    BY <1>10, <2>5 DEF InTheList
  <2>8. ScannedSoFar'
    BY <1>1, <1>2, <1>9, <1>12, <2>6 DEF ScannedSoFar
  <2> QED BY <1>2, <1>12, <2>7, <2>8 DEF Looping, TakenFails
<1> QED BY <1>11, <1>12

(***************************************************************************)
(* What was kept is taken for commands, and the loop stands behind it.     *)
(***************************************************************************)
LEMMA ReadCommandsLoops ==
    ASSUME Types, StraysAre, ListInv, ReadCommands
    PROVE  Looping'
<1> SUFFICES ASSUME Regular', pc' # "exited" PROVE Looping'
  BY Elsewhere DEF Looping, InTheList, TakenFails, ScannedSoFar, During
<1> DEFINE E == Entries(left \o commands)
           own == Entries(commands)
           kept == Entries(left)
<1>1. /\ pc = "commands" /\ pc' = "pool" /\ ~Missing(commands)
      /\ outputs' = outputs \ (0..(num - 1))
      /\ cmds' = [k \in DOMAIN E |-> ExpandCommand(E[k], k - 1)]
      /\ strays' = Append(strays, left) /\ left' = <<>> /\ used' = used \o left
      /\ UNCHANGED <<commands, opts, runs, domains, rest, source, num, target, scanned, inside,
                     tools, intruded>>
  BY DEF ReadCommands, ReadAsCommands, ExitWith, Goto, fixed, late
<1>2. /\ left \in File /\ commands \in File /\ used \in File /\ rest \in File
      /\ domains \in Seq(Names) /\ left \o commands \in File
  BY JoinType DEF Types, ListInv, ListIsPlain
<1>3. /\ Len(strays) \in Nat /\ Len(strays') = Len(strays) + 1 /\ DOMAIN strays' = 1..(Len(strays) + 1)
      /\ DOMAIN strays = 1..Len(strays)
      /\ \A k \in 1..Len(strays) : strays'[k] = strays[k]
      /\ strays'[Len(strays) + 1] = left
  BY <1>1, <1>2, AppendProperties, LenProperties DEF StraysAre
<1>4. Regular /\ Whole(left) /\ Last(strays') = left
  <2>1. \A k \in 1..(Len(strays) + 1) : Whole(strays'[k])
    BY <1>3 DEF Regular
  <2>2. Len(strays) + 1 \in 1..(Len(strays) + 1) /\ \A k \in 1..Len(strays) : k \in 1..(Len(strays) + 1)
    BY <1>3
  <2>3. Whole(left)
    BY <1>3, <2>1, <2>2
  <2>4. \A k \in DOMAIN strays : Whole(strays[k])
    <3> SUFFICES ASSUME NEW k \in DOMAIN strays PROVE Whole(strays[k])
      OBVIOUS
    <3>1. Whole(strays'[k]) /\ strays'[k] = strays[k]
      BY <1>3, <2>1, <2>2
    <3> QED BY <3>1
  <2> QED BY <1>1, <1>3, <2>3, <2>4 DEF Regular, Last
<1>5. /\ source = domains /\ source = used \o left \o rest
      /\ Whole(used) \/ left \o rest = <<>>
      /\ num \in Nat /\ num # 0
      /\ DomainsOf(used) = Append(scanned, target)
  BY <1>1, <1>4 DEF ListInv, InTheList, ScannedSoFar, During
<1>6. own # <<>> /\ own \in Seq(File) /\ kept \in Seq(File) /\ E \in Seq(File)
      /\ E = kept \o own /\ Len(E) = Len(kept) + Len(own)
  <2>1. own # <<>>
    BY <1>4 DEF Regular
  <2>2. E = kept \o own /\ Len(E) = Len(kept) + Len(own)
    BY <1>2, <1>4, EntriesJoined
  <2>3. own \in Seq(File) /\ kept \in Seq(File) /\ E \in Seq(File)
    BY <1>2, EntriesAre
  <2> QED BY <2>1, <2>2, <2>3
<1>7. InTheList'
  <2>1. used' \o left' \o rest' = used \o left \o rest
    BY ReadCommandsTypes, <1>1
  <2>2. Whole(used') \/ left' \o rest' = <<>>
    <3>1. CASE left = <<>>
      BY <1>1, <1>2, <1>5, <3>1, ConcatEmptySeq DEF File
    <3>2. CASE left # <<>>
      BY <1>1, <1>2, <1>4, <3>2, WholeJoined
    <3> QED BY <3>1, <3>2
  <2> QED BY <1>1, <1>5, <2>1, <2>2 DEF InTheList
<1>8. NoneTaken' => DomainsOf(used') = Append(scanned', target')
  <2> SUFFICES ASSUME NoneTaken' PROVE DomainsOf(used') = Append(scanned', target')
    OBVIOUS
  <2>1. kept = <<>>
    BY <1>4 DEF NoneTaken
  <2>2. DomainsOf(used \o left) = DomainsOf(used)
    <3>1. CASE left = <<>>
      BY <1>2, <3>1, ConcatEmptySeq DEF File
    <3>2. CASE left # <<>>
      <4>1. left \o rest # <<>>
        BY <1>2, <3>2, ConcatEqualIffEmpty DEF File
      <4>2. Len(kept) = 0
        BY <2>1, EmptySeq
      <4> QED BY <1>2, <1>5, <4>1, <4>2, DomainsJoined
    <3> QED BY <3>1, <3>2
  <2> QED BY <1>1, <1>5, <2>2
<1> HIDE DEF E, kept, own
<1>9. /\ 0 \notin outputs'
      /\ Len(cmds') \in Nat \ {0} /\ DOMAIN cmds' = 1..Len(cmds')
      /\ cmds'[1] = ExpandCommand(E[1], 0)
  <2>1. 0 \in 0..(num - 1)
    BY <1>5
  <2>2. Len(own) \in Nat \ {0} /\ Len(kept) \in Nat
    BY <1>6, EmptySeq, LenProperties
  <2>3. Len(E) \in Nat \ {0} /\ DOMAIN E = 1..Len(E)
    BY <1>6, <2>2, LenProperties
  <2>4. 1 \in DOMAIN E /\ 1 - 1 = 0
    BY <2>3
  <2> QED BY <1>1, <2>1, <2>3, <2>4
<1>10. ASSUME ~NoneTaken'
       PROVE  Output(0) \notin Range(cmds'[1])
  <2>1. kept # <<>>
    BY <1>4, <1>10 DEF NoneTaken, kept
  <2>2. E[1] = kept[1] /\ 1 \in 1..Len(kept)
    <3>1. Len(kept) \in Nat \ {0} /\ Len(own) \in Nat
      BY <1>6, <2>1, EmptySeq, LenProperties
    <3>2. 1 \in 1..(Len(kept) + Len(own)) /\ 1 <= Len(kept) /\ 1 \in 1..Len(kept)
      BY <3>1
    <3> QED BY <1>6, <3>2, ConcatProperties
  <2>3. left \in Seq(Names)
    <3>1. used \o left \in File /\ (used \o left) \o rest \in Seq(Names)
      BY <1>2, <1>5, JoinType
    <3>2. used \o left \in Seq(Names)
      BY <1>2, <3>1, PartsOver
    <3> QED BY <1>2, <3>2, PartsOver
  <2>4. kept[1] \in Seq(Names)
    <3> DEFINE I == EntryStarts(left)
               k == InOrder(I, Less(I))[1]
    <3>1. /\ I \in SUBSET Nat /\ I \subseteq 1..Len(left) /\ IsFiniteSet(I)
          /\ Len(kept) = Cardinality(I)
          /\ \A m \in 1..Cardinality(I) : kept[m] = LineAt(left, InOrder(I, Less(I))[m])
      BY <1>2, EntriesAre DEF kept
    <3> HIDE DEF I
    <3>2. kept[1] = LineAt(left, k) /\ k \in I
      BY <2>2, <3>1, NumbersBelow
    <3> HIDE DEF k
    <3>3. Names \in SUBSET Symbols /\ k \in 1..Len(left)
      BY <3>1, <3>2 DEF Names
    <3> QED BY <2>3, <3>2, <3>3, LineOver
  <2>5. Output(0) \notin Range(ExpandCommand(kept[1], 0))
    BY <2>4, NamesNoOutput
  <2> QED BY <1>9, <2>2, <2>5
<1>11. TakenFails'
  BY <1>1, <1>9, <1>10 DEF TakenFails
<1>12. ScannedSoFar'
  BY <1>1, <1>8 DEF ScannedSoFar
<1> QED BY <1>7, <1>11, <1>12 DEF Looping

(* The first output is not made by a line of the list, so that the         *)
(* collection does not succeed: by the pool it is not,                     *)
(***************************************************************************)
LEMMA RunPoolLoops ==
    ASSUME Types, StraysAre, ListInv, RunPool
    PROVE  Looping'
<1> SUFFICES ASSUME Regular', pc' # "exited" PROVE Looping'
  BY Elsewhere DEF Looping, InTheList, TakenFails, ScannedSoFar, During
<1>1. /\ pc = "pool" /\ pc' = "collect" /\ cmds # <<>> /\ num' = Len(cmds)
      /\ UNCHANGED <<commands, opts, runs, domains, outputs, target, strays, scanned, left, rest,
                     source, used, inside, intruded>>
  BY DEF RunPool, files, reading, Goto, ExitWith
<1>2. \A tool \in tools' : tool \in tools \/ tool.output \in Created
  BY DEF RunPool
<1>3. Regular
  BY <1>1 DEF Regular
<1>4. /\ Len(cmds) \in Nat \ {0} /\ DOMAIN cmds = 1..Len(cmds)
      /\ NoneTaken \/ (0 \notin outputs /\ Output(0) \notin Range(cmds[1]))
  BY <1>1, <1>3 DEF ListInv, TakenFails
<1>5. ASSUME ~NoneTaken
      PROVE  FirstTool \notin tools'
  <2>1. 0 \notin Created
    <3> SUFFICES ASSUME 0 \in Created PROVE FALSE
      OBVIOUS
    <3>1. PICK k \in DOMAIN cmds : 0 = k - 1 /\ Output(k - 1) \in Range(cmds[k])
      BY DEF Created
    <3>2. k = 1 /\ k - 1 = 0
      BY <1>4, <3>1
    <3> QED BY <1>4, <1>5, <3>1, <3>2
  <2>2. FirstTool.output = 0 /\ FirstTool.run = runs /\ FirstTool.scan = Len(strays)
    BY DEF FirstTool
  <2>3. FirstTool \notin tools
    <3> SUFFICES ASSUME FirstTool \in tools PROVE FALSE
      OBVIOUS
    <3>1. FirstTool.scan < Len(strays)
      BY <1>1, <2>2 DEF ListInv, ToolsAreOfScans
    <3>2. Len(strays) \in Nat
      BY LenProperties DEF StraysAre
    <3> QED BY <2>2, <3>1, <3>2
  <2> QED BY <1>2, <2>1, <2>2, <2>3
<1>6. InTheList'
  BY <1>1, <1>3, <1>4 DEF ListInv, InTheList, During
<1>7. TakenFails'
  BY <1>1, <1>4, <1>5 DEF TakenFails, NoneTaken, FirstTool
<1>8. ScannedSoFar'
  BY <1>1, <1>3 DEF ListInv, ScannedSoFar, NoneTaken
<1> QED BY <1>6, <1>7, <1>8 DEF Looping

(***************************************************************************)
(* and by the tool of an earlier scan only as an intrusion.                *)
(***************************************************************************)
LEMMA ToolCreatesLoops ==
    ASSUME Types, StraysAre, ListInv, ToolCreates
    PROVE  Looping'
<1> SUFFICES ASSUME Regular' PROVE Looping'
  BY Elsewhere DEF Looping, InTheList, TakenFails, ScannedSoFar
<1>1. PICK tool \in tools :
          /\ tools' = tools \ {tool} /\ outputs' = outputs \union {tool.output}
          /\ intruded' =
                IF pc \in {"pool", "collect"} /\ tool.output = 0
                   /\ (tool.run # runs \/ tool.scan # Len(strays))
                THEN intruded \union {Last(strays)} ELSE intruded
  BY DEF ToolCreates
<1>2. UNCHANGED <<domains, commands, opts, runs, left, rest, source, used, num, target, cmds, strays,
                  scanned, inside, pc>>
  BY DEF ToolCreates, reading, scanning
<1>3. Regular
  BY <1>1, <1>2 DEF Regular
<1>4. ASSUME pc \in {"pool", "collect"}, ~NoneTaken
      PROVE  0 \notin outputs'
  <2> SUFFICES ASSUME tool.output = 0 PROVE FALSE
    BY <1>1, <1>3, <1>4 DEF ListInv, TakenFails
  <2>1. tool.run = runs /\ tool.scan = Len(strays)
    <3> SUFFICES ASSUME tool.run # runs \/ tool.scan # Len(strays) PROVE FALSE
      OBVIOUS
    <3>1. Last(strays) \in intruded'
      BY <1>1, <1>4
    <3> QED BY <1>4, <3>1 DEF Regular, NoneTaken
  <2>2. CASE pc = "pool"
    <3>1. tool.scan < Len(strays) /\ Len(strays) \in Nat
      BY <2>1, <2>2, LenProperties DEF ListInv, ToolsAreOfScans, StraysAre
    <3> QED BY <2>1, <3>1
  <2>3. CASE pc = "collect"
    <3>1. tool = FirstTool
      BY <2>1 DEF ListInv, ToolsAreOfScans, FirstTool
    <3> QED BY <1>3, <1>4, <2>3, <3>1 DEF ListInv, TakenFails
  <2> QED BY <1>4, <2>2, <2>3
<1>5. InTheList'
  BY <1>2, <1>3 DEF ListInv, InTheList, Missing
<1>6. TakenFails'
  BY <1>1, <1>2, <1>3, <1>4 DEF ListInv, TakenFails, NoneTaken, FirstTool
<1>7. ScannedSoFar'
  BY <1>2, <1>3 DEF ListInv, ScannedSoFar, NoneTaken
<1> QED BY <1>5, <1>6, <1>7 DEF Looping

LEMMA CollectLoops ==
    ASSUME Types, ListInv, Collect
    PROVE  Looping'
<1> SUFFICES ASSUME Regular', pc' # "exited" PROVE Looping'
  BY Elsewhere DEF Looping, InTheList, TakenFails, ScannedSoFar, During
<1>1. /\ pc = "collect" /\ 0..(num - 1) \subseteq outputs /\ scanned' = Append(scanned, target)
      /\ UNCHANGED <<files, opts, num, target, cmds, strays, reading, inside, intruded>>
  BY DEF Collect, Goto, ExitWith, late
<1>2. Regular /\ pc' = "line"
  <2>1. Regular
    BY <1>1 DEF Regular, files
  <2> QED BY <2>1 DEF Regular, Collect, Goto, ExitWith
<1>3. num \in Nat \ {0} /\ (NoneTaken \/ 0 \notin outputs)
  BY <1>1, <1>2 DEF ListInv, TakenFails
<1>4. NoneTaken
  <2>1. 0 \in 0..(num - 1)
    BY <1>3
  <2> QED BY <1>1, <1>3, <2>1
<1>5. DomainsOf(used) = scanned'
  BY <1>1, <1>2, <1>4 DEF ListInv, ScannedSoFar
<1>6. InTheList'
  BY <1>1, <1>2 DEF ListInv, InTheList, During, files, reading, Missing
<1>7. TakenFails' /\ ScannedSoFar'
  BY <1>1, <1>2, <1>5 DEF TakenFails, ScannedSoFar, reading
<1> QED BY <1>6, <1>7 DEF Looping

(***************************************************************************)
(* A scan begins with the tools of the ones before it.                     *)
(***************************************************************************)
LEMMA ToolsKept ==
    ASSUME StraysAre, ToolsAreOfScans, [Next]_vars
    PROVE  ToolsAreOfScans'
<1>1. Len(strays) \in Nat
  BY LenProperties DEF StraysAre
<1>2. CASE Start
  <2>1. runs' = runs + 1 /\ tools' = tools /\ pc' # "pool"
    BY <1>2 DEF Start, ExitWith
  <2>2. \A tool \in tools : tool.run \in Nat /\ tool.run <= runs
    BY DEF ToolsAreOfScans
  <2>3. \A tool \in tools : tool.run <= runs + 1 /\ tool.run # runs + 1
    BY <2>2 DEF ToolsAreOfScans
  <2> QED BY <2>1, <2>3 DEF ToolsAreOfScans
<1>3. CASE ReadCommands
  <2>1. /\ UNCHANGED <<runs, tools>>
        /\ \/ strays' = Append(strays, left)
           \/ strays' = strays /\ pc' # "pool"
    BY <1>3 DEF ReadCommands, fixed, late, ExitWith
  <2>2. Len(Append(strays, left)) = Len(strays) + 1
    BY DEF StraysAre
  <2>3. \A tool \in tools : tool.scan \in Nat
    BY DEF ToolsAreOfScans
  <2> QED BY <1>1, <2>1, <2>2, <2>3 DEF ToolsAreOfScans
<1>4. CASE RunPool
  <2> DEFINE new == [run: {runs}, scan: {Len(strays)}, output: Nat]
  <2>1. /\ UNCHANGED <<runs, strays>> /\ pc' # "pool"
        /\ tools' \subseteq tools \union new
    <3>1. \A n \in 0..Len(cmds) : Created \intersect (0..(n - 1)) \subseteq Nat
      OBVIOUS
    <3> QED BY <1>4, <3>1 DEF RunPool, Goto, ExitWith
  <2>2. new \subseteq [run: Nat, scan: Nat, output: Nat]
    BY <1>1 DEF ToolsAreOfScans
  <2>3. \A tool \in new : tool.run = runs /\ tool.scan = Len(strays)
    OBVIOUS
  <2> HIDE DEF new
  <2> QED BY <1>1, <2>1, <2>2, <2>3 DEF ToolsAreOfScans
<1>5. CASE ToolCreates \/ UNCHANGED vars
  <2>1. UNCHANGED <<runs, strays, pc>> /\ tools' \subseteq tools
    BY <1>5 DEF ToolCreates, vars, late, scanning
  <2> QED BY <2>1 DEF ToolsAreOfScans
<1>6. CASE ResetAll \/ HandleListing \/ HandleRemoveDomain \/ HandleTarget \/ OpenDomains
             \/ NextLine("line", "commands", "outputs") \/ Collect \/ RemoveOutputs
             \/ OpenResolve \/ HasResolvers \/ HasSubdomains \/ NeedsResolvers \/ NeedsSubdomains
             \/ OpenNames \/ NextLine("names", "name", "exited")
             \/ Resolve \/ ResolveFindsNothing \/ ResolveFirst
  <2>1. UNCHANGED <<runs, tools, strays>>
    BY <1>6 DEF fixed, late, scanning, ResetAll, HandleListing, HandleRemoveDomain, HandleTarget,
                OpenDomains, NextLine, Collect, RemoveOutputs, OpenResolve, HasResolvers,
                HasSubdomains, NeedsResolvers, NeedsSubdomains, Ask, Has, OpenNames, Resolve,
                ResolveFindsNothing, ResolveFirst
  <2>2. pc' # "pool"
    BY <1>6 DEF ResetAll, HandleListing, HandleRemoveDomain, HandleTarget, OpenDomains, NextLine,
                Collect, RemoveOutputs, OpenResolve, HasResolvers, HasSubdomains, NeedsResolvers,
                NeedsSubdomains, Ask, Has, OpenNames, Resolve, ResolveFindsNothing, ResolveFirst,
                Goto, ExitWith
  <2> QED BY <2>1, <2>2 DEF ToolsAreOfScans
<1> QED BY <1>2, <1>3, <1>4, <1>5, <1>6 DEF Next

LEMMA ListInvKept ==
    ASSUME Types, StraysAre, ListInv, [Next]_vars
    PROVE  ListInv'
<1>1. NothingYet' /\ ListIsPlain'
  BY NothingYetKept, PlainKept DEF ListInv
<1>2. Looping'
  <2>1. CASE UNCHANGED vars
    BY <2>1 DEF vars, files, reading, scanning, late, ListInv, Looping, InTheList, TakenFails,
                ScannedSoFar, Regular, NoneTaken, FirstTool, Missing
  <2>2. CASE OpenDomains \/ NextLine("line", "commands", "outputs") \/ ReadCommands \/ RunPool
             \/ ToolCreates \/ Collect
    BY <2>2, OpenDomainsLoops, NextLineLoops, ReadCommandsLoops, RunPoolLoops, ToolCreatesLoops,
       CollectLoops
  <2>3. CASE RemoveOutputs
    <3>1. /\ pc = "outputs" /\ pc' \in {"resolve", "exited"}
          /\ UNCHANGED <<commands, opts, domains, strays, scanned, intruded>>
      BY <2>3 DEF RemoveOutputs, fixed, late, scanning, Goto, ExitWith
    <3> QED BY <3>1 DEF ListInv, Looping, InTheList, TakenFails, ScannedSoFar, Regular, During
  <2>4. CASE HandleTarget
    <3>1. ~Regular'
      BY <2>4 DEF HandleTarget, fixed, Regular
    <3> QED BY <3>1 DEF Looping, InTheList, TakenFails, ScannedSoFar
  <2>5. CASE Start \/ ResetAll \/ HandleListing \/ HandleRemoveDomain
             \/ OpenResolve \/ HasResolvers \/ HasSubdomains \/ NeedsResolvers \/ NeedsSubdomains
             \/ OpenNames \/ NextLine("names", "name", "exited")
             \/ Resolve \/ ResolveFindsNothing \/ ResolveFirst
    <3>1. pc' \in {"exited", "reset", "list", "remove", "scan", "resolvers", "subdomains", "opened",
                   "names", "name"}
      BY <2>5 DEF Start, ResetAll, HandleListing, HandleRemoveDomain, NextLine, OpenResolve,
                  HasResolvers, HasSubdomains, NeedsResolvers, NeedsSubdomains, Ask, Has, OpenNames,
                  Resolve, ResolveFindsNothing, ResolveFirst, Goto, ExitWith
    <3> QED BY <3>1 DEF Looping, InTheList, TakenFails, ScannedSoFar, During
  <2> QED BY <2>1, <2>2, <2>3, <2>4, <2>5 DEF Next
<1>3. ToolsAreOfScans'
  BY ToolsKept DEF ListInv
<1> QED BY <1>1, <1>2, <1>3 DEF ListInv, Looping

(***************************************************************************)
(* A run without a target that ends with success has scanned every domain  *)
(* of the list, in order, if no read of it ended inside of a line, or a     *)
(* tool of an earlier scan has created the output of a line of the list.   *)
(***************************************************************************)
THEOREM SuccessMeansScannedCorrect == Spec => []SuccessMeansScanned
<1>1. Init => StraysAre /\ ListInv
  <2> SUFFICES ASSUME Init PROVE StraysAre /\ ListInv
    OBVIOUS
  <2>1. domains \in Seq(Names)
    BY OutputsAssumption DEF Init, Names
  <2> QED BY <2>1, EmptySeq DEF Init, StraysAre, ListInv, NothingYet, InTheList, TakenFails, ScannedSoFar,
                    ListIsPlain, Before, During, ToolsAreOfScans
<1>2. Types /\ StraysAre /\ ListInv /\ [Next]_vars => Types' /\ StraysAre' /\ ListInv'
  BY TypesKept, StraysKept, ListInvKept
<1>3. ListInv => SuccessMeansScanned
  BY DEF ListInv, ScannedSoFar, Regular, SuccessMeansScanned, Plain
<1> QED BY <1>1, <1>2, <1>3, InitTypes, PTL DEF Spec

=============================================================================
