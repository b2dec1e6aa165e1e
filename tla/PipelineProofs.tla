--------------------------- MODULE PipelineProofs ---------------------------
(***************************************************************************)
(* For every set of trees, pipe size and number of faults: which ends of   *)
(* pipes a process holds, which children it has, in which order the nodes  *)
(* are executed, and what __exec returns for them.  The proofs first       *)
(* settle what the tree looks like from inside: what lies below a node,    *)
(* and which process executes it.                                          *)
(***************************************************************************)
EXTENDS Pipeline, OrderingProofs

----------------------------------------------------------------------------
(* The tree. *)

(***************************************************************************)
(* What the parser has made, as the steps below need it.                   *)
(***************************************************************************)
LEMMA TreeFacts ==
    ASSUME tree \in Trees, NEW n \in Nodes
    PROVE  /\ Left(n) \in {0} \cup Nodes /\ Right(n) \in {0} \cup Nodes
           /\ Left(n) # 0 => Left(n) > n /\ Kind(Left(n)) # "none"
           /\ Right(n) # 0 => /\ Right(n) > n /\ Kind(Right(n)) # "none"
                              /\ Right(n) # Left(n)
           /\ Kind(n) \in {"cmd", "sub", "pipe", "and", "or", "none"}
           /\ Kind(n) \in {"and", "or", "pipe"} => Left(n) # 0 /\ Right(n) # 0
           /\ Kind(n) = "sub" => Left(n) # 0 /\ Right(n) = 0
           /\ Kind(n) \in {"cmd", "none"} => Left(n) = 0 /\ Right(n) = 0
           /\ Kind(n) = "pipe" => /\ Kind(Left(n)) \in {"pipe", "cmd", "sub"}
                                  /\ Kind(Right(n)) \in {"cmd", "sub"}
<1>1. /\ tree.left \in [Nodes -> {0} \cup Nodes] /\ tree.right \in [Nodes -> {0} \cup Nodes]
      /\ tree.kind \in [Nodes -> {"cmd", "sub", "pipe", "and", "or", "none"}]
  BY PipelineAssumption
<1>2. Nodes \subseteq Nat \ {0}
  BY PipelineAssumption DEF Nodes
<1>3. LET l == tree.left[n]
          r == tree.right[n]
      IN /\ l # 0 => l > n /\ tree.kind[l] # "none"
         /\ r # 0 => r > n /\ tree.kind[r] # "none" /\ r # l
         /\ tree.kind[n] \in {"and", "or", "pipe"} => l # 0 /\ r # 0
         /\ tree.kind[n] = "sub" => l # 0 /\ r = 0
         /\ tree.kind[n] \in {"cmd", "none"} => l = 0 /\ r = 0
         /\ tree.kind[n] = "pipe" => /\ tree.kind[l] \in {"pipe", "cmd", "sub"}
                                     /\ tree.kind[r] \in {"cmd", "sub"}
  BY TreesAssumption
<1> QED BY <1>1, <1>2, <1>3 DEF Left, Right, Kind

(***************************************************************************)
(* A child has one parent, with a smaller number; every node but the root  *)
(* is a child.                                                             *)
(***************************************************************************)
LEMMA ParentOfChild ==
    ASSUME tree \in Trees, NEW u \in Nodes, NEW c \in {Left(u), Right(u)}, c # 0
    PROVE  Up(c) = u /\ c \in Nodes
<1>1. c \in Nodes
  BY TreeFacts
<1>2. \A v \in Nodes : c \in {Left(v), Right(v)} => v = u
  BY TreesAssumption DEF Left, Right
<1> QED BY <1>1, <1>2 DEF Up

LEMMA UpFacts ==
    ASSUME tree \in Trees, NEW n \in Nodes
    PROVE  /\ Up(n) \in {0} \cup Nodes
           /\ Up(n) # 0 => /\ n \in {Left(Up(n)), Right(Up(n))}
                           /\ Up(n) < n /\ Kind(n) # "none"
                           /\ Kind(Up(n)) \in {"sub", "pipe", "and", "or"}
           /\ Up(n) = 0 => n = Root \/ Kind(n) = "none"
<1>0. 0 \notin Nodes /\ Nodes \subseteq Nat
  BY PipelineAssumption DEF Nodes
<1>1. CASE \E u \in Nodes : n \in {Left(u), Right(u)}
  <2>1. Up(n) \in Nodes /\ n \in {Left(Up(n)), Right(Up(n))}
    BY <1>1 DEF Up
  <2> DEFINE u == Up(n)
  <2> HIDE DEF u
  <2>2. u < n /\ Kind(n) # "none" /\ Kind(u) \in {"sub", "pipe", "and", "or"}
    BY <1>0, <2>1, TreeFacts DEF u
  <2> QED BY <1>0, <2>1, <2>2 DEF u
<1>2. CASE ~(\E u \in Nodes : n \in {Left(u), Right(u)})
  <2>1. Up(n) = 0
    BY <1>2 DEF Up
  <2>2. n = Root \/ Kind(n) = "none"
    BY <1>2, <1>0, TreesAssumption DEF Root, Kind, Left, Right
  <2> QED BY <2>1, <2>2
<1> QED BY <1>1, <1>2

LEMMA UpSmaller ==
    ASSUME tree \in Trees, NEW n \in Nodes, Up(n) \in Nodes
    PROVE  Up(n) < n
<1>1. Up(n) # 0
  BY PipelineAssumption DEF Nodes
<1> QED BY <1>1, UpFacts

(***************************************************************************)
(* The function `below` exists: it can be had for the nodes from k on,     *)
(* with k going down to the root.                                          *)
(***************************************************************************)
BelowFrom(k, g) ==
    \A m \in k..MaxNodes :
        g[m] = {m} \cup (IF Left(m) = 0 THEN {} ELSE g[Left(m)])
                   \cup (IF Right(m) = 0 THEN {} ELSE g[Right(m)])

LEMMA BelowExists ==
    ASSUME tree \in Trees
    PROVE  \E g : BelowFrom(1, g)
<1> DEFINE S == {k \in 1..(MaxNodes + 1) : \E g : BelowFrom(k, g)}
<1>0. MaxNodes \in Nat \ {0} /\ Nodes = 1..MaxNodes
  BY PipelineAssumption DEF Nodes
<1>1. MaxNodes + 1 \in S
  <2>1. BelowFrom(MaxNodes + 1, [x \in {} |-> {}])
    BY <1>0 DEF BelowFrom
  <2> QED BY <1>0, <2>1
<1>2. PICK k \in S : \A j \in S : k <= j
  <2>1. S \in SUBSET Nat /\ S # {}
    <3>1. S \subseteq 1..(MaxNodes + 1) /\ S # {}
      BY <1>1
    <3> HIDE DEF S
    <3>2. 1..(MaxNodes + 1) \subseteq Nat
      BY <1>0
    <3> QED BY <3>1, <3>2
  <2> HIDE DEF S
  <2> QED BY <2>1, LeastNumber
<1>3. CASE k = 1
  BY <1>2, <1>3
<1>4. ASSUME k # 1
      PROVE  FALSE
  <2>1. PICK g : BelowFrom(k, g)
    BY <1>2
  <2> DEFINE i == k - 1
             l == IF Left(i) = 0 THEN {} ELSE g[Left(i)]
             r == IF Right(i) = 0 THEN {} ELSE g[Right(i)]
             h == [m \in i..MaxNodes |-> IF m = i THEN {i} \cup l \cup r ELSE g[m]]
  <2>2. i \in Nodes /\ i \in Nat /\ k = i + 1 /\ k \in 1..(MaxNodes + 1)
    BY <1>0, <1>2, <1>4
  <2>3. \A m \in i..MaxNodes :
          /\ m \in Nodes
          /\ Left(m) # 0 => Left(m) \in k..MaxNodes
          /\ Right(m) # 0 => Right(m) \in k..MaxNodes
    BY <1>0, <2>2, TreeFacts
  <2>4. h[i] = {i} \cup (IF Left(i) = 0 THEN {} ELSE h[Left(i)])
                   \cup (IF Right(i) = 0 THEN {} ELSE h[Right(i)])
    <3>1. i \in i..MaxNodes /\ \A m \in k..MaxNodes : h[m] = g[m]
      BY <1>0, <2>2
    <3> QED BY <2>3, <3>1
  <2>5. ASSUME NEW m \in k..MaxNodes
        PROVE  h[m] = {m} \cup (IF Left(m) = 0 THEN {} ELSE h[Left(m)])
                          \cup (IF Right(m) = 0 THEN {} ELSE h[Right(m)])
    <3>1. \A j \in k..MaxNodes : h[j] = g[j]
      BY <1>0, <2>2
    <3>2. g[m] = {m} \cup (IF Left(m) = 0 THEN {} ELSE g[Left(m)])
                     \cup (IF Right(m) = 0 THEN {} ELSE g[Right(m)])
      BY <2>1 DEF BelowFrom
    <3>3. m \in i..MaxNodes
      BY <1>0, <2>2
    <3> HIDE DEF h
    <3> QED BY <2>3, <3>1, <3>2, <3>3
  <2>6. \A m \in i..MaxNodes : m = i \/ m \in k..MaxNodes
    BY <1>0, <2>2
  <2> HIDE DEF h
  <2>7. BelowFrom(i, h)
    BY <2>4, <2>5, <2>6 DEF BelowFrom
  <2>8. i \in S
    BY <1>0, <2>2, <2>7
  <2> QED BY <1>2, <2>2, <2>8
<1> QED BY <1>3, <1>4

(***************************************************************************)
(* Below a node are the node and what is below its children.               *)
(***************************************************************************)
LEMMA BelowIs ==
    ASSUME tree \in Trees
    PROVE  /\ Below(0) = {}
           /\ \A n \in Nodes : Below(n) = {n} \cup Below(Left(n)) \cup Below(Right(n))
<1>1. PICK g : BelowFrom(1, g)
  BY BelowExists
<1>2. MaxNodes \in Nat \ {0} /\ Nodes = 1..MaxNodes /\ 0 \notin Nodes
  BY PipelineAssumption DEF Nodes
<1> DEFINE f == [m \in {0} \cup Nodes |-> IF m = 0 THEN {} ELSE g[m]]
<1>3. \A m \in Nodes : Left(m) \in {0} \cup Nodes /\ Right(m) \in {0} \cup Nodes
  BY TreeFacts
<1>4. ASSUME NEW m \in {0} \cup Nodes
      PROVE  f[m] = IF m = 0 THEN {} ELSE {m} \cup f[Left(m)] \cup f[Right(m)]
  <2>1. CASE m = 0
    BY <2>1
  <2>2. CASE m # 0
    <3>1. m \in Nodes /\ m \in 1..MaxNodes /\ f[m] = g[m]
      BY <1>2, <2>2
    <3>2. /\ f[Left(m)] = IF Left(m) = 0 THEN {} ELSE g[Left(m)]
          /\ f[Right(m)] = IF Right(m) = 0 THEN {} ELSE g[Right(m)]
      BY <1>3, <3>1
    <3>3. g[m] = {m} \cup (IF Left(m) = 0 THEN {} ELSE g[Left(m)])
                     \cup (IF Right(m) = 0 THEN {} ELSE g[Right(m)])
      BY <1>1, <3>1 DEF BelowFrom
    <3> HIDE DEF f
    <3> QED BY <2>2, <3>1, <3>2, <3>3
  <2> QED BY <2>1, <2>2
<1>5. f = [m \in {0} \cup Nodes |->
            IF m = 0 THEN {} ELSE {m} \cup f[Left(m)] \cup f[Right(m)]]
  <2> DEFINE F == [m \in {0} \cup Nodes |->
                    IF m = 0 THEN {} ELSE {m} \cup f[Left(m)] \cup f[Right(m)]]
  <2>1. DOMAIN f = {0} \cup Nodes /\ f = [m \in {0} \cup Nodes |-> f[m]]
    OBVIOUS
  <2> HIDE DEF f
  <2> QED BY <1>4, <2>1
<1> HIDE DEF f
<1>6. below = [m \in {0} \cup Nodes |->
            IF m = 0 THEN {} ELSE {m} \cup below[Left(m)] \cup below[Right(m)]]
  BY <1>5 DEF below
<1>7. ASSUME NEW m \in {0} \cup Nodes
      PROVE  below[m] = IF m = 0 THEN {} ELSE {m} \cup below[Left(m)] \cup below[Right(m)]
  BY <1>6
<1> QED BY <1>2, <1>7 DEF Below

(***************************************************************************)
(* Nodes below a node: they have greater numbers, and with a node all that *)
(* is below it is there too.                                               *)
(***************************************************************************)
LEMMA BelowFacts ==
    ASSUME tree \in Trees, NEW n \in Nodes
    PROVE  /\ n \in Below(n)
           /\ \A m \in Below(n) : m \in Nodes /\ n <= m
           /\ \A m \in Below(n) : m # n => m \in Below(Left(n)) \/ m \in Below(Right(n))
           /\ Left(n) # 0 => Below(Left(n)) \subseteq Below(n)
           /\ Right(n) # 0 => Below(Right(n)) \subseteq Below(n)
<1>0. Nodes = 1..MaxNodes /\ MaxNodes \in Nat \ {0}
  BY PipelineAssumption DEF Nodes
<1>1. \A k \in Nodes : Below(k) = {k} \cup Below(Left(k)) \cup Below(Right(k))
  BY BelowIs
<1>2. Below(0) = {}
  BY BelowIs
<1>3. \A m \in Below(n) : m \in Nodes /\ n <= m
  <2> DEFINE Bad == {d \in Nat : \E k \in Nodes : d = MaxNodes - k /\
                        ~ \A m \in Below(k) : m \in Nodes /\ k <= m}
  <2>1. SUFFICES Bad = {}
    <3>1. MaxNodes - n \in Nat
      BY <1>0
    <3> QED BY <2>1, <3>1
  <2>2. SUFFICES ASSUME Bad # {} PROVE FALSE
    OBVIOUS
  <2>3. PICK d \in Bad : \A e \in Bad : d <= e
    <3>1. Bad \in SUBSET Nat
      OBVIOUS
    <3> HIDE DEF Bad
    <3> QED BY <2>2, <3>1, LeastNumber
  <2>4. PICK k \in Nodes : d = MaxNodes - k /\ ~ \A m \in Below(k) : m \in Nodes /\ k <= m
    BY <2>3
  <2>5. ASSUME NEW c \in {Left(k), Right(k)}, NEW m \in Below(c)
        PROVE  m \in Nodes /\ k <= m
    <3>1. CASE c = 0
      BY <1>2, <2>5, <3>1
    <3>2. CASE c # 0
      <4>1. c \in Nodes /\ c > k
        BY <2>4, <3>2, TreeFacts
      <4>2. MaxNodes - c \in Nat /\ MaxNodes - c < d
        BY <1>0, <2>4, <4>1
      <4>3. MaxNodes - c \notin Bad
        BY <2>3, <4>2
      <4>4. \A j \in Below(c) : j \in Nodes /\ c <= j
        BY <4>1, <4>2, <4>3
      <4> QED BY <1>0, <2>5, <4>1, <4>4
    <3> QED BY <3>1, <3>2
  <2>6. \A m \in Below(k) : m \in Nodes /\ k <= m
    <3>1. ASSUME NEW m \in Below(k)
          PROVE  m = k \/ m \in Below(Left(k)) \/ m \in Below(Right(k))
      BY <1>1, <2>4
    <3>2. k <= k
      BY <1>0, <2>4
    <3> QED BY <2>4, <2>5, <3>1, <3>2
  <2> QED BY <2>4, <2>6
<1> QED BY <1>1, <1>3

LEMMA UpBelow ==
    ASSUME tree \in Trees, NEW n \in Nodes, NEW m \in Below(n), m # n
    PROVE  Up(m) \in Below(n) /\ Up(m) \in Nodes
<1>0. Nodes = 1..MaxNodes /\ MaxNodes \in Nat \ {0}
  BY PipelineAssumption DEF Nodes
<1> DEFINE Bad == {d \in Nat : \E k \in Nodes : d = MaxNodes - k /\
                        \E j \in Below(k) : j # k /\ Up(j) \notin Below(k)}
<1>1. SUFFICES Bad = {}
  <2>1. MaxNodes - n \in Nat /\ m \in Nodes
    BY <1>0, BelowFacts
  <2>2. Up(m) \in Below(n)
    BY <1>1, <2>1
  <2> QED BY <2>2, BelowFacts
<1>2. SUFFICES ASSUME Bad # {} PROVE FALSE
  OBVIOUS
<1>3. PICK d \in Bad : \A e \in Bad : d <= e
  <2>1. Bad \in SUBSET Nat
    OBVIOUS
  <2> HIDE DEF Bad
  <2> QED BY <1>2, <2>1, LeastNumber
<1>4. PICK k \in Nodes : d = MaxNodes - k /\ \E j \in Below(k) : j # k /\ Up(j) \notin Below(k)
  BY <1>3
<1>45. PICK j \in Below(k) : j # k /\ Up(j) \notin Below(k)
  BY <1>4
<1>5. PICK c \in {Left(k), Right(k)} : c # 0 /\ j \in Below(c)
  BY <1>4, <1>45, BelowFacts, BelowIs
<1>6. c \in Nodes /\ c > k /\ Up(c) = k /\ Below(c) \subseteq Below(k)
  BY <1>4, <1>5, TreeFacts, ParentOfChild, BelowFacts
<1>7. CASE j = c
  BY <1>4, <1>45, <1>6, <1>7, BelowFacts
<1>8. CASE j # c
  <2>1. MaxNodes - c \in Nat /\ MaxNodes - c < d
    BY <1>0, <1>4, <1>6
  <2>2. MaxNodes - c \notin Bad
    BY <1>3, <2>1
  <2>3. Up(j) \in Below(c)
    BY <1>5, <1>6, <1>8, <2>1, <2>2
  <2> QED BY <1>45, <1>6, <2>3
<1> QED BY <1>7, <1>8

LEMMA BelowNests ==
    ASSUME tree \in Trees, NEW n \in Nodes, NEW m \in Below(n)
    PROVE  Below(m) \subseteq Below(n)
<1>0. Nodes = 1..MaxNodes /\ MaxNodes \in Nat \ {0}
  BY PipelineAssumption DEF Nodes
<1> DEFINE Bad == {d \in Nat : \E k \in Nodes : d = MaxNodes - k /\
                        ~ \A j \in Below(k) : Below(j) \subseteq Below(k)}
<1>1. SUFFICES Bad = {}
  <2>1. MaxNodes - n \in Nat
    BY <1>0
  <2> QED BY <1>1, <2>1
<1>2. SUFFICES ASSUME Bad # {} PROVE FALSE
  OBVIOUS
<1>3. PICK d \in Bad : \A e \in Bad : d <= e
  <2>1. Bad \in SUBSET Nat
    OBVIOUS
  <2> HIDE DEF Bad
  <2> QED BY <1>2, <2>1, LeastNumber
<1>4. PICK k \in Nodes : d = MaxNodes - k /\ ~ \A j \in Below(k) : Below(j) \subseteq Below(k)
  BY <1>3
<1>5. PICK j \in Below(k) : ~(Below(j) \subseteq Below(k))
  BY <1>4
<1>6. j # k
  BY <1>5
<1>7. PICK c \in {Left(k), Right(k)} : c # 0 /\ j \in Below(c)
  BY <1>4, <1>6, BelowFacts, BelowIs
<1>8. c \in Nodes /\ c > k /\ Below(c) \subseteq Below(k)
  BY <1>4, <1>7, TreeFacts, ParentOfChild, BelowFacts
<1>9. MaxNodes - c \in Nat /\ MaxNodes - c < d
  BY <1>0, <1>4, <1>8
<1>10. MaxNodes - c \notin Bad
  BY <1>3, <1>9
<1>11. Below(j) \subseteq Below(c)
  BY <1>7, <1>8, <1>9, <1>10
<1> QED BY <1>5, <1>8, <1>11

(***************************************************************************)
(* The two sides of a node have nothing in common.                         *)
(***************************************************************************)
LEMMA SidesApart ==
    ASSUME tree \in Trees, NEW u \in Nodes, Left(u) # 0, Right(u) # 0
    PROVE  Below(Left(u)) \cap Below(Right(u)) = {}
<1> DEFINE l == Left(u)
           r == Right(u)
           Both == Below(l) \cap Below(r)
<1>1. Nodes \subseteq Nat /\ 0 \notin Nodes
  BY PipelineAssumption DEF Nodes
<1>2. l \in Nodes /\ r \in Nodes /\ l # r /\ l > u /\ r > u /\ Up(l) = u /\ Up(r) = u
  BY TreeFacts, ParentOfChild
<1>3. Both \in SUBSET Nat
  BY <1>1, <1>2, BelowFacts
<1>4. SUFFICES ASSUME Both # {} PROVE FALSE
  OBVIOUS
<1>5. PICK m \in Both : \A j \in Both : m <= j
  <2> HIDE DEF Both
  <2> QED BY <1>3, <1>4, LeastNumber
<1> HIDE DEF l, r
<1>6. m # l
  <2>1. ASSUME m = l
        PROVE  FALSE
    <3>1. l \in Below(r)
      BY <1>5, <2>1
    <3>2. Up(l) \in Below(r)
      BY <1>2, <3>1, UpBelow
    <3> QED BY <1>1, <1>2, <3>2, BelowFacts
  <2> QED BY <2>1
<1>7. m # r
  <2>1. ASSUME m = r
        PROVE  FALSE
    <3>1. r \in Below(l)
      BY <1>5, <2>1
    <3>2. Up(r) \in Below(l)
      BY <1>2, <3>1, UpBelow
    <3> QED BY <1>1, <1>2, <3>2, BelowFacts
  <2> QED BY <2>1
<1>8. Up(m) \in Both /\ m \in Nodes /\ Up(m) \in Nodes
  BY <1>2, <1>5, <1>6, <1>7, UpBelow, BelowFacts
<1> HIDE DEF Both
<1>9. Up(m) < m
  BY <1>8, UpSmaller
<1>10. Up(m) \in Nat /\ m \in Nat /\ m <= Up(m)
  BY <1>1, <1>5, <1>8
<1> QED BY <1>9, <1>10

(***************************************************************************)
(* The process that executes a node: the subshell around it, if any.       *)
(***************************************************************************)
level[n \in Nodes] ==
    IF Up(n) = 0 THEN Shell
    ELSE IF Kind(Up(n)) = "sub" THEN Up(n)
    ELSE level[Up(n)]

LevelUpTo(k, g) ==
    \A n \in 1..k :
        g[n] = IF Up(n) = 0 THEN Shell
               ELSE IF Kind(Up(n)) = "sub" THEN Up(n)
               ELSE g[Up(n)]

LEMMA LevelExists ==
    ASSUME tree \in Trees
    PROVE  \E g : LevelUpTo(MaxNodes, g)
<1> DEFINE S == {d \in 0..MaxNodes : \E g : LevelUpTo(MaxNodes - d, g)}
<1>0. MaxNodes \in Nat \ {0} /\ Nodes = 1..MaxNodes
  BY PipelineAssumption DEF Nodes
<1>1. S \in SUBSET Nat /\ S # {}
  <2>1. LevelUpTo(MaxNodes - MaxNodes, [x \in {} |-> 0])
    BY <1>0 DEF LevelUpTo
  <2>2. MaxNodes \in S
    BY <1>0, <2>1
  <2>3. S \subseteq 0..MaxNodes
    OBVIOUS
  <2> HIDE DEF S
  <2>4. 0..MaxNodes \subseteq Nat
    BY <1>0
  <2> QED BY <2>2, <2>3, <2>4
<1>2. PICK d \in S : \A e \in S : d <= e
  <2> HIDE DEF S
  <2> QED BY <1>1, LeastNumber
<1>3. CASE d = 0
  <2>1. PICK g : LevelUpTo(MaxNodes - 0, g)
    BY <1>2, <1>3
  <2> QED BY <1>0, <2>1
<1>4. ASSUME d # 0
      PROVE  FALSE
  <2> DEFINE k == MaxNodes - d
             i == k + 1
  <2>1. PICK g : LevelUpTo(k, g)
    BY <1>2
  <2>2. d \in 1..MaxNodes /\ d - 1 \in 0..MaxNodes /\ MaxNodes - (d - 1) = i
        /\ i \in Nodes /\ k \in Nat /\ i \in Nat /\ d \in Nat
    BY <1>0, <1>2, <1>4
  <2> DEFINE h == [n \in 1..i |->
                    IF n # i THEN g[n]
                    ELSE IF Up(n) = 0 THEN Shell
                    ELSE IF Kind(Up(n)) = "sub" THEN Up(n)
                    ELSE g[Up(n)]]
  <2> HIDE DEF k
  <2>3. \A n \in 1..i : n \in Nodes /\ Up(n) \in 0..k
    BY <1>0, <2>2, UpFacts
  <2>4. ASSUME NEW n \in 1..i
        PROVE  h[n] = IF Up(n) = 0 THEN Shell
                      ELSE IF Kind(Up(n)) = "sub" THEN Up(n)
                      ELSE h[Up(n)]
    <3>1. \A j \in 1..k : h[j] = g[j]
      BY <2>2
    <3>2. Up(n) \in 1..k \/ Up(n) = 0
      BY <2>2, <2>3
    <3>3. CASE n = i
      <4>1. h[n] = IF Up(n) = 0 THEN Shell
                   ELSE IF Kind(Up(n)) = "sub" THEN Up(n)
                   ELSE g[Up(n)]
        BY <3>3
      <4> HIDE DEF h
      <4> QED BY <3>1, <3>2, <4>1
    <3>4. CASE n # i
      <4>1. h[n] = g[n] /\ n \in 1..k
        BY <2>2, <3>4
      <4>2. g[n] = IF Up(n) = 0 THEN Shell
                   ELSE IF Kind(Up(n)) = "sub" THEN Up(n)
                   ELSE g[Up(n)]
        BY <2>1, <4>1 DEF LevelUpTo
      <4> HIDE DEF h
      <4> QED BY <3>1, <3>2, <4>1, <4>2
    <3> QED BY <3>3, <3>4
  <2> HIDE DEF h
  <2>5. LevelUpTo(i, h)
    BY <2>4 DEF LevelUpTo
  <2>6. LevelUpTo(MaxNodes - (d - 1), h)
    BY <2>2, <2>5
  <2>7. d - 1 \in S
    BY <2>2, <2>6
  <2> QED BY <1>2, <2>2, <2>7
<1> QED BY <1>3, <1>4

LEMMA LevelIs ==
    ASSUME tree \in Trees, NEW n \in Nodes
    PROVE  level[n] = IF Up(n) = 0 THEN Shell
                      ELSE IF Kind(Up(n)) = "sub" THEN Up(n)
                      ELSE level[Up(n)]
<1>1. PICK g : LevelUpTo(MaxNodes, g)
  BY LevelExists
<1>2. Nodes = 1..MaxNodes
  BY DEF Nodes
<1> DEFINE f == [m \in Nodes |-> g[m]]
<1>3. ASSUME NEW m \in Nodes
      PROVE  f[m] = IF Up(m) = 0 THEN Shell
                    ELSE IF Kind(Up(m)) = "sub" THEN Up(m)
                    ELSE f[Up(m)]
  <2>1. \A j \in Nodes : f[j] = g[j]
    OBVIOUS
  <2>2. g[m] = IF Up(m) = 0 THEN Shell
               ELSE IF Kind(Up(m)) = "sub" THEN Up(m)
               ELSE g[Up(m)]
    BY <1>1, <1>2 DEF LevelUpTo
  <2>3. Up(m) \in {0} \cup Nodes
    BY UpFacts
  <2> HIDE DEF f
  <2> QED BY <2>1, <2>2, <2>3
<1>4. f = [m \in Nodes |-> IF Up(m) = 0 THEN Shell
                           ELSE IF Kind(Up(m)) = "sub" THEN Up(m)
                           ELSE f[Up(m)]]
  <2>1. f = [m \in Nodes |-> f[m]]
    OBVIOUS
  <2> HIDE DEF f
  <2> QED BY <1>3, <2>1
<1> HIDE DEF f
<1>5. level = [m \in Nodes |-> IF Up(m) = 0 THEN Shell
                               ELSE IF Kind(Up(m)) = "sub" THEN Up(m)
                               ELSE level[Up(m)]]
  BY <1>4 DEF level
<1> QED BY <1>5

(***************************************************************************)
(* The process that executes a node is a subshell around it, or the shell. *)
(***************************************************************************)
LEMMA LevelFacts ==
    ASSUME tree \in Trees, NEW n \in Nodes
    PROVE  /\ level[n] \in Procs /\ level[n] < n
           /\ level[n] # Shell => /\ level[n] \in Nodes /\ Kind(level[n]) = "sub"
                                  /\ n \in Below(Left(level[n]))
<1> DEFINE Good(m) == /\ level[m] \in Procs /\ level[m] < m
                      /\ level[m] # Shell =>
                            /\ level[m] \in Nodes /\ Kind(level[m]) = "sub"
                            /\ m \in Below(Left(level[m]))
           Bad == {m \in Nodes : ~Good(m)}
<1>1. /\ Nodes \in SUBSET Nat /\ 0 \notin Nodes /\ Procs = {0} \cup Nodes /\ Shell = 0
      /\ \A p \in Procs : p \in Nat
  BY PipelineAssumption DEF Nodes, Procs, Shell
<1>2. SUFFICES ASSUME Bad # {} PROVE FALSE
  OBVIOUS
<1>3. PICK m \in Bad : \A j \in Bad : m <= j
  <2>1. Bad \in SUBSET Nat
    BY <1>1
  <2> HIDE DEF Bad
  <2> QED BY <1>2, <2>1, LeastNumber
<1> DEFINE u == Up(m)
<1>4. m \in Nodes /\ ~Good(m)
  BY <1>3
<1> HIDE DEF Bad
<1>5. CASE u = 0
  <2>1. level[m] = Shell
    BY <1>4, <1>5, LevelIs
  <2> QED BY <1>1, <1>4, <2>1
<1>6. CASE u # 0
  <2>1. u \in Nodes /\ u < m /\ m \in {Left(u), Right(u)} /\ m # 0
    BY <1>1, <1>4, <1>6, UpFacts
  <2> HIDE DEF u
  <2>2. CASE Kind(u) = "sub"
    <3>1. level[m] = u
      BY <1>4, <1>6, <2>2, LevelIs DEF u
    <3>2. m = Left(u)
      BY <2>1, <2>2, TreeFacts
    <3>3. m \in Below(Left(u))
      BY <1>4, <3>2, BelowFacts
    <3> QED BY <1>1, <1>4, <2>1, <2>2, <3>1, <3>3
  <2>3. CASE Kind(u) # "sub"
    <3>1. level[m] = level[u]
      BY <1>4, <1>6, <2>3, LevelIs DEF u
    <3>2. Good(u)
      <4>1. u \notin Bad
        BY <1>1, <1>3, <1>4, <2>1
      <4> QED BY <2>1, <4>1 DEF Bad
    <3>3. m \in Below(u)
      BY <2>1, BelowFacts, ParentOfChild
    <3>4. ASSUME level[u] # Shell
          PROVE  m \in Below(Left(level[u]))
      <4>1. Left(level[u]) \in Nodes
        BY <3>2, <3>4, TreeFacts
      <4> QED BY <3>2, <3>3, <3>4, <4>1, BelowNests
    <3>5. level[u] < m
      <4>1. level[u] \in Nat /\ u \in Nat /\ m \in Nat
        BY <1>1, <1>4, <2>1, <3>2
      <4> QED BY <2>1, <3>2, <4>1
    <3>6. Good(m)
      BY <3>1, <3>2, <3>4, <3>5
    <3> QED BY <1>4, <3>6
  <2> QED BY <2>2, <2>3
<1> QED BY <1>5, <1>6

(***************************************************************************)
(* What lies below a node is executed by the process of the node, or by    *)
(* one below it.                                                           *)
(***************************************************************************)
LEMMA LevelBelow ==
    ASSUME tree \in Trees, NEW n \in Nodes, NEW m \in Below(n)
    PROVE  level[m] = level[n] \/ level[m] \in Below(n)
<1> DEFINE Bad == {j \in Nodes : /\ j \in Below(n)
                                 /\ level[j] # level[n] /\ level[j] \notin Below(n)}
<1>1. Nodes \in SUBSET Nat /\ 0 \notin Nodes
  BY PipelineAssumption DEF Nodes
<1>2. SUFFICES ASSUME Bad # {} PROVE FALSE
  BY BelowFacts
<1>3. PICK j \in Bad : \A i \in Bad : j <= i
  <2>1. Bad \in SUBSET Nat
    BY <1>1
  <2> HIDE DEF Bad
  <2> QED BY <1>2, <2>1, LeastNumber
<1>4. j \in Nodes /\ j \in Below(n) /\ j # n /\ level[j] # level[n] /\ level[j] \notin Below(n)
  BY <1>3
<1>5. Up(j) \in Below(n) /\ Up(j) \in Nodes /\ Up(j) < j
  <2>1. Up(j) \in Below(n) /\ Up(j) \in Nodes
    BY <1>4, UpBelow
  <2> QED BY <1>4, <2>1, UpSmaller
<1>6. Up(j) \notin Bad
  <2>1. Up(j) \in Nat /\ j \in Nat
    BY <1>1, <1>4, <1>5
  <2> HIDE DEF Bad
  <2> QED BY <1>3, <1>5, <2>1
<1>7. level[j] = Up(j) \/ level[j] = level[Up(j)]
  BY <1>1, <1>4, <1>5, LevelIs
<1> QED BY <1>4, <1>5, <1>6, <1>7

(***************************************************************************)
(* A child is executed by the process of its parent, unless this is a      *)
(* subshell.                                                               *)
(***************************************************************************)
LEMMA LevelOfChild ==
    ASSUME tree \in Trees, NEW u \in Nodes, NEW c \in {Left(u), Right(u)}, c # 0
    PROVE  /\ c \in Nodes
           /\ Kind(u) = "sub" => level[c] = u
           /\ Kind(u) # "sub" => level[c] = level[u]
<1>1. c \in Nodes /\ Up(c) = u /\ u # 0
  BY ParentOfChild, PipelineAssumption DEF Nodes
<1> QED BY <1>1, LevelIs

----------------------------------------------------------------------------
(* The invariants. *)

Unborn(r) == proc[r].state = "unborn"

Record == [state: {"unborn", "shell", "tool", "zombie", "gone"},
           parent: Procs,
           ctl: {"start", "eval", "down", "add", "close", "one", "first",
                 "rest", "report", "value", "over"},
           at: Nodes, cur: {0} \cup Nodes, val: Status,
           inp: {0} \cup Nodes, out: {0} \cup Nodes,
           held: SUBSET End]

Types ==
    /\ tree \in Trees /\ faults \in Nat
    /\ proc \in [Procs -> Record]

(***************************************************************************)
(* A process executes the nodes of its own list, of pipelines as a whole,  *)
(* and one element of them after the other.                                *)
(***************************************************************************)
Place(p) ==
    proc[p].state = "shell" =>
        LET ctl == proc[p].ctl
            at == proc[p].at
            cur == proc[p].cur
        IN /\ ctl # "over"
           /\ ctl = "start" => p \in Nodes /\ Kind(p) \in {"cmd", "sub"}
           /\ ctl # "start" => /\ level[at] = p /\ Kind(at) # "none"
                               /\ Kind(Up(at)) # "pipe"
           /\ ctl \in {"down", "add", "close"} =>
                 /\ cur \in Nodes /\ level[cur] = p /\ cur \in Below(at)
                 /\ IF ctl = "down" THEN Kind(cur) = "pipe" ELSE IsElement(cur)

(***************************************************************************)
(* The ends of pipes that a process holds: for those before the element in *)
(* hand the parent has closed all but one, the element all but its own.    *)
(***************************************************************************)
NewEnds(m) == IF IsLast(m) THEN {} ELSE {m} \X {"r", "w"}

Extra(p) ==
    LET ctl == proc[p].ctl
        m == IF ctl = "start" THEN p ELSE proc[p].cur
    IN IF proc[p].state # "shell" THEN {}
       ELSE IF ctl = "start"
       THEN IF IsElement(p) THEN {<<Before(p), "r">>} \cup NewEnds(p) ELSE {}
       ELSE IF ctl = "add" THEN {<<Before(proc[p].cur), "r">>}
       ELSE IF ctl = "close"
       THEN {<<Before(proc[p].cur), "r">>} \cup NewEnds(proc[p].cur)
       ELSE {}

HoldsOnly(p) ==
    proc[p].state \in {"shell", "tool"} =>
        proc[p].held \subseteq BackupsAround(p) \cup Extra(p)

(***************************************************************************)
(* Without faults, a process has the children it is starting or waiting    *)
(* for, and they are those of its list.                                    *)
(***************************************************************************)
StartedBefore(e, m) ==
    \/ Up(e) > Up(m)
    \/ Up(e) = Up(m) /\ IsFirst(e) /\ ~IsFirst(m)

OwnParent(p) == p \in Nodes /\ ~Unborn(p) => proc[p].parent = level[p]

Family(p) ==
    LET ctl == proc[p].ctl
        cur == proc[p].cur
    IN /\ \/ proc[p].state # "shell"
          \/ ctl \in {"start", "eval", "value", "report", "down"}
          => Children(p) = {}
       /\ proc[p].state = "shell" =>
             /\ ctl = "one" => Children(p) \subseteq {proc[p].at}
             /\ ctl = "add" => \A e \in Children(p) : StartedBefore(e, cur)
             /\ ctl = "close" => \A e \in Children(p) : StartedBefore(e, cur) \/ e = cur

(***************************************************************************)
(* Nothing ahead of a process has begun; without faults, everything behind *)
(* it is over.                                                             *)
(***************************************************************************)
Position(p) == IF proc[p].ctl \in {"down", "add", "close"} THEN proc[p].cur
                                                           ELSE proc[p].at

AllUnborn(n) == \A r \in Below(n) : Unborn(r)

AllOver(n) == \A r \in Below(n) : Over(r)

AheadUnborn(p, n) ==
    \A u \in Nodes : level[u] = p /\ n \in Below(Left(u)) => AllUnborn(Right(u))

BehindOver(p, n) ==
    \A u \in Nodes :
        level[u] = p /\ Kind(u) \in {"and", "or"} /\ n \in Below(Right(u)) => AllOver(Left(u))

Fresh(p) ==
    proc[p].state = "shell" =>
        /\ proc[p].ctl = "start" => AllUnborn(Left(p))
        /\ proc[p].ctl \in {"eval", "down", "add"} => AllUnborn(Position(p))
        /\ proc[p].ctl # "start" => AheadUnborn(p, Position(p))

Passed(p) ==
    proc[p].state = "shell" /\ proc[p].ctl # "start" => BehindOver(p, Position(p))

----------------------------------------------------------------------------
(* Steps leave the tree as it is. *)

(***************************************************************************)
(* With the tree, all that is said about its nodes stays.                  *)
(***************************************************************************)
LEMMA SameTree ==
    ASSUME tree' = tree
    PROVE  /\ \A n : Left(n)' = Left(n) /\ Right(n)' = Right(n) /\ Kind(n)' = Kind(n)
           /\ \A n : Up(n)' = Up(n) /\ Below(n)' = Below(n)
           /\ level' = level
<1>1. \A n : Left(n)' = Left(n) /\ Right(n)' = Right(n) /\ Kind(n)' = Kind(n)
  BY DEF Left, Right, Kind
<1>2. \A n : Up(n)' = Up(n)
  BY DEF Up, Left, Right
<1>3. \A n : Below(n)' = Below(n)
  <2>1. below' = below
    BY DEF below, Left, Right
  <2> QED BY <2>1 DEF Below
<1>4. level' = level
  BY DEF level, Up, Left, Right, Kind
<1> QED BY <1>1, <1>2, <1>3, <1>4

LEMMA SameElements ==
    ASSUME tree' = tree
    PROVE  /\ \A n : IsElement(n)' = IsElement(n) /\ IsFirst(n)' = IsFirst(n)
           /\ \A n : IsLast(n)' = IsLast(n)
           /\ \A n : Before(n)' = Before(n) /\ After(n)' = After(n)
           /\ \A n : NewEnds(n)' = NewEnds(n) /\ BackupsAround(n)' = BackupsAround(n)
<1>1. \A n : IsElement(n)' = IsElement(n) /\ IsFirst(n)' = IsFirst(n) /\ IsLast(n)' = IsLast(n)
  BY DEF IsElement, IsFirst, IsLast, Up, Left, Right, Kind
<1>2. \A n : Before(n)' = Before(n) /\ After(n)' = After(n)
  BY DEF Before, After, IsFirst, Up, Left, Right, Kind
<1>3. \A n : NewEnds(n)' = NewEnds(n)
  BY DEF NewEnds, IsLast, IsFirst, Up, Left, Right, Kind
<1>4. \A n : BackupsAround(n)' = BackupsAround(n)
  BY SameTree, <1>1 DEF BackupsAround
<1> QED BY <1>1, <1>2, <1>3, <1>4

----------------------------------------------------------------------------
(* Pipelines. *)

LEMMA ElementFacts ==
    ASSUME tree \in Trees, NEW m \in Nodes, IsElement(m)
    PROVE  /\ Up(m) \in Nodes /\ Kind(Up(m)) = "pipe" /\ m \in {Left(Up(m)), Right(Up(m))}
           /\ Up(m) < m /\ Kind(m) \in {"cmd", "sub"} /\ level[m] = level[Up(m)]
<1>1. Kind(Up(m)) = "pipe" /\ Kind(m) # "pipe"
  BY DEF IsElement
<1>2. Up(m) # 0
  BY <1>1 DEF Kind
<1>3. Up(m) \in Nodes /\ m \in {Left(Up(m)), Right(Up(m))}
  BY <1>2, UpFacts
<1>4. Kind(m) \in {"cmd", "sub"}
  BY <1>1, <1>3, TreeFacts
<1>5. level[m] = level[Up(m)]
  BY <1>1, <1>2, LevelIs
<1> QED BY <1>1, <1>3, <1>4, <1>5, UpSmaller

(***************************************************************************)
(* A pipe inside of a pipeline is the left side of the one around it.      *)
(***************************************************************************)
LEMMA PipeUnderPipe ==
    ASSUME tree \in Trees, NEW u \in Nodes, Kind(u) = "pipe", Kind(Up(u)) = "pipe"
    PROVE  /\ Up(u) \in Nodes /\ u = Left(Up(u)) /\ Up(u) < u
           /\ Right(Up(u)) \in Nodes /\ level[u] = level[Up(u)]
<1>1. Up(u) # 0
  BY DEF Kind
<1>2. Up(u) \in Nodes /\ u \in {Left(Up(u)), Right(Up(u))}
  BY <1>1, UpFacts
<1>3. u = Left(Up(u)) /\ Right(Up(u)) \in Nodes
  BY <1>2, TreeFacts
<1>4. level[u] = level[Up(u)]
  BY <1>1, LevelIs
<1> QED BY <1>2, <1>3, <1>4, UpSmaller

(***************************************************************************)
(* exec_pipe goes down to an element that has none before it.              *)
(***************************************************************************)
LEMMA LeftOfPipe ==
    ASSUME tree \in Trees, NEW c \in Nodes, Kind(c) = "pipe"
    PROVE  /\ Left(c) \in Nodes /\ Left(c) # 0 /\ Up(Left(c)) = c
           /\ level[Left(c)] = level[c] /\ Left(c) \in Below(c)
           /\ Kind(Left(c)) # "pipe" => /\ IsElement(Left(c)) /\ IsFirst(Left(c))
                                        /\ Before(Left(c)) = 0
<1>1. Left(c) \in Nodes /\ Left(c) # 0 /\ Up(Left(c)) = c
  BY TreeFacts, ParentOfChild
<1>2. level[Left(c)] = level[c]
  BY <1>1, LevelOfChild
<1>3. Left(c) \in Below(c)
  BY <1>1, BelowFacts
<1> QED BY <1>1, <1>2, <1>3 DEF IsElement, IsFirst, Before

LEMMA ElementBefore ==
    ASSUME tree \in Trees, NEW m \in Nodes, IsElement(m)
    PROVE  Before(m) \in {0} \cup Nodes
<1> DEFINE u == Up(m)
<1>1. u \in Nodes /\ Kind(u) = "pipe"
  BY ElementFacts
<1>2. Left(u) \in Nodes
  BY <1>1, LeftOfPipe
<1>3. Right(Left(u)) \in {0} \cup Nodes
  BY <1>2, TreeFacts
<1> QED BY <1>2, <1>3 DEF Before

(***************************************************************************)
(* The element after one that is not the last: the pipe between the two is *)
(* that of the first of them, and both are elements of the same pipeline.  *)
(***************************************************************************)
LEMMA NextElement ==
    ASSUME tree \in Trees, NEW m \in Nodes, IsElement(m), ~IsLast(m)
    PROVE  /\ After(m) \in Nodes /\ IsElement(After(m)) /\ Before(After(m)) = m
           /\ ~IsFirst(After(m)) /\ level[After(m)] = level[m]
           /\ Up(After(m)) \in Nodes /\ Kind(Up(After(m))) = "pipe"
           /\ After(m) = Right(Up(After(m))) /\ m \in Below(Left(Up(After(m))))
           /\ level[Up(After(m))] = level[m]
           /\ \/ Up(After(m)) = Up(m) /\ IsFirst(m)
              \/ Up(After(m)) = Up(Up(m)) /\ Up(After(m)) < Up(m) /\ Up(m) = Left(Up(After(m)))
<1> DEFINE u == Up(m)
           a == After(m)
<1>1. /\ u \in Nodes /\ Kind(u) = "pipe" /\ m \in {Left(u), Right(u)}
      /\ Kind(m) \in {"cmd", "sub"} /\ level[m] = level[u]
  BY ElementFacts
<1>2. Left(u) # Right(u) /\ Right(u) \in Nodes /\ Right(u) # 0 /\ Kind(Right(u)) \in {"cmd", "sub"}
  BY <1>1, TreeFacts
<1>3. CASE IsFirst(m)
  <2>1. m = Left(u) /\ a = Right(u) /\ Up(a) = u
    BY <1>1, <1>2, <1>3, ParentOfChild DEF After, IsFirst
  <2>2. ~IsFirst(a) /\ Before(a) = m /\ IsElement(a)
    BY <1>1, <1>2, <2>1 DEF Before, IsFirst, IsElement
  <2>3. level[a] = level[u] /\ m \in Below(Left(u))
    BY <1>1, <1>2, <2>1, LevelOfChild, BelowFacts
  <2> QED BY <1>1, <1>2, <1>3, <2>1, <2>2, <2>3
<1>4. CASE ~IsFirst(m)
  <2> DEFINE w == Up(u)
  <2>1. m = Right(u) /\ Kind(w) = "pipe"
    BY <1>1, <1>4 DEF IsFirst, IsLast
  <2>2. w \in Nodes /\ u = Left(w) /\ w < u /\ Right(w) \in Nodes /\ level[u] = level[w]
    BY <1>1, <2>1, PipeUnderPipe
  <2>3. Left(w) # Right(w) /\ Right(w) # 0 /\ Kind(Right(w)) \in {"cmd", "sub"}
    BY <2>1, <2>2, TreeFacts
  <2>4. a = Right(w) /\ Up(a) = w
    BY <1>4, <2>2, <2>3, ParentOfChild DEF After
  <2>5. ~IsFirst(a) /\ Before(a) = m /\ IsElement(a)
    BY <1>1, <2>1, <2>2, <2>3, <2>4 DEF Before, IsFirst, IsElement
  <2>6. level[a] = level[w] /\ m \in Below(u)
    BY <1>1, <1>2, <2>1, <2>2, <2>3, <2>4, LevelOfChild, BelowFacts
  <2> QED BY <1>1, <2>1, <2>2, <2>3, <2>4, <2>5, <2>6
<1> QED BY <1>3, <1>4

----------------------------------------------------------------------------
(* The steps, by what they do to the table of processes. *)

Untouched(P) == \A r \in Procs : r \notin P => proc'[r] = proc[r]

\* p goes on with c at node a and pipe or element m, holding h.
GoesOnWith(p, c, a, m, h) ==
    /\ Untouched({p})
    /\ proc'[p].state = "shell" /\ proc'[p].parent = proc[p].parent
    /\ proc'[p].ctl = c /\ proc'[p].at = a /\ proc'[p].cur = m /\ proc'[p].held = h

Stays(p, c) == GoesOnWith(p, c, proc[p].at, proc[p].cur, proc[p].held)

EndsNow(p) ==
    /\ Untouched({p})
    /\ proc'[p].state = "zombie" /\ proc'[p].parent = proc[p].parent

BecomesTool(p, h) ==
    /\ Untouched({p})
    /\ proc'[p].state = "tool" /\ proc'[p].parent = proc[p].parent
    /\ proc'[p].held = h

\* p forks q, both hold h, and p goes on with c.
Makes(p, q, c, h) ==
    /\ Untouched({p, q})
    /\ p # q => /\ proc'[p].state = "shell" /\ proc'[p].parent = proc[p].parent
                /\ proc'[p].ctl = c /\ proc'[p].at = proc[p].at
                /\ proc'[p].cur = proc[p].cur /\ proc'[p].held = h
    /\ p # q => /\ proc'[q].state = "shell" /\ proc'[q].parent = p
                /\ proc'[q].ctl = "start" /\ proc'[q].held = h

\* p takes the status of q, which is then gone, and goes on with c.
Reaps(p, q, c) ==
    /\ q \in Zombies(p) /\ p # q
    /\ Untouched({p, q})
    /\ proc'[p].state = "shell" /\ proc'[p].parent = proc[p].parent
    /\ proc'[p].ctl = c /\ proc'[p].at = proc[p].at
    /\ proc'[p].cur = proc[p].cur /\ proc'[p].held = proc[p].held
    /\ proc'[q].state = "gone" /\ proc'[q].parent = proc[q].parent

\* The steps of a process on its list and through a pipeline.
ListShapes(p) ==
    \/ /\ Running(p, "eval") /\ Kind(proc[p].at) \in {"and", "or"}
       /\ GoesOnWith(p, "eval", Left(proc[p].at), proc[p].cur, proc[p].held)
    \/ /\ Return(p) /\ Running(p, "value") /\ proc[p].at # Body(p)
       /\ proc[p].at = Left(Up(proc[p].at)) /\ Kind(Up(proc[p].at)) \in {"and", "or"}
       /\ GoesOnWith(p, "eval", Right(Up(proc[p].at)), proc[p].cur, proc[p].held)
    \/ /\ Return(p) /\ Running(p, "value") /\ proc[p].at # Body(p)
       /\ GoesOnWith(p, "value", Up(proc[p].at), proc[p].cur, proc[p].held)
    \/ /\ Running(p, "eval") /\ Kind(proc[p].at) = "pipe"
       /\ GoesOnWith(p, "down", proc[p].at, proc[p].at, proc[p].held)
    \/ /\ Running(p, "down")
       /\ GoesOnWith(p, IF Kind(Left(proc[p].cur)) = "pipe" THEN "down" ELSE "add",
                     proc[p].at, Left(proc[p].cur), proc[p].held)
    \/ /\ Running(p, "close") /\ IsLast(proc[p].cur)
       /\ GoesOnWith(p, "first", proc[p].at, 0,
                     proc[p].held \ NoLongerUsed(proc[p].cur))
    \/ /\ Running(p, "close") /\ ~IsLast(proc[p].cur)
       /\ GoesOnWith(p, "add", proc[p].at, After(proc[p].cur),
                     proc[p].held \ NoLongerUsed(proc[p].cur))

\* The steps in which a process evaluates a command or a subshell, waits or
\* goes on after a wait.
WaitShapes(p) ==
    \/ Running(p, "eval") /\ Stays(p, "value")
    \/ Running(p, "report") /\ Stays(p, "value")
    \/ Running(p, "rest") /\ Children(p) = {} /\ Stays(p, "value")
    \/ /\ faults' # 0 /\ proc[p].state = "shell" /\ proc[p].ctl \in {"one", "first", "rest"}
       /\ \E c \in {"value", "report", "rest"} : Stays(p, c)
    \/ /\ Running(p, "one")
       /\ \E c \in {"report", "value"} : Reaps(p, proc[p].at, c)
    \/ /\ proc[p].state = "shell" /\ proc[p].ctl \in {"first", "rest"}
       /\ \E q \in Procs : Reaps(p, q, "rest")

\* The steps with which processes begin and end.
ForkShapes(p) ==
    \/ /\ Running(p, "eval") /\ Kind(proc[p].at) \in {"cmd", "sub"}
       /\ Makes(p, proc[p].at, "one", proc[p].held)
    \/ /\ Running(p, "add")
       /\ Makes(p, proc[p].cur, "close", proc[p].held \cup NewEnds(proc[p].cur))

EndShapes(p) ==
    \/ proc[p].state = "shell" /\ proc[p].ctl \in {"eval", "value", "report", "start"}
       /\ EndsNow(p)
    \/ Running(p, "add") /\ faults' # 0 /\ EndsNow(p)
    \/ proc[p].state = "tool" /\ EndsNow(p)

StartShapes(p) ==
    \/ Running(p, "start") /\ Kind(p) = "cmd" /\ BecomesTool(p, ConnectedHeld(p))
    \/ /\ Running(p, "start") /\ Kind(p) = "sub"
       /\ \E h \in SUBSET End :
            /\ h \ ConnectedHeld(p) \subseteq BackupsAround(p)
            /\ GoesOnWith(p, "eval", Left(p), proc[p].cur, h)

StepShapes ==
    /\ tree' = tree /\ (faults' = 0 => faults = 0)
    /\ \/ proc' = proc
       \/ \E p \in Procs : \/ ListShapes(p) \/ WaitShapes(p) \/ ForkShapes(p)
                           \/ EndShapes(p) \/ StartShapes(p)

LEMMA ListSteps ==
    ASSUME Types, NEW p \in Procs,
           EvalAndOr(p) \/ EvalPipe(p) \/ GoDown(p) \/ CloseEnds(p)
    PROVE  StepShapes
<1> USE DEF Types, Record, Running, Untouched, GoesOnWith
<1>1. CASE EvalAndOr(p)
  <2>1. ListShapes(p)
    BY <1>1 DEF EvalAndOr, ListShapes
  <2> QED BY <1>1, <2>1 DEF EvalAndOr, StepShapes
<1>2. CASE EvalPipe(p)
  <2>1. ListShapes(p)
    BY <1>2 DEF EvalPipe, ListShapes
  <2> QED BY <1>2, <2>1 DEF EvalPipe, StepShapes
<1>3. CASE GoDown(p)
  <2>1. ListShapes(p)
    BY <1>3 DEF GoDown, ListShapes
  <2> QED BY <1>3, <2>1 DEF GoDown, StepShapes
<1>4. CASE CloseEnds(p)
  <2>1. ListShapes(p)
    BY <1>4 DEF CloseEnds, CloseEndsOf, ListShapes
  <2> QED BY <1>4, <2>1 DEF CloseEnds, CloseEndsOf, StepShapes
<1> QED BY <1>1, <1>2, <1>3, <1>4

LEMMA ValueStays ==
    ASSUME Types, NEW p \in Procs, proc[p].state = "shell", NEW v, Value(p, v)
    PROVE  Stays(p, "value")
BY DEF Types, Record, Value, Stays, GoesOnWith, Untouched

LEMMA ExitEnds ==
    ASSUME Types, NEW p \in Procs, NEW s, Exit(p, s)
    PROVE  EndsNow(p)
BY DEF Types, Record, Exit, EndsNow, Untouched

LEMMA ForkedMakes ==
    ASSUME Types, NEW p \in Procs, proc[p].state = "shell", NEW q \in Procs, NEW h, NEW c,
           Forked(p, q, h, c)
    PROVE  Makes(p, q, c, h)
<1> DEFINE x == [proc[p] EXCEPT !.parent = p, !.ctl = "start", !.at = q, !.cur = 0, !.held = h]
           y == [proc[p] EXCEPT !.held = h, !.ctl = c]
<1>0. proc \in [Procs -> Record] /\ proc[p] \in Record
  BY DEF Types
<1>1. /\ x.state = "shell" /\ x.parent = p /\ x.ctl = "start" /\ x.held = h
      /\ y.state = "shell" /\ y.parent = proc[p].parent /\ y.ctl = c
      /\ y.at = proc[p].at /\ y.cur = proc[p].cur /\ y.held = h
  BY <1>0 DEF Record
<1>2. p # q => proc'[q] = x /\ proc'[p] = y
  BY <1>0 DEF Forked
<1>3. \A r \in Procs : r # p /\ r # q => proc'[r] = proc[r]
  BY <1>0 DEF Forked
<1> HIDE DEF x, y
<1> QED BY <1>1, <1>2, <1>3 DEF Makes, Untouched

LEMMA EvalSteps ==
    ASSUME Types, NEW p \in Procs,
           EvalBuiltin(p) \/ EvalExit(p) \/ EvalFork(p) \/ EvalForkFails(p) \/ Return(p)
    PROVE  StepShapes
<1>1. CASE EvalBuiltin(p)
  <2>1. CASE \E s \in Status : Value(p, s)
    <3>1. WaitShapes(p)
      BY <1>1, <2>1, ValueStays DEF EvalBuiltin, WaitShapes, Running
    <3> QED BY <1>1, <3>1 DEF EvalBuiltin, StepShapes
  <2>2. CASE Exit(p, 1)
    <3>1. EndShapes(p)
      BY <1>1, <2>2, ExitEnds DEF EvalBuiltin, EndShapes, Running
    <3> QED BY <1>1, <3>1 DEF EvalBuiltin, StepShapes
  <2> QED BY <1>1, <2>1, <2>2 DEF EvalBuiltin
<1>2. CASE EvalExit(p)
  <2>1. EndShapes(p)
    BY <1>2, ExitEnds DEF EvalExit, EndShapes, Running
  <2> QED BY <1>2, <2>1 DEF EvalExit, StepShapes
<1>3. CASE EvalFork(p)
  <2>1. Kind(proc[p].at) \in {"cmd", "sub"}
    BY <1>3 DEF EvalFork, Forks
  <2>2. proc[p].at \in Procs
    BY DEF Types, Record, Procs
  <2>3. Makes(p, proc[p].at, "one", proc[p].held)
    BY <1>3, <2>2, ForkedMakes DEF EvalFork, Running
  <2>4. ForkShapes(p)
    BY <1>3, <2>1, <2>3 DEF EvalFork, ForkShapes
  <2> QED BY <1>3, <2>4 DEF EvalFork, StepShapes
<1>4. CASE EvalForkFails(p)
  <2>1. WaitShapes(p)
    BY <1>4, ValueStays DEF EvalForkFails, WaitShapes, Running
  <2>2. faults' # 0
    BY <1>4 DEF EvalForkFails, Fault, Types, Record
  <2> QED BY <1>4, <2>1, <2>2 DEF EvalForkFails, StepShapes
<1>5. CASE Return(p)
  <2> DEFINE n == proc[p].at
             u == Up(n)
             v == proc[p].val
  <2>1. CASE n = Body(p) /\ Exit(p, v)
    <3>1. EndShapes(p)
      BY <1>5, <2>1, ExitEnds DEF Return, EndShapes, Running
    <3> QED BY <1>5, <3>1 DEF Return, StepShapes
  <2>2. CASE /\ n # Body(p) /\ n = Left(u) /\ GoesOn(u, v)
             /\ proc' = [proc EXCEPT ![p].at = Right(u), ![p].ctl = "eval"]
    <3>1. Kind(u) \in {"and", "or"} /\ Running(p, "value")
      BY <1>5, <2>2 DEF GoesOn, Return
    <3>2. GoesOnWith(p, "eval", Right(u), proc[p].cur, proc[p].held)
      BY <2>2, <3>1 DEF Types, Record, Running, Untouched, GoesOnWith
    <3>3. ListShapes(p)
      BY <1>5, <2>2, <3>1, <3>2 DEF ListShapes
    <3> QED BY <1>5, <3>3 DEF Return, StepShapes
  <2>3. CASE n # Body(p) /\ proc' = [proc EXCEPT ![p].at = u]
    <3>1. Running(p, "value")
      BY <1>5 DEF Return
    <3>2. GoesOnWith(p, "value", u, proc[p].cur, proc[p].held)
      BY <2>3, <3>1 DEF Types, Record, Running, Untouched, GoesOnWith
    <3>3. ListShapes(p)
      BY <1>5, <2>3, <3>1, <3>2 DEF ListShapes
    <3> QED BY <1>5, <3>3 DEF Return, StepShapes
  <2> QED BY <1>5, <2>1, <2>2, <2>3 DEF Return
<1> QED BY <1>1, <1>2, <1>3, <1>4, <1>5

LEMMA PipeSteps ==
    ASSUME Types, NEW p \in Procs,
           ForkElement(p) \/ ForkElementFails(p) \/ ReportStatus(p)
    PROVE  StepShapes
<1>1. CASE ForkElement(p)
  <2>1. proc[p].cur \in Procs
    BY DEF Types, Record, Procs, Shell
  <2>2. Makes(p, proc[p].cur, "close", proc[p].held \cup NewEnds(proc[p].cur))
    BY <1>1, <2>1, ForkedMakes DEF ForkElement, NewEnds, Running
  <2>3. ForkShapes(p)
    BY <1>1, <2>2 DEF ForkElement, ForkShapes
  <2> QED BY <1>1, <2>3 DEF ForkElement, StepShapes
<1>2. CASE ForkElementFails(p)
  <2>1. faults' # 0
    BY <1>2 DEF ForkElementFails, Fault, Types, Record
  <2>2. EndShapes(p)
    BY <1>2, <2>1, ExitEnds DEF ForkElementFails, EndShapes
  <2> QED BY <1>2, <2>1, <2>2 DEF ForkElementFails, StepShapes
<1>3. CASE ReportStatus(p)
  <2>1. CASE Value(p, proc[p].val)
    <3>1. WaitShapes(p)
      BY <1>3, <2>1, ValueStays DEF ReportStatus, WaitShapes, Running
    <3> QED BY <1>3, <3>1 DEF ReportStatus, StepShapes
  <2>2. CASE Exit(p, 1)
    <3>1. EndShapes(p)
      BY <1>3, <2>2, ExitEnds DEF ReportStatus, EndShapes, Running
    <3> QED BY <1>3, <3>1 DEF ReportStatus, StepShapes
  <2> QED BY <1>3, <2>1, <2>2 DEF ReportStatus
<1> QED BY <1>1, <1>2, <1>3

LEMMA WaitSteps ==
    ASSUME Types, NEW p \in Procs,
           WaitOne(p) \/ WaitFirst(p) \/ WaitRest(p) \/ WaitInterrupted(p)
    PROVE  StepShapes
<1> USE DEF Types, Record, Running, Untouched, GoesOnWith, Stays, Value
<1>0. \A q \in Zombies(p) : q \in Procs /\ proc[q].state = "zombie"
  BY DEF Zombies, Children, Procs
<1>1. CASE WaitOne(p)
  <2>1. AfterWait(proc[p].at) \in {"report", "value"}
    BY DEF AfterWait
  <2> DEFINE q == proc[p].at
  <2>2. q \in Zombies(p) /\ p # q
    BY <1>0, <1>1 DEF WaitOne
  <2>3. Reaps(p, q, AfterWait(q))
    BY <1>0, <1>1, <2>2 DEF WaitOne, Reaps
  <2>4. WaitShapes(p)
    BY <1>1, <2>1, <2>3 DEF WaitOne, WaitShapes
  <2> QED BY <1>1, <2>4 DEF WaitOne, StepShapes
<1>2. CASE WaitFirst(p)
  <2>1. PICK q \in Zombies(p) :
            proc' = [proc EXCEPT ![p].ctl = "rest", ![p].val = proc[q].val,
                                 ![q].state = "gone"]
    BY <1>2 DEF WaitFirst
  <2>2. Reaps(p, q, "rest")
    <3>1. q \in Procs /\ proc[q].state = "zombie" /\ proc[p].state = "shell" /\ p # q
      BY <1>0, <1>2 DEF WaitFirst
    <3> QED BY <2>1, <3>1 DEF Reaps
  <2>3. WaitShapes(p)
    BY <1>0, <1>2, <2>2 DEF WaitFirst, WaitShapes
  <2> QED BY <1>2, <2>3 DEF WaitFirst, StepShapes
<1>3. CASE WaitRest(p)
  <2>1. CASE \E q \in Zombies(p) : proc' = [proc EXCEPT ![q].state = "gone"]
    <3>1. PICK q \in Zombies(p) : proc' = [proc EXCEPT ![q].state = "gone"]
      BY <2>1
    <3>2. Reaps(p, q, "rest")
      BY <1>0, <1>3, <3>1 DEF WaitRest, Reaps
    <3>3. WaitShapes(p)
      BY <1>0, <1>3, <3>2 DEF WaitRest, WaitShapes
    <3> QED BY <1>3, <3>3 DEF WaitRest, StepShapes
  <2>2. CASE Children(p) = {} /\ proc' = [proc EXCEPT ![p].ctl = "value"]
    <3>1. WaitShapes(p)
      BY <1>3, <2>2 DEF WaitRest, WaitShapes
    <3> QED BY <1>3, <3>1 DEF WaitRest, StepShapes
  <2> QED BY <1>3, <2>1, <2>2 DEF WaitRest
<1>4. CASE WaitInterrupted(p)
  <2>1. faults' # 0
    BY <1>4 DEF WaitInterrupted, Fault
  <2>2. WaitShapes(p)
    BY <1>4, <2>1 DEF WaitInterrupted, WaitShapes
  <2> QED BY <1>4, <2>1, <2>2 DEF WaitInterrupted, StepShapes
<1> QED BY <1>1, <1>2, <1>3, <1>4

LEMMA ToolSteps ==
    ASSUME Types, NEW q \in Nodes, ToolStep(q) \/ Writes(q)
    PROVE  StepShapes
<1>0. q \in Procs
  BY DEF Procs
<1>1. CASE Ends(q) \/ ReadsEof(q) \/ KilledBySigPipe(q)
  <2>1. EndShapes(q)
    BY <1>0, <1>1, ExitEnds DEF Ends, ReadsEof, KilledBySigPipe, EndShapes, IsTool
  <2> QED BY <1>0, <1>1, <2>1 DEF Ends, ReadsEof, KilledBySigPipe, StepShapes
<1>2. CASE Copies(q) \/ Writes(q)
  BY <1>2 DEF Copies, Writes, StepShapes
<1> QED BY <1>1, <1>2 DEF ToolStep

LEMMA StartSteps ==
    ASSUME Types, NEW q \in Nodes, StartStep(q)
    PROVE  StepShapes
<1> USE DEF Types, Record, Running, Untouched
<1>0. q \in Procs
  BY DEF Procs
<1>1. CASE StartTool(q)
  <2>1. StartShapes(q)
    BY <1>0, <1>1 DEF StartTool, StartShapes, BecomesTool
  <2> QED BY <1>0, <1>1, <2>1 DEF StartTool, StepShapes
<1>2. CASE StartSubshell(q)
  <2>1. CASE Exit(q, 1)
    <3>1. EndShapes(q)
      BY <1>0, <1>2, <2>1, ExitEnds DEF StartSubshell, EndShapes
    <3> QED BY <1>0, <1>2, <3>1 DEF StartSubshell, StepShapes
  <2>2. CASE ~Exit(q, 1)
    <3> DEFINE inp == ConnectedInp(q)
               out == ConnectedOut(q)
               redir == tree.prog[q]
               b == CASE redir = "in" -> Backup(q, <<inp, "r">>)
                      [] redir = "out" -> Backup(q, <<out, "w">>)
                      [] OTHER -> {}
               h == ConnectedHeld(q) \cup b
    <3>1. /\ tree' = tree /\ faults' = faults /\ Running(q, "start") /\ Kind(q) = "sub"
          /\ proc' = [proc EXCEPT ![q] =
                [@ EXCEPT !.ctl = "eval", !.at = Left(q),
                    !.inp = IF redir = "in" THEN 0 ELSE inp,
                    !.out = IF redir = "out" THEN 0 ELSE out,
                    !.held = h]]
      BY <1>2, <2>2 DEF StartSubshell
    <3>2. inp \in {0} \cup Nodes /\ out \in {0} \cup Nodes
      BY <1>0, ElementBefore DEF ConnectedInp, ConnectedOut
    <3>3. b \subseteq BackupsAround(q) /\ b \subseteq End
      <4>1. q \in Below(q)
        BY BelowFacts
      <4> QED BY <3>1, <3>2, <4>1 DEF Backup, BackupsAround, End
    <3>4. ConnectedHeld(q) \subseteq End
      BY <1>0 DEF ConnectedHeld
    <3> HIDE DEF b
    <3>5. GoesOnWith(q, "eval", Left(q), proc[q].cur, h)
      BY <1>0, <3>1 DEF GoesOnWith
    <3>6. h \in SUBSET End /\ h \ ConnectedHeld(q) \subseteq BackupsAround(q)
      BY <3>3, <3>4
    <3>7. StartShapes(q)
      BY <3>1, <3>5, <3>6 DEF StartShapes
    <3> QED BY <1>0, <3>1, <3>7 DEF StepShapes
  <2> QED BY <2>1, <2>2
<1> QED BY <1>1, <1>2 DEF StartStep

LEMMA StepsHaveShapes == Types /\ [Next]_vars => StepShapes
<1> SUFFICES ASSUME Types, [Next]_vars
             PROVE  StepShapes
  OBVIOUS
<1>1. CASE UNCHANGED vars
  BY <1>1 DEF vars, StepShapes
<1>2. CASE \E p \in Procs : ShellStep(p) \/ FaultStep(p)
  BY <1>2, ListSteps, EvalSteps, PipeSteps, WaitSteps DEF ShellStep, FaultStep
<1>3. CASE \E q \in Nodes : StartStep(q) \/ ToolStep(q) \/ Writes(q)
  BY <1>3, StartSteps, ToolSteps
<1> QED BY <1>1, <1>2, <1>3 DEF Next, Finished

----------------------------------------------------------------------------
(* Types and places. *)

(***************************************************************************)
(* Where the steps of a process on its list lead.                          *)
(***************************************************************************)
LEMMA NextPlaces ==
    ASSUME Types, NEW p \in Procs, Place(p), proc[p].state = "shell"
    PROVE  /\ proc[p].ctl = "eval" /\ Kind(proc[p].at) \in {"and", "or"} =>
                LET l == Left(proc[p].at)
                IN l \in Nodes /\ level[l] = p /\ Kind(l) # "none" /\ Kind(Up(l)) # "pipe"
           /\ proc[p].ctl \notin {"start", "down", "add", "close"} /\ proc[p].at # Body(p) =>
                LET u == Up(proc[p].at)
                IN /\ u \in Nodes /\ level[u] = p /\ Kind(u) \in {"and", "or"}
                   /\ Kind(Up(u)) # "pipe"
                   /\ LET r == Right(u)
                      IN r \in Nodes /\ level[r] = p /\ Kind(r) # "none" /\ Kind(Up(r)) # "pipe"
           /\ proc[p].ctl = "start" /\ Kind(p) = "sub" =>
                LET l == Left(p)
                IN l \in Nodes /\ level[l] = p /\ Kind(l) # "none" /\ Kind(Up(l)) # "pipe"
<1> DEFINE n == proc[p].at
<1>0. tree \in Trees /\ n \in Nodes
  BY DEF Types, Record
<1>1. ASSUME proc[p].ctl = "eval", Kind(n) \in {"and", "or"}
      PROVE  LET l == Left(n)
             IN l \in Nodes /\ level[l] = p /\ Kind(l) # "none" /\ Kind(Up(l)) # "pipe"
  <2> DEFINE l == Left(n)
  <2>1. level[n] = p /\ l # 0 /\ Kind(l) # "none"
    BY <1>0, <1>1, TreeFacts DEF Place
  <2>2. l \in Nodes /\ Up(l) = n /\ level[l] = level[n]
    BY <1>0, <1>1, <2>1, ParentOfChild, LevelOfChild
  <2> QED BY <1>1, <2>1, <2>2
<1>2. ASSUME proc[p].ctl \notin {"start", "down", "add", "close"}, n # Body(p)
      PROVE  LET u == Up(n)
             IN /\ u \in Nodes /\ level[u] = p /\ Kind(u) \in {"and", "or"}
                /\ Kind(Up(u)) # "pipe"
                /\ LET r == Right(u)
                   IN r \in Nodes /\ level[r] = p /\ Kind(r) # "none" /\ Kind(Up(r)) # "pipe"
  <2> DEFINE u == Up(n)
             r == Right(u)
  <2>1. level[n] = p /\ Kind(n) # "none" /\ Kind(u) # "pipe"
    BY <1>2 DEF Place
  <2>2. u # 0
    <3>1. ASSUME u = 0
          PROVE  FALSE
      <4>1. n = Root /\ level[n] = Shell
        BY <1>0, <2>1, <3>1, UpFacts, LevelIs
      <4> QED BY <1>2, <2>1, <4>1 DEF Body
    <3> QED BY <3>1
  <2>3. u \in Nodes /\ n \in {Left(u), Right(u)} /\ Kind(u) \in {"sub", "and", "or"}
    BY <1>0, <2>1, <2>2, UpFacts
  <2>4. Kind(u) # "sub"
    <3>1. ASSUME Kind(u) = "sub"
          PROVE  FALSE
      <4>1. level[n] = u
        BY <1>0, <2>2, <3>1, LevelIs
      <4>2. Right(u) = 0 /\ Left(u) # 0
        BY <1>0, <2>3, <3>1, TreeFacts
      <4>3. n = Left(u) /\ u # Shell
        BY <1>0, <2>2, <2>3, <4>2, PipelineAssumption DEF Nodes, Shell
      <4> QED BY <1>2, <2>1, <4>1, <4>3 DEF Body
    <3> QED BY <3>1
  <2>5. level[u] = p
    BY <1>0, <2>1, <2>2, <2>4, LevelIs
  <2>6. Kind(Up(u)) # "pipe"
    <3>1. ASSUME Kind(Up(u)) = "pipe"
          PROVE  FALSE
      <4>1. Up(u) # 0
        BY <3>1 DEF Kind
      <4>2. Up(u) \in Nodes /\ u \in {Left(Up(u)), Right(Up(u))}
        BY <1>0, <2>3, <4>1, UpFacts
      <4> QED BY <1>0, <2>3, <2>4, <3>1, <4>2, TreeFacts
    <3> QED BY <3>1
  <2>7. r \in Nodes /\ r # 0 /\ Kind(r) # "none"
    BY <1>0, <2>3, <2>4, TreeFacts
  <2>8. level[r] = p /\ Up(r) = u
    BY <1>0, <2>3, <2>4, <2>5, <2>7, LevelOfChild, ParentOfChild
  <2> QED BY <2>1, <2>3, <2>4, <2>5, <2>6, <2>7, <2>8
<1>3. ASSUME proc[p].ctl = "start", Kind(p) = "sub"
      PROVE  LET l == Left(p)
             IN l \in Nodes /\ level[l] = p /\ Kind(l) # "none" /\ Kind(Up(l)) # "pipe"
  <2> DEFINE l == Left(p)
  <2>1. p \in Nodes
    BY <1>3 DEF Place
  <2>2. l # 0 /\ l \in Nodes /\ Kind(l) # "none"
    BY <1>0, <1>3, <2>1, TreeFacts
  <2>3. level[l] = p /\ Up(l) = p
    BY <1>0, <1>3, <2>1, <2>2, LevelOfChild, ParentOfChild
  <2> QED BY <1>3, <2>2, <2>3
<1> QED BY <1>1, <1>2, <1>3

LEMMA ValueTypes ==
    ASSUME NEW p \in Procs, proc \in [Procs -> Record], NEW s \in Status, Value(p, s)
    PROVE  proc' \in [Procs -> Record]
<1> DEFINE x == [proc[p] EXCEPT !.ctl = "value", !.val = s]
<1>1. proc[p] \in Record /\ proc' = [proc EXCEPT ![p] = x]
  BY DEF Value
<1>2. x \in Record
  BY <1>1 DEF Record
<1> HIDE DEF x
<1> QED BY <1>1, <1>2

LEMMA ExitTypes ==
    ASSUME NEW p \in Procs, proc \in [Procs -> Record], NEW s \in Status, Exit(p, s)
    PROVE  proc' \in [Procs -> Record]
<1> DEFINE x == [proc[p] EXCEPT !.state = "zombie", !.ctl = "over", !.val = s,
                                !.inp = 0, !.out = 0, !.held = {}]
<1>1. proc[p] \in Record /\ proc' = [proc EXCEPT ![p] = x]
  BY DEF Exit
<1>2. x \in Record
  BY <1>1 DEF Record
<1> HIDE DEF x
<1> QED BY <1>1, <1>2

(***************************************************************************)
(* What a step assigns is of the type of the field.                        *)
(***************************************************************************)
LEMMA ForkedTypes ==
    ASSUME proc \in [Procs -> Record], NEW p \in Procs, NEW q \in Nodes,
           NEW h \in SUBSET End, NEW c \in {"one", "close"}, Forked(p, q, h, c)
    PROVE  proc' \in [Procs -> Record]
<1> DEFINE x == [proc[p] EXCEPT !.parent = p, !.ctl = "start", !.at = q, !.cur = 0, !.held = h]
           f == [proc EXCEPT ![q] = x]
           y == [f[p] EXCEPT !.held = h, !.ctl = c]
<1>1. x \in Record
  <2>1. proc[p] \in Record
    OBVIOUS
  <2> QED BY <2>1 DEF Record
<1>2. proc' = [f EXCEPT ![p] = y]
  BY DEF Forked, Procs
<1> HIDE DEF x
<1>3. f \in [Procs -> Record]
  BY <1>1 DEF Procs
<1> HIDE DEF f
<1>4. y \in Record
  <2>1. f[p] \in Record
    BY <1>3
  <2> QED BY <2>1 DEF Record
<1> HIDE DEF y
<1> QED BY <1>2, <1>3, <1>4

LEMMA ShellTypes ==
    ASSUME Types, NEW p \in Procs, Place(p), ShellStep(p)
    PROVE  Types'
<1>0. /\ tree \in Trees /\ faults \in Nat /\ proc \in [Procs -> Record]
      /\ proc[p] \in Record /\ \A q \in Nodes : q \in Procs /\ proc[q] \in Record
  BY DEF Types, Procs
<1>1. CASE EvalAndOr(p)
  <2>1. Left(proc[p].at) \in Nodes
    BY <1>1, NextPlaces DEF EvalAndOr, Running
  <2> QED BY <1>0, <1>1, <2>1 DEF EvalAndOr, Types, Record
<1>2. CASE EvalBuiltin(p)
  <2>1. \A s \in Status : Value(p, s) => proc' \in [Procs -> Record]
    BY <1>0, ValueTypes
  <2>2. Exit(p, 1) => proc' \in [Procs -> Record]
    BY <1>0, ExitTypes DEF Status
  <2> QED BY <1>0, <1>2, <2>1, <2>2 DEF EvalBuiltin, Types
<1>3. CASE EvalExit(p)
  <2>1. \A s \in Status : Exit(p, s) => proc' \in [Procs -> Record]
    BY <1>0, ExitTypes
  <2> QED BY <1>0, <1>3, <2>1 DEF EvalExit, Types
<1>4. CASE EvalFork(p)
  <2> DEFINE q == proc[p].at
  <2>1. q \in Nodes /\ q \in Procs /\ proc[p].held \in SUBSET End
    BY <1>0 DEF Record
  <2>2. proc' \in [Procs -> Record]
    BY <1>0, <1>4, <2>1, ForkedTypes DEF EvalFork
  <2> QED BY <1>0, <1>4, <2>2 DEF EvalFork, Types
<1>5. CASE Return(p)
  <2> DEFINE n == proc[p].at
             u == Up(n)
  <2>0. tree' = tree /\ faults' = faults
    BY <1>5 DEF Return
  <2>1. n # Body(p) => u \in Nodes /\ Right(u) \in Nodes
    BY <1>5, NextPlaces DEF Return, Running
  <2>2. proc[p].val \in Status
    BY <1>0 DEF Record
  <2>3. CASE Exit(p, proc[p].val)
    <3>1. proc' \in [Procs -> Record]
      BY <1>0, <2>2, <2>3 DEF Exit, Record
    <3> QED BY <1>0, <2>0, <3>1 DEF Types
  <2>4. CASE n # Body(p) /\ proc' = [proc EXCEPT ![p].at = Right(u), ![p].ctl = "eval"]
    <3> DEFINE x == [proc[p] EXCEPT !.at = Right(u), !.ctl = "eval"]
    <3>1. x \in Record
      BY <1>0, <2>1, <2>4 DEF Record
    <3>2. proc' = [proc EXCEPT ![p] = x]
      BY <1>0, <2>4
    <3> HIDE DEF x
    <3>3. proc' \in [Procs -> Record]
      BY <1>0, <3>1, <3>2
    <3> QED BY <1>0, <2>0, <3>3 DEF Types
  <2>5. CASE n # Body(p) /\ proc' = [proc EXCEPT ![p].at = u]
    <3>1. proc' \in [Procs -> Record]
      BY <1>0, <2>1, <2>5 DEF Record
    <3> QED BY <1>0, <2>0, <3>1 DEF Types
  <2> QED BY <1>5, <2>3, <2>4, <2>5 DEF Return
<1>6. CASE EvalPipe(p)
  BY <1>0, <1>6 DEF EvalPipe, Types, Record
<1>7. CASE GoDown(p)
  <2> DEFINE l == Left(proc[p].cur)
  <2>1. l \in Nodes
    BY <1>0, <1>7, LeftOfPipe DEF GoDown, Running, Place
  <2>2. proc' \in [Procs -> Record]
    BY <1>0, <1>7, <2>1 DEF GoDown, Record
  <2> QED BY <1>0, <1>7, <2>2 DEF GoDown, Types
<1>8. CASE ForkElement(p)
  <2> DEFINE m == proc[p].cur
             new == IF IsLast(m) THEN {} ELSE {m} \X {"r", "w"}
  <2>1. m \in Nodes /\ m \in Procs /\ proc[p].held \cup new \in SUBSET End
    BY <1>0, <1>8 DEF ForkElement, Running, Place, Record, End
  <2> HIDE DEF new
  <2>2. proc' \in [Procs -> Record]
    <3>1. Forked(p, m, proc[p].held \cup new, "close")
      BY <1>8 DEF ForkElement, new
    <3> QED BY <1>0, <2>1, <3>1, ForkedTypes
  <2> QED BY <1>0, <1>8, <2>2 DEF ForkElement, Types
<1>9. CASE CloseEnds(p)
  <2> DEFINE m == proc[p].cur
  <2>1. ~IsLast(m) => After(m) \in Nodes
    BY <1>0, <1>9, NextElement DEF CloseEnds, CloseEndsOf, Running, Place
  <2>2. (IF IsLast(m) THEN 0 ELSE After(m)) \in {0} \cup Nodes
    BY <2>1
  <2> DEFINE x == [proc[p] EXCEPT !.held = @ \ NoLongerUsed(m),
                                  !.ctl = IF IsLast(m) THEN "first" ELSE "add",
                                  !.cur = IF IsLast(m) THEN 0 ELSE After(m)]
  <2>3. proc' = [proc EXCEPT ![p] = x]
    BY <1>0, <1>9 DEF CloseEnds, CloseEndsOf
  <2>4. x \in Record
    BY <1>0, <2>2 DEF Record
  <2> HIDE DEF x
  <2>5. proc' \in [Procs -> Record]
    BY <1>0, <2>3, <2>4
  <2> QED BY <1>0, <1>9, <2>5 DEF CloseEnds, CloseEndsOf, Types
<1>10. CASE WaitOne(p)
  <2> DEFINE q == proc[p].at
  <2>1. q \in Procs /\ proc[q] \in Record /\ AfterWait(q) \in {"report", "value"}
    BY <1>0 DEF Record, AfterWait
  <2>2. proc' \in [Procs -> Record]
    <3> DEFINE c == AfterWait(q)
               x == [proc[p] EXCEPT !.ctl = c, !.val = proc[q].val]
               f == [proc EXCEPT ![p] = x]
    <3>1. proc' = [f EXCEPT ![q].state = "gone"]
      BY <1>0, <1>10 DEF WaitOne
    <3> HIDE DEF c
    <3>2. x \in Record
      BY <1>0, <2>1 DEF Record, c
    <3> HIDE DEF x
    <3>3. f \in [Procs -> Record]
      BY <1>0, <3>2
    <3> HIDE DEF f
    <3> QED BY <2>1, <3>1, <3>3 DEF Record
  <2> QED BY <1>0, <1>10, <2>2 DEF WaitOne, Types
<1>11. CASE ReportStatus(p)
  <2>0. proc[p].val \in Status
    BY <1>0 DEF Record
  <2>1. Value(p, proc[p].val) => proc' \in [Procs -> Record]
    BY <1>0, <2>0, ValueTypes
  <2>2. Exit(p, 1) => proc' \in [Procs -> Record]
    BY <1>0, ExitTypes DEF Status
  <2> QED BY <1>0, <1>11, <2>1, <2>2 DEF ReportStatus, Types
<1>12. CASE WaitFirst(p)
  <2>1. PICK q \in Zombies(p) :
            proc' = [proc EXCEPT ![p].ctl = "rest", ![p].val = proc[q].val,
                                 ![q].state = "gone"]
    BY <1>12 DEF WaitFirst
  <2>2. q \in Procs /\ proc[q] \in Record
    BY <1>0 DEF Zombies, Children
  <2>3. proc' \in [Procs -> Record]
    BY <1>0, <2>1, <2>2 DEF Record
  <2> QED BY <1>0, <1>12, <2>3 DEF WaitFirst, Types
<1>13. CASE WaitRest(p)
  <2>1. \A q \in Zombies(p) : q \in Procs /\ proc[q] \in Record
    BY <1>0 DEF Zombies, Children
  <2>2. proc' \in [Procs -> Record]
    BY <1>0, <1>13, <2>1 DEF WaitRest, Record
  <2> QED BY <1>0, <1>13, <2>2 DEF WaitRest, Types
<1> QED BY <1>1, <1>2, <1>3, <1>4, <1>5, <1>6, <1>7, <1>8, <1>9, <1>10, <1>11, <1>12,
           <1>13 DEF ShellStep

LEMMA FaultTypes ==
    ASSUME Types, NEW p \in Procs, FaultStep(p)
    PROVE  Types'
<1>0. /\ tree \in Trees /\ faults \in Nat /\ proc \in [Procs -> Record]
      /\ proc[p] \in Record /\ 0 \in Status /\ 1 \in Status
  BY DEF Types, Status
<1>1. \A s \in Status : Value(p, s) => proc' \in [Procs -> Record]
  BY <1>0, ValueTypes
<1>2. CASE EvalForkFails(p)
  <2>1. (IF Kind(proc[p].at) = "sub" THEN 1 ELSE 0) \in Status
    BY <1>0
  <2> QED BY <1>0, <1>1, <1>2, <2>1 DEF EvalForkFails, Fault, Types
<1>3. CASE ForkElementFails(p)
  <2>1. proc' \in [Procs -> Record]
    BY <1>0, <1>3 DEF ForkElementFails, Exit, Record
  <2> QED BY <1>0, <1>3, <2>1 DEF ForkElementFails, Fault, Types
<1>4. CASE WaitInterrupted(p)
  <2>1. tree' = tree /\ faults' = faults + 1
    BY <1>4 DEF WaitInterrupted, Fault
  <2>2. proc' \in [Procs -> Record]
    <3>1. ASSUME NEW v \in Status, NEW c \in {"report", "rest"},
                 proc' = [proc EXCEPT ![p].ctl = c, ![p].val = v]
          PROVE  proc' \in [Procs -> Record]
      BY <1>0, <3>1 DEF Record
    <3>2. ASSUME proc' = [proc EXCEPT ![p].ctl = "value"]
          PROVE  proc' \in [Procs -> Record]
      BY <1>0, <3>2 DEF Record
    <3> QED BY <1>0, <1>1, <1>4, <3>1, <3>2 DEF WaitInterrupted
  <2> QED BY <1>0, <2>1, <2>2 DEF Types
<1> QED BY <1>2, <1>3, <1>4 DEF FaultStep

LEMMA NodeTypes ==
    ASSUME Types, NEW q \in Nodes, Place(q), StartStep(q) \/ ToolStep(q) \/ Writes(q)
    PROVE  Types'
<1>0. /\ tree \in Trees /\ faults \in Nat /\ proc \in [Procs -> Record]
      /\ q \in Procs /\ proc[q] \in Record /\ 0 \in Status /\ 1 \in Status
  BY DEF Types, Status, Procs
<1>1. \A s \in Status : Exit(q, s) => proc' \in [Procs -> Record]
  BY <1>0, ExitTypes
<1>2. /\ ConnectedInp(q) \in {0} \cup Nodes /\ ConnectedOut(q) \in {0} \cup Nodes
      /\ ConnectedHeld(q) \in SUBSET End
  BY <1>0, ElementBefore DEF ConnectedInp, ConnectedOut, ConnectedHeld, Record
<1>3. CASE StartTool(q)
  <2>1. proc' \in [Procs -> Record]
    BY <1>0, <1>2, <1>3 DEF StartTool, Record
  <2> QED BY <1>0, <1>3, <2>1 DEF StartTool, Types
<1>4. CASE StartSubshell(q)
  <2> DEFINE inp == ConnectedInp(q)
             out == ConnectedOut(q)
             redir == tree.prog[q]
             b == CASE redir = "in" -> Backup(q, <<inp, "r">>)
                    [] redir = "out" -> Backup(q, <<out, "w">>)
                    [] OTHER -> {}
             h == ConnectedHeld(q) \cup b
  <2>1. CASE Exit(q, 1)
    BY <1>0, <1>1, <1>4, <2>1 DEF StartSubshell, Types
  <2>2. CASE proc' = [proc EXCEPT ![q] =
                [@ EXCEPT !.ctl = "eval", !.at = Left(q),
                    !.inp = IF redir = "in" THEN 0 ELSE inp,
                    !.out = IF redir = "out" THEN 0 ELSE out,
                    !.held = h]]
    <3>1. Left(q) \in Nodes
      BY <1>4, <1>0, NextPlaces DEF StartSubshell, Running
    <3>2. h \in SUBSET End
      BY <1>2 DEF Backup, End
    <3> HIDE DEF h
    <3>3. proc' \in [Procs -> Record]
      BY <1>0, <1>2, <2>2, <3>1, <3>2 DEF Record
    <3> QED BY <1>0, <1>4, <3>3 DEF StartSubshell, Types
  <2> QED BY <1>4, <2>1, <2>2 DEF StartSubshell
<1>5. CASE Ends(q) \/ ReadsEof(q) \/ KilledBySigPipe(q)
  BY <1>0, <1>1, <1>5 DEF Ends, ReadsEof, KilledBySigPipe, Types
<1>6. CASE Copies(q) \/ Writes(q)
  BY <1>0, <1>6 DEF Copies, Writes, Types
<1> QED BY <1>3, <1>4, <1>5, <1>6 DEF StartStep, ToolStep

LEMMA TypesStep == Types /\ (\A p \in Procs : Place(p)) /\ [Next]_vars => Types'
<1> SUFFICES ASSUME Types, \A p \in Procs : Place(p), [Next]_vars
             PROVE  Types'
  OBVIOUS
<1>1. CASE UNCHANGED vars
  BY <1>1 DEF vars, Types
<1>2. CASE \E p \in Procs : ShellStep(p) \/ FaultStep(p)
  BY <1>2, ShellTypes, FaultTypes
<1>3. CASE \E q \in Nodes : StartStep(q) \/ ToolStep(q) \/ Writes(q)
  BY <1>3, NodeTypes DEF Procs
<1> QED BY <1>1, <1>2, <1>3 DEF Next, Finished

(***************************************************************************)
(* A pipeline that has an element has the next one too.                    *)
(***************************************************************************)
LEMMA NextIsBelow ==
    ASSUME tree \in Trees, NEW n \in Nodes, Kind(Up(n)) # "pipe",
           NEW m \in Below(n), m \in Nodes, IsElement(m), ~IsLast(m)
    PROVE  After(m) \in Below(n) /\ Up(After(m)) \in Below(n)
<1> DEFINE u == Up(m)
           w == Up(After(m))
<1>1. u \in Nodes /\ Kind(u) = "pipe"
  BY ElementFacts
<1>2. m # n
  BY <1>1
<1>3. u \in Below(n)
  BY <1>2, UpBelow
<1>4. /\ w \in Nodes /\ After(m) = Right(w) /\ After(m) \in Nodes
      /\ w = u \/ (w = Up(u) /\ Kind(w) = "pipe")
  BY NextElement
<1>5. w \in Below(n)
  <2>1. CASE w = u
    BY <1>3, <2>1
  <2>2. CASE w = Up(u) /\ Kind(w) = "pipe"
    <3>1. u # n
      BY <2>2
    <3> QED BY <1>3, <2>2, <3>1, UpBelow
  <2> QED BY <1>4, <2>1, <2>2
<1>6. After(m) \in Below(w)
  <2>1. After(m) # 0
    BY <1>4, PipelineAssumption DEF Nodes
  <2>2. After(m) \in Below(After(m)) /\ Below(Right(w)) \subseteq Below(w)
    BY <1>4, <2>1, BelowFacts
  <2> QED BY <1>4, <2>2
<1> QED BY <1>5, <1>6, BelowNests

LEMMA SamePlace ==
    ASSUME tree' = tree, NEW r \in Procs, proc'[r] = proc[r], Place(r)
    PROVE  Place(r)'
BY SameTree, SameElements DEF Place

LEMMA NotShellPlace ==
    ASSUME NEW r \in Procs, proc'[r].state # "shell"
    PROVE  Place(r)'
BY DEF Place

\* In all of these p is not at an element of a pipeline.
LEMMA ListPlace ==
    ASSUME Types, NEW p \in Procs, tree' = tree,
           proc'[p].state = "shell", proc'[p].ctl \in {"eval", "one", "first", "rest", "report", "value"},
           LET n == proc'[p].at
           IN level[n] = p /\ Kind(n) # "none" /\ Kind(Up(n)) # "pipe"
    PROVE  Place(p)'
BY SameTree, SameElements DEF Place

LEMMA PlaceStep ==
    ASSUME Types, \A p \in Procs : Place(p), StepShapes
    PROVE  \A p \in Procs : Place(p)'
<1>0. tree \in Trees /\ tree' = tree /\ \A q \in Procs : proc[q].at \in Nodes
  BY DEF StepShapes, Types, Record
<1>1. CASE proc' = proc
  BY <1>0, <1>1, SamePlace
<1>2. ASSUME NEW p \in Procs, ListShapes(p)
      PROVE  \A r \in Procs : Place(r)'
  <2> DEFINE n == proc[p].at
             m == proc[p].cur
  <2>0. proc[p].state = "shell" /\ proc[p].ctl # "start" /\ Untouched({p})
    BY <1>2 DEF ListShapes, Running, GoesOnWith
  <2>1. level[n] = p /\ Kind(n) # "none" /\ Kind(Up(n)) # "pipe" /\ n \in Nodes
    BY <1>0, <2>0 DEF Place
  <2> HIDE DEF n, m
  <2>2. Place(p)'
    <3>1. CASE /\ Running(p, "eval") /\ Kind(n) \in {"and", "or"}
               /\ GoesOnWith(p, "eval", Left(n), m, proc[p].held)
      BY <1>0, <2>0, <3>1, NextPlaces, ListPlace DEF GoesOnWith, Running, n
    <3>2. CASE /\ Running(p, "value") /\ n # Body(p)
               /\ \/ GoesOnWith(p, "eval", Right(Up(n)), m, proc[p].held)
                  \/ GoesOnWith(p, "value", Up(n), m, proc[p].held)
      <4>1. LET u == Up(n)
            IN /\ u \in Nodes /\ level[u] = p /\ Kind(u) \in {"and", "or"}
               /\ Kind(Up(u)) # "pipe"
               /\ LET r == Right(u)
                  IN r \in Nodes /\ level[r] = p /\ Kind(r) # "none" /\ Kind(Up(r)) # "pipe"
        BY <1>0, <2>0, <3>2, NextPlaces DEF Running, n
      <4> QED BY <1>0, <3>2, <4>1, ListPlace DEF GoesOnWith
    <3>3. CASE /\ Running(p, "eval") /\ Kind(n) = "pipe"
               /\ GoesOnWith(p, "down", n, n, proc[p].held)
      <4>1. n \in Below(n)
        BY <1>0, <2>1, BelowFacts
      <4> QED BY <1>0, <2>1, <3>3, <4>1, SameTree, SameElements DEF Place, GoesOnWith
    <3>4. CASE /\ Running(p, "down")
               /\ GoesOnWith(p, IF Kind(Left(m)) = "pipe" THEN "down" ELSE "add",
                             n, Left(m), proc[p].held)
      <4>1. m \in Nodes /\ level[m] = p /\ m \in Below(n) /\ Kind(m) = "pipe"
        BY <3>4 DEF Place, Running, n, m
      <4>2. /\ Left(m) \in Nodes /\ level[Left(m)] = p /\ Left(m) \in Below(m)
            /\ Kind(Left(m)) # "pipe" => IsElement(Left(m))
        BY <1>0, <4>1, LeftOfPipe
      <4>3. Left(m) \in Below(n)
        BY <1>0, <2>1, <4>1, <4>2, BelowNests
      <4> QED BY <1>0, <2>1, <3>4, <4>2, <4>3, SameTree, SameElements DEF Place, GoesOnWith
    <3>5. CASE /\ Running(p, "close") /\ IsLast(m)
               /\ GoesOnWith(p, "first", n, 0, proc[p].held \ NoLongerUsed(m))
      BY <1>0, <2>1, <3>5, ListPlace DEF GoesOnWith
    <3>6. CASE /\ Running(p, "close") /\ ~IsLast(m)
               /\ GoesOnWith(p, "add", n, After(m), proc[p].held \ NoLongerUsed(m))
      <4>1. m \in Nodes /\ level[m] = p /\ m \in Below(n) /\ IsElement(m)
        BY <3>6 DEF Place, Running, n, m
      <4>2. After(m) \in Nodes /\ level[After(m)] = p /\ IsElement(After(m))
        BY <1>0, <3>6, <4>1, NextElement
      <4>3. After(m) \in Below(n)
        BY <1>0, <2>1, <3>6, <4>1, NextIsBelow
      <4> QED BY <1>0, <2>1, <3>6, <4>2, <4>3, SameTree, SameElements DEF Place, GoesOnWith
    <3> QED BY <1>2, <3>1, <3>2, <3>3, <3>4, <3>5, <3>6 DEF ListShapes, n, m
  <2> QED BY <1>0, <2>0, <2>2, SamePlace DEF Untouched
<1>3. ASSUME NEW p \in Procs, WaitShapes(p)
      PROVE  \A r \in Procs : Place(r)'
  <2>0. /\ proc[p].state = "shell" /\ proc[p].ctl \in {"eval", "report", "rest", "one", "first"}
        /\ proc'[p].state = "shell" /\ proc'[p].at = proc[p].at
        /\ proc'[p].ctl \in {"value", "report", "rest"}
    BY <1>3 DEF WaitShapes, Running, Stays, GoesOnWith, Reaps
  <2>1. \A r \in Procs : r # p => proc'[r] = proc[r] \/ proc'[r].state # "shell"
    BY <1>3 DEF WaitShapes, Stays, GoesOnWith, Reaps, Untouched
  <2>2. Place(p)'
    BY <1>0, <2>0, ListPlace DEF Place
  <2> QED BY <1>0, <2>1, <2>2, SamePlace, NotShellPlace
<1>4. ASSUME NEW p \in Procs, ForkShapes(p)
      PROVE  \A r \in Procs : Place(r)'
  <2>0. proc[p].held \in SUBSET End
    BY DEF Types, Record
  <2>1. PICK q \in Nodes, c \in {"one", "close"}, h \in SUBSET End :
            /\ Makes(p, q, c, h) /\ Kind(q) \in {"cmd", "sub"} /\ level[q] = p
            /\ c = "one" => Running(p, "eval")
            /\ c = "close" => Running(p, "add")
    <3>1. CASE /\ Running(p, "eval") /\ Kind(proc[p].at) \in {"cmd", "sub"}
               /\ Makes(p, proc[p].at, "one", proc[p].held)
      BY <1>0, <2>0, <3>1 DEF Place, Running
    <3>2. CASE /\ Running(p, "add")
               /\ Makes(p, proc[p].cur, "close", proc[p].held \cup NewEnds(proc[p].cur))
      <4>1. proc[p].cur \in Nodes /\ level[proc[p].cur] = p /\ IsElement(proc[p].cur)
        BY <3>2 DEF Place, Running
      <4>2. Kind(proc[p].cur) \in {"cmd", "sub"}
        BY <1>0, <4>1, ElementFacts
      <4>3. proc[p].held \cup NewEnds(proc[p].cur) \in SUBSET End
        BY <2>0, <4>1 DEF NewEnds, End
      <4> QED BY <3>2, <4>1, <4>2, <4>3
    <3> QED BY <1>4, <3>1, <3>2 DEF ForkShapes
  <2>2. p # q
    BY <1>0, <2>1, LevelFacts, PipelineAssumption DEF Nodes
  <2>3. Place(q)'
    BY <1>0, <2>1, <2>2, SameTree DEF Place, Makes
  <2>4. Place(p)'
    BY <1>0, <2>1, <2>2, SameTree, SameElements DEF Place, Makes, Running
  <2> QED BY <1>0, <2>1, <2>3, <2>4, SamePlace DEF Makes, Untouched
<1>5. ASSUME NEW p \in Procs, EndShapes(p)
      PROVE  \A r \in Procs : Place(r)'
  BY <1>0, <1>5, SamePlace, NotShellPlace DEF EndShapes, EndsNow, Untouched
<1>6. ASSUME NEW p \in Procs, StartShapes(p)
      PROVE  \A r \in Procs : Place(r)'
  <2>1. CASE BecomesTool(p, ConnectedHeld(p))
    BY <1>0, <2>1, SamePlace, NotShellPlace DEF BecomesTool, Untouched
  <2>2. CASE /\ Running(p, "start") /\ Kind(p) = "sub"
             /\ \E h \in SUBSET End : GoesOnWith(p, "eval", Left(p), proc[p].cur, h)
    <3>1. LET l == Left(p)
          IN level[l] = p /\ Kind(l) # "none" /\ Kind(Up(l)) # "pipe"
      BY <2>2, NextPlaces DEF Running
    <3>2. Place(p)'
      BY <1>0, <2>2, <3>1, ListPlace DEF GoesOnWith
    <3> QED BY <1>0, <2>2, <3>2, SamePlace DEF GoesOnWith, Untouched
  <2> QED BY <1>6, <2>1, <2>2 DEF StartShapes
<1> QED BY <1>1, <1>2, <1>3, <1>4, <1>5, <1>6 DEF StepShapes

----------------------------------------------------------------------------
(* The ends of pipes. *)

(***************************************************************************)
(* What the subshells around a process keep, its children hold too.        *)
(***************************************************************************)
LEMMA BackupsInherited ==
    ASSUME tree \in Trees, NEW q \in Nodes
    PROVE  BackupsAround(level[q]) \subseteq BackupsAround(q)
<1> DEFINE p == level[q]
<1>1. p \in Procs /\ (p # Shell => p \in Nodes /\ Kind(p) = "sub" /\ q \in Below(Left(p)))
  BY LevelFacts
<1>2. \A s \in Nodes : Shell \notin Below(s)
  BY BelowFacts, PipelineAssumption DEF Shell, Nodes
<1> HIDE DEF p
<1>3. ASSUME p # Shell, NEW s \in Nodes, p \in Below(s)
      PROVE  q \in Below(s)
  <2>1. Left(p) # 0 /\ Below(Left(p)) \subseteq Below(p)
    BY <1>1, <1>3, TreeFacts, BelowFacts
  <2> QED BY <1>1, <1>3, <2>1, BelowNests
<1> QED BY <1>2, <1>3 DEF BackupsAround, p

LEMMA SameHolds ==
    ASSUME tree' = tree, NEW r \in Procs, proc'[r] = proc[r], HoldsOnly(r)
    PROVE  HoldsOnly(r)'
BY SameElements DEF HoldsOnly, Extra

LEMMA LessHeld ==
    ASSUME tree' = tree, NEW p \in Procs, proc'[p].held \subseteq BackupsAround(p)
    PROVE  HoldsOnly(p)'
BY SameElements DEF HoldsOnly

LEMMA ChildHolds ==
    ASSUME tree \in Trees, tree' = tree, NEW p \in Procs, NEW q \in Nodes, p # q, level[q] = p,
           NEW c, NEW h, Makes(p, q, c, h), HoldsOnly(p), proc[p].state = "shell",
           \/ c = "one" /\ proc[p].ctl = "eval" /\ h = proc[p].held
           \/ /\ c = "close" /\ proc[p].ctl = "add" /\ q = proc[p].cur /\ IsElement(q)
              /\ h = proc[p].held \cup NewEnds(q)
    PROVE  HoldsOnly(p)' /\ HoldsOnly(q)'
<1>0. BackupsAround(p) \subseteq BackupsAround(q)
  BY BackupsInherited
<1>1. proc'[p].held = h /\ proc'[q].held = h
  BY DEF Makes
<1>2. CASE c = "one" /\ proc[p].ctl = "eval" /\ h = proc[p].held
  <2>1. h \subseteq BackupsAround(p)
    BY <1>2 DEF HoldsOnly, Extra
  <2> QED BY <1>0, <1>1, <2>1, LessHeld DEF Procs
<1>3. CASE /\ c = "close" /\ proc[p].ctl = "add" /\ q = proc[p].cur /\ IsElement(q)
           /\ h = proc[p].held \cup NewEnds(q)
  <2>1. h \subseteq BackupsAround(p) \cup ({<<Before(q), "r">>} \cup NewEnds(q))
    BY <1>3 DEF HoldsOnly, Extra
  <2>2. /\ proc'[p].state = "shell" /\ proc'[p].ctl = "close" /\ proc'[p].cur = q
        /\ proc'[q].state = "shell" /\ proc'[q].ctl = "start"
    BY <1>3 DEF Makes
  <2>3. /\ Extra(p)' = {<<Before(q), "r">>} \cup NewEnds(q)
        /\ Extra(q)' = {<<Before(q), "r">>} \cup NewEnds(q)
    BY <1>3, <2>2, SameElements DEF Extra
  <2> QED BY <1>0, <1>1, <2>1, <2>3, SameElements DEF HoldsOnly
<1> QED BY <1>2, <1>3

LEMMA HoldsStep ==
    ASSUME Types, \A p \in Procs : Place(p) /\ HoldsOnly(p), StepShapes
    PROVE  \A p \in Procs : HoldsOnly(p)'
<1>0. tree \in Trees /\ tree' = tree
  BY DEF StepShapes, Types
<1>1. CASE proc' = proc
  BY <1>0, <1>1, SameHolds
<1>2. ASSUME NEW p \in Procs, ListShapes(p)
      PROVE  \A r \in Procs : HoldsOnly(r)'
  <2> DEFINE m == proc[p].cur
  <2>0. proc[p].state = "shell" /\ Untouched({p}) /\ proc'[p].state = "shell"
    BY <1>2 DEF ListShapes, Running, GoesOnWith
  <2>1. HoldsOnly(p)'
    <3>1. CASE proc[p].ctl \in {"eval", "value", "down"} /\ proc'[p].held = proc[p].held
      <4>1. proc[p].held \subseteq BackupsAround(p)
        BY <2>0, <3>1 DEF HoldsOnly, Extra
      <4> QED BY <1>0, <3>1, <4>1, LessHeld
    <3>2. CASE /\ Running(p, "close")
               /\ proc'[p].held = proc[p].held \ NoLongerUsed(m)
               /\ IsLast(m) \/ (proc'[p].ctl = "add" /\ proc'[p].cur = After(m))
      <4>1. m \in Nodes /\ IsElement(m)
        BY <3>2 DEF Place, Running
      <4>2. proc[p].held \subseteq BackupsAround(p) \cup {<<Before(m), "r">>} \cup NewEnds(m)
        BY <3>2 DEF HoldsOnly, Extra, Running
      <4>3. CASE IsLast(m)
        <5>1. proc'[p].held \subseteq BackupsAround(p)
          BY <3>2, <4>2, <4>3 DEF NewEnds, NoLongerUsed
        <5> QED BY <1>0, <5>1, LessHeld
      <4>4. CASE ~IsLast(m)
        <5>1. Before(After(m)) = m
          BY <1>0, <4>1, <4>4, NextElement
        <5>2. proc'[p].held \subseteq BackupsAround(p) \cup {<<m, "r">>}
          BY <3>2, <4>2, <4>4 DEF NewEnds, NoLongerUsed
        <5>3. Extra(p)' = {<<m, "r">>}
          BY <1>0, <2>0, <3>2, <4>4, <5>1, SameElements DEF Extra
        <5> QED BY <1>0, <5>2, <5>3, SameElements DEF HoldsOnly
      <4> QED BY <4>3, <4>4
    <3> QED BY <1>2, <3>1, <3>2 DEF ListShapes, GoesOnWith, Running
  <2> QED BY <1>0, <2>0, <2>1, SameHolds DEF Untouched
<1>3. ASSUME NEW p \in Procs, WaitShapes(p)
      PROVE  \A r \in Procs : HoldsOnly(r)'
  <2>0. /\ proc[p].state = "shell" /\ proc[p].ctl \in {"eval", "report", "rest", "one", "first"}
        /\ proc'[p].held = proc[p].held
    BY <1>3 DEF WaitShapes, Running, Stays, GoesOnWith, Reaps
  <2>1. \A r \in Procs : r # p => proc'[r] = proc[r] \/ proc'[r].state = "gone"
    BY <1>3 DEF WaitShapes, Stays, GoesOnWith, Reaps, Untouched
  <2>2. proc[p].held \subseteq BackupsAround(p)
    BY <2>0 DEF HoldsOnly, Extra
  <2>3. HoldsOnly(p)'
    BY <1>0, <2>0, <2>2, LessHeld
  <2>4. \A r \in Procs : proc'[r].state = "gone" => HoldsOnly(r)'
    BY DEF HoldsOnly
  <2> QED BY <1>0, <2>1, <2>3, <2>4, SameHolds
<1>4. ASSUME NEW p \in Procs, ForkShapes(p)
      PROVE  \A r \in Procs : HoldsOnly(r)'
  <2>1. proc[p].at \in Nodes /\ proc[p].state = "shell"
    BY <1>4 DEF ForkShapes, Running, Types, Record
  <2>2. CASE Running(p, "eval") /\ Makes(p, proc[p].at, "one", proc[p].held)
    <3>0. PICK q \in Nodes : q = proc[p].at
      BY <2>1
    <3>1. level[q] = p
      BY <2>1, <2>2, <3>0 DEF Place, Running
    <3>2. p # q
      BY <1>0, <3>1, LevelFacts, PipelineAssumption DEF Nodes
    <3>3. HoldsOnly(p)' /\ HoldsOnly(q)'
      BY <1>0, <2>1, <2>2, <3>0, <3>1, <3>2, ChildHolds DEF Running
    <3>4. \A r \in Procs : r # p /\ r # q => proc'[r] = proc[r]
      BY <2>2, <3>0 DEF Makes, Untouched
    <3>5. \A r \in Procs : r # p /\ r # q => HoldsOnly(r)'
      BY <1>0, <3>4, SameHolds
    <3> QED BY <3>3, <3>5
  <2>3. CASE /\ Running(p, "add")
             /\ Makes(p, proc[p].cur, "close", proc[p].held \cup NewEnds(proc[p].cur))
    <3>0. PICK q \in Nodes : q = proc[p].cur /\ level[q] = p /\ IsElement(q)
      BY <2>1, <2>3 DEF Place, Running
    <3>1. level[q] = p
      BY <3>0
    <3>2. p # q
      BY <1>0, <3>1, LevelFacts, PipelineAssumption DEF Nodes
    <3>3. HoldsOnly(p)' /\ HoldsOnly(q)'
      BY <1>0, <2>1, <2>3, <3>0, <3>1, <3>2, ChildHolds DEF Running
    <3>4. \A r \in Procs : r # p /\ r # q => proc'[r] = proc[r]
      BY <2>3, <3>0 DEF Makes, Untouched
    <3>5. \A r \in Procs : r # p /\ r # q => HoldsOnly(r)'
      BY <1>0, <3>4, SameHolds
    <3> QED BY <3>3, <3>5
  <2> QED BY <1>4, <2>2, <2>3 DEF ForkShapes
<1>5. ASSUME NEW p \in Procs, EndShapes(p)
      PROVE  \A r \in Procs : HoldsOnly(r)'
  <2>1. HoldsOnly(p)'
    BY <1>5 DEF EndShapes, EndsNow, HoldsOnly
  <2> QED BY <1>0, <1>5, <2>1, SameHolds DEF EndShapes, EndsNow, Untouched
<1>6. ASSUME NEW p \in Procs, StartShapes(p)
      PROVE  \A r \in Procs : HoldsOnly(r)'
  <2>1. Running(p, "start") /\ Untouched({p})
    BY <1>6 DEF StartShapes, BecomesTool, GoesOnWith
  <2>2. ConnectedHeld(p) \subseteq BackupsAround(p)
    BY <2>1 DEF HoldsOnly, Extra, Running, ConnectedHeld, NewEnds
  <2>3. proc'[p].held \subseteq BackupsAround(p)
    BY <1>6, <2>2 DEF StartShapes, BecomesTool, GoesOnWith
  <2> QED BY <1>0, <2>1, <2>3, LessHeld, SameHolds DEF Untouched
<1> QED BY <1>1, <1>2, <1>3, <1>4, <1>5, <1>6 DEF StepShapes

(***************************************************************************)
(* At first only the shell runs, at the root of the tree.                  *)
(***************************************************************************)
LEMMA RootFacts ==
    ASSUME tree \in Trees
    PROVE  Root \in Nodes /\ Up(Root) = 0 /\ level[Root] = Shell /\ Kind(Root) # "none"
<1>1. Root \in Nodes /\ Root # 0
  BY PipelineAssumption DEF Nodes, Root
<1>2. Up(Root) = 0
  <2>1. Up(Root) # 0 => Up(Root) < Root /\ Up(Root) \in Nodes
    BY <1>1, UpFacts
  <2> QED BY <2>1, PipelineAssumption DEF Nodes, Root
<1>3. Kind(Root) # "none"
  BY TreesAssumption DEF Kind, Root
<1> QED BY <1>1, <1>2, <1>3, LevelIs

LEMMA InitProc ==
    ASSUME Init
    PROVE  /\ tree \in Trees /\ faults = 0 /\ proc \in [Procs -> Record]
           /\ \A q \in Nodes : q # Shell /\ proc[q].state = "unborn"
           /\ Shell \in Procs /\ proc[Shell].state = "shell" /\ proc[Shell].ctl = "eval"
           /\ \A p \in Procs : proc[p].at = Root /\ proc[p].held = {}
<1>1. Nodes # {} /\ Root \in Nodes /\ 0 \notin Nodes
  BY PipelineAssumption DEF Nodes, Root
<1>2. Newborn \in Record /\ [Newborn EXCEPT !.state = "shell"] \in Record
  BY <1>1 DEF Newborn, Record, Procs, Status
<1> QED BY <1>1, <1>2 DEF Init, Procs, Shell, Newborn

(***************************************************************************)
(* What holds with any number of failing forks and interrupted waits.      *)
(***************************************************************************)
Held == Types /\ \A p \in Procs : Place(p) /\ HoldsOnly(p)

LEMMA HeldInit == Init => Held
<1> SUFFICES ASSUME Init PROVE Held
  OBVIOUS
<1>1. Types
  BY InitProc DEF Types
<1>2. ASSUME NEW p \in Procs
      PROVE  Place(p) /\ HoldsOnly(p)
  <2>1. CASE p = Shell
    <3>1. Kind(Up(Root)) # "pipe"
      BY <1>1, RootFacts DEF Types, Kind
    <3> QED BY <1>1, <2>1, <3>1, InitProc, RootFacts DEF Place, HoldsOnly, Types
  <2>2. CASE p \in Nodes
    BY <2>2, InitProc DEF Place, HoldsOnly
  <2> QED BY <2>1, <2>2 DEF Procs
<1> QED BY <1>1, <1>2 DEF Held

LEMMA HeldStep == Held /\ [Next]_vars => Held'
<1> SUFFICES ASSUME Held, [Next]_vars PROVE Held'
  OBVIOUS
<1>1. StepShapes
  BY StepsHaveShapes DEF Held
<1>2. Types'
  BY TypesStep DEF Held
<1>3. \A p \in Procs : Place(p)'
  BY <1>1, PlaceStep DEF Held
<1>4. \A p \in Procs : HoldsOnly(p)'
  BY <1>1, HoldsStep DEF Held
<1>5. Procs' = Procs
  BY DEF Procs, Nodes
<1> QED BY <1>2, <1>3, <1>4, <1>5 DEF Held

(***************************************************************************)
(* The processes are what the code makes of them, and each that runs the   *)
(* shell is at a node of its own list (__exec, exec_pipe).                 *)
(***************************************************************************)
THEOREM HeldInvariant == Spec => []Held
BY HeldInit, HeldStep, PTL DEF Spec

(***************************************************************************)
(* Pipes in parent and children (exec_pipe, exec_piped_cmd, exec_sub): a   *)
(* command runs with no end of a pipe but its input and output, and the    *)
(* shell waits with none, unless a subshell around it keeps the one that   *)
(* it has redirected.                                                      *)
(***************************************************************************)
THEOREM NoStrayEndsCorrect == Spec => []NoStrayEnds
<1>1. Held => NoStrayEnds
  <2> SUFFICES ASSUME Held, NEW p \in Procs,
                      \/ proc[p].state = "tool"
                      \/ proc[p].state = "shell" /\ proc[p].ctl \in {"eval", "one", "first",
                                                           "rest", "report", "value"}
               PROVE  proc[p].held \subseteq BackupsAround(p)
    BY DEF NoStrayEnds
  <2> QED BY DEF Held, HoldsOnly, Extra
<1> QED BY <1>1, HeldInvariant, PTL

----------------------------------------------------------------------------
(* Parents and children. *)

Linked(r) == proc[r].state \in {"shell", "tool", "zombie"}

LEMMA ChildrenAre ==
    \A x : Children(x) = {q \in Nodes : proc[q].parent = x /\ Linked(q)}
BY DEF Children, Alive, Linked

\* Nobody gets a parent, or comes to life.
NoBirth ==
    \A r \in Procs : \/ proc'[r] = proc[r]
                     \/ proc'[r].parent = proc[r].parent /\ Linked(r)
                     \/ proc'[r].state = "gone"

LEMMA NoBirthShapes ==
    ASSUME NEW p \in Procs,
           ListShapes(p) \/ WaitShapes(p) \/ EndShapes(p) \/ StartShapes(p)
    PROVE  NoBirth
<1>1. CASE ListShapes(p)
  BY <1>1 DEF ListShapes, GoesOnWith, Untouched, NoBirth, Linked, Running
<1>2. CASE WaitShapes(p)
  BY <1>2 DEF WaitShapes, Stays, Reaps, GoesOnWith, Untouched, NoBirth, Linked, Running
<1>3. CASE EndShapes(p)
  BY <1>3 DEF EndShapes, EndsNow, Untouched, NoBirth, Linked, Running
<1>4. CASE StartShapes(p)
  BY <1>4 DEF StartShapes, BecomesTool, GoesOnWith, Untouched, NoBirth, Linked, Running
<1> QED BY <1>1, <1>2, <1>3, <1>4

LEMMA NoMoreChildren ==
    ASSUME NoBirth, NEW x
    PROVE  Children(x)' \subseteq Children(x)
<1>1. Children(x)' = {q \in Nodes : proc'[q].parent = x /\ Linked(q)'}
  BY DEF Children, Alive, Linked, Nodes
<1>2. Children(x) = {q \in Nodes : proc[q].parent = x /\ Linked(q)}
  BY ChildrenAre
<1> QED BY <1>1, <1>2 DEF NoBirth, Linked, Procs

LEMMA OneMoreChild ==
    ASSUME NEW p \in Procs, NEW q \in Nodes, p # q, NEW c, NEW h, Makes(p, q, c, h),
           proc[p].state = "shell", NEW x
    PROVE  Children(x)' \subseteq Children(x) \cup (IF x = p THEN {q} ELSE {})
<1>1. Children(x)' = {r \in Nodes : proc'[r].parent = x /\ Linked(r)'}
  BY DEF Children, Alive, Linked, Nodes
<1>2. Children(x) = {r \in Nodes : proc[r].parent = x /\ Linked(r)}
  BY ChildrenAre
<1>3. proc'[q].parent = p /\ proc'[p].parent = proc[p].parent /\ Linked(p)
  BY DEF Makes, Linked
<1>4. \A r \in Nodes : r # p /\ r # q => proc'[r] = proc[r]
  BY DEF Makes, Untouched, Procs
<1> QED BY <1>1, <1>2, <1>3, <1>4 DEF Linked

(***************************************************************************)
(* The elements of a pipeline are started in their order.                  *)
(***************************************************************************)
LEMMA StartedNext ==
    ASSUME tree \in Trees, NEW m \in Nodes, IsElement(m), ~IsLast(m),
           NEW e \in Nodes, StartedBefore(e, m) \/ e = m
    PROVE  StartedBefore(e, After(m))
<1> DEFINE a == After(m)
<1>1. \/ Up(a) = Up(m) /\ IsFirst(m)
      \/ Up(a) < Up(m)
  BY NextElement
<1>2. ~IsFirst(a) /\ Up(a) \in Nodes /\ Up(m) \in Nodes
  BY NextElement, ElementFacts
<1>3. Up(e) \in {0} \cup Nodes /\ Nodes \subseteq Nat
  BY UpFacts, PipelineAssumption DEF Nodes
<1> HIDE DEF a
<1>4. Up(e) \in Nat /\ Up(m) \in Nat /\ Up(a) \in Nat
  <2>1. 0 \in Nat
    OBVIOUS
  <2> QED BY <1>2, <1>3, <2>1
<1>5. StartedBefore(e, a)
  BY <1>1, <1>2, <1>4 DEF StartedBefore
<1> QED BY <1>5 DEF a

LEMMA NotBeforeItself == \A m \in Nodes : tree \in Trees => ~StartedBefore(m, m)
<1> SUFFICES ASSUME NEW m \in Nodes, tree \in Trees PROVE ~StartedBefore(m, m)
  OBVIOUS
<1>1. Up(m) \in Nat
  BY UpFacts, PipelineAssumption DEF Nodes
<1> QED BY <1>1 DEF StartedBefore

LEMMA SameStarted ==
    ASSUME tree' = tree
    PROVE  \A e, m : StartedBefore(e, m)' <=> StartedBefore(e, m)
BY SameTree, SameElements DEF StartedBefore

LEMMA SameFamily ==
    ASSUME tree' = tree, NEW r \in Procs, Family(r), proc'[r] = proc[r],
           Children(r)' \subseteq Children(r)
    PROVE  Family(r)'
<1>1. \A e, m : StartedBefore(e, m)' <=> StartedBefore(e, m)
  BY SameStarted
<1> QED BY <1>1 DEF Family

LEMMA NoFamily ==
    ASSUME NEW r, Children(r)' = {}
    PROVE  Family(r)'
BY DEF Family

LEMMA ListFamily ==
    ASSUME Types, NEW p \in Procs, Place(p), Family(p), tree' = tree, ListShapes(p)
    PROVE  Family(p)'
<1> DEFINE m == proc[p].cur
<1>0. Children(p)' \subseteq Children(p) /\ tree \in Trees
  BY NoBirthShapes, NoMoreChildren DEF Types
<1>1. CASE proc[p].state = "shell" /\ proc[p].ctl \in {"eval", "value", "down"}
  <2>1. Children(p) = {}
    BY <1>1 DEF Family
  <2> QED BY <1>0, <2>1, NoFamily
<1>2. CASE Running(p, "close") /\ proc'[p].state = "shell" /\ proc'[p].ctl = "first"
  BY <1>2 DEF Family
<1>3. CASE /\ Running(p, "close") /\ ~IsLast(m)
           /\ proc'[p].state = "shell" /\ proc'[p].ctl = "add" /\ proc'[p].cur = After(m)
  <2>1. m \in Nodes /\ IsElement(m)
    BY <1>3 DEF Place, Running
  <2>2. \A e \in Children(p) : e \in Nodes /\ (StartedBefore(e, m) \/ e = m)
    BY <1>3 DEF Family, Running, Children
  <2> HIDE DEF m
  <2>3. \A e \in Children(p) : StartedBefore(e, After(m))
    BY <1>0, <1>3, <2>1, <2>2, StartedNext
  <2>4. (\A e \in Children(p) : StartedBefore(e, proc[p].cur))'
    <3>1. \A e \in Children(p)' : StartedBefore(e, After(m))
      BY <1>0, <2>3
    <3> QED BY <1>3, <3>1, SameStarted
  <2>5. (proc[p].state = "shell" /\ proc[p].ctl = "add")'
    BY <1>3
  <2> QED BY <2>4, <2>5 DEF Family
<1> QED BY <1>1, <1>2, <1>3 DEF ListShapes, GoesOnWith, Running

LEMMA WaitFamily ==
    ASSUME Types, NEW p \in Procs, Family(p), faults' = 0, WaitShapes(p)
    PROVE  Family(p)'
<1>0. Children(p)' \subseteq Children(p)
  BY NoBirthShapes, NoMoreChildren
<1>1. CASE proc[p].state = "shell" /\ (proc[p].ctl \in {"eval", "report"} \/ Children(p) = {})
  <2>1. Children(p) = {}
    BY <1>1 DEF Family
  <2> QED BY <1>0, <2>1, NoFamily
<1>2. CASE Running(p, "one") /\ proc'[proc[p].at].state = "gone"
  <2>1. Children(p) \subseteq {proc[p].at}
    BY <1>2 DEF Family, Running
  <2>2. \A q \in Children(p)' : proc'[q].state # "gone"
    BY DEF Children, Alive
  <2>3. Children(p)' = {}
    BY <1>0, <1>2, <2>1, <2>2
  <2> QED BY <2>3, NoFamily
<1>3. CASE proc'[p].state = "shell" /\ proc'[p].ctl = "rest"
  BY <1>3 DEF Family
<1> QED BY <1>1, <1>2, <1>3 DEF WaitShapes, Stays, Reaps, GoesOnWith, Running

LEMMA ForkFamily ==
    ASSUME Types, NEW p \in Procs, NEW q \in Nodes, p # q, level[q] = p,
           NEW c, NEW h, Makes(p, q, c, h), tree' = tree,
           Family(p), Family(q), OwnParent(q), proc[p].state = "shell",
           \/ c = "one" /\ proc[p].ctl = "eval" /\ q = proc[p].at
           \/ c = "close" /\ proc[p].ctl = "add" /\ q = proc[p].cur
    PROVE  Family(p)' /\ Family(q)'
<1>0. tree \in Trees
  BY DEF Types
<1>1. q \notin Children(p)
  BY <1>0, NotBeforeItself DEF Family
<1>2. proc[q].state # "shell"
  BY <1>1 DEF Children, Alive, OwnParent, Unborn
<1>3. Children(q)' = {}
  BY <1>2, OneMoreChild DEF Family
<1>4. Children(p)' \subseteq Children(p) \cup {q}
  BY OneMoreChild
<1>5. /\ proc'[p].state = "shell" /\ proc'[p].ctl = c
      /\ proc'[p].at = proc[p].at /\ proc'[p].cur = proc[p].cur
  BY DEF Makes
<1>6. CASE c = "one"
  <2>1. Children(p)' \subseteq {proc'[p].at}
    BY <1>4, <1>5, <1>6 DEF Family
  <2> QED BY <1>3, <1>5, <1>6, <2>1, NoFamily DEF Family
<1>7. CASE c = "close"
  <2>1. \A e \in Children(p)' : StartedBefore(e, proc[p].cur) \/ e = proc[p].cur
    BY <1>4, <1>7 DEF Family
  <2>2. (\A e \in Children(p) : StartedBefore(e, proc[p].cur) \/ e = proc[p].cur)'
    BY <1>5, <2>1, SameStarted
  <2> QED BY <1>3, <1>5, <1>7, <2>2, NoFamily DEF Family
<1> QED BY <1>6, <1>7

LEMMA OwnParentKept ==
    ASSUME tree' = tree, NEW r \in Procs, OwnParent(r),
           \/ proc'[r] = proc[r]
           \/ proc'[r].parent = proc[r].parent /\ ~Unborn(r)
           \/ r \in Nodes /\ proc'[r].parent = level[r]
    PROVE  OwnParent(r)'
BY SameTree DEF OwnParent, Unborn, Nodes

LEMMA NoBirthParents ==
    ASSUME NEW p \in Procs,
           ListShapes(p) \/ WaitShapes(p) \/ EndShapes(p) \/ StartShapes(p)
    PROVE  \A r \in Procs : proc'[r] = proc[r] \/ (proc'[r].parent = proc[r].parent /\ ~Unborn(r))
<1>1. CASE ListShapes(p)
  BY <1>1 DEF ListShapes, GoesOnWith, Untouched, Unborn, Running
<1>2. CASE WaitShapes(p)
  BY <1>2 DEF WaitShapes, Stays, Reaps, GoesOnWith, Untouched, Unborn, Running, Zombies
<1>3. CASE EndShapes(p)
  BY <1>3 DEF EndShapes, EndsNow, Untouched, Unborn, Running
<1>4. CASE StartShapes(p)
  BY <1>4 DEF StartShapes, BecomesTool, GoesOnWith, Untouched, Unborn, Running
<1> QED BY <1>1, <1>2, <1>3, <1>4

\* A fork, with the two processes and the node that both stand at.
ForkIs(p, q, c, h) ==
    /\ p # q /\ level[q] = p /\ proc[p].state = "shell" /\ Makes(p, q, c, h)
    /\ \/ c = "one" /\ proc[p].ctl = "eval" /\ q = proc[p].at
       \/ c = "close" /\ proc[p].ctl = "add" /\ q = proc[p].cur

LEMMA ForkWho ==
    ASSUME Types, NEW p \in Procs, Place(p), ForkShapes(p)
    PROVE  \E q \in Nodes, c \in {"one", "close"}, h \in SUBSET End : ForkIs(p, q, c, h)
<1>0. tree \in Trees /\ proc[p].held \in SUBSET End /\ proc[p].at \in Nodes
  BY DEF Types, Record
<1>1. CASE Running(p, "eval") /\ Makes(p, proc[p].at, "one", proc[p].held)
  <2>1. level[proc[p].at] = p
    BY <1>1 DEF Place, Running
  <2>2. p # proc[p].at
    BY <1>0, <2>1, LevelFacts, PipelineAssumption DEF Nodes
  <2>3. ForkIs(p, proc[p].at, "one", proc[p].held)
    BY <1>1, <2>1, <2>2 DEF ForkIs, Running
  <2> QED BY <1>0, <2>3
<1>2. CASE /\ Running(p, "add")
           /\ Makes(p, proc[p].cur, "close", proc[p].held \cup NewEnds(proc[p].cur))
  <2>1. level[proc[p].cur] = p /\ proc[p].cur \in Nodes
    BY <1>2 DEF Place, Running
  <2>2. p # proc[p].cur
    BY <1>0, <2>1, LevelFacts, PipelineAssumption DEF Nodes
  <2>3. ForkIs(p, proc[p].cur, "close", proc[p].held \cup NewEnds(proc[p].cur))
    BY <1>2, <2>1, <2>2 DEF ForkIs, Running
  <2>4. proc[p].held \cup NewEnds(proc[p].cur) \in SUBSET End
    BY <1>0, <2>1 DEF NewEnds, End
  <2> QED BY <2>1, <2>3, <2>4
<1> QED BY <1>1, <1>2 DEF ForkShapes

LEMMA OwnParentStep ==
    ASSUME Types, \A p \in Procs : Place(p) /\ OwnParent(p), StepShapes
    PROVE  \A p \in Procs : OwnParent(p)'
<1>0. tree' = tree
  BY DEF StepShapes
<1>1. CASE proc' = proc
  BY <1>0, <1>1, OwnParentKept
<1>2. ASSUME NEW p \in Procs,
             ListShapes(p) \/ WaitShapes(p) \/ EndShapes(p) \/ StartShapes(p)
      PROVE  \A r \in Procs : OwnParent(r)'
  <2>1. \A r \in Procs : proc'[r] = proc[r] \/ (proc'[r].parent = proc[r].parent /\ ~Unborn(r))
    BY <1>2, NoBirthParents
  <2> QED BY <1>0, <2>1, OwnParentKept
<1>3. ASSUME NEW p \in Procs, ForkShapes(p)
      PROVE  \A r \in Procs : OwnParent(r)'
  <2>1. PICK q \in Nodes, c \in {"one", "close"}, h \in SUBSET End : ForkIs(p, q, c, h)
    BY <1>3, ForkWho
  <2>2. /\ proc'[q].parent = level[q] /\ proc'[p].parent = proc[p].parent /\ ~Unborn(p)
        /\ \A r \in Procs : r # p /\ r # q => proc'[r] = proc[r]
    BY <2>1 DEF ForkIs, Makes, Untouched, Unborn
  <2> QED BY <1>0, <2>2, OwnParentKept
<1> QED BY <1>1, <1>2, <1>3 DEF StepShapes

LEMMA FamilyStep ==
    ASSUME Types, \A p \in Procs : Place(p) /\ OwnParent(p) /\ Family(p), StepShapes, faults' = 0
    PROVE  \A p \in Procs : Family(p)'
<1>0. tree \in Trees /\ tree' = tree
  BY DEF StepShapes, Types
<1>1. CASE proc' = proc
  <2>1. NoBirth
    BY <1>1 DEF NoBirth
  <2>2. \A r \in Procs : Children(r)' \subseteq Children(r)
    BY <2>1, NoMoreChildren
  <2> QED BY <1>0, <1>1, <2>2, SameFamily
<1>2. ASSUME NEW p \in Procs, ListShapes(p)
      PROVE  \A r \in Procs : Family(r)'
  <2>1. \A r \in Procs : Children(r)' \subseteq Children(r)
    BY <1>2, NoBirthShapes, NoMoreChildren
  <2>2. Family(p)'
    BY <1>0, <1>2, ListFamily
  <2>3. \A r \in Procs : r # p => proc'[r] = proc[r]
    BY <1>2 DEF ListShapes, GoesOnWith, Untouched
  <2> QED BY <1>0, <2>1, <2>2, <2>3, SameFamily
<1>3. ASSUME NEW p \in Procs, WaitShapes(p)
      PROVE  \A r \in Procs : Family(r)'
  <2>1. \A r \in Procs : Children(r)' \subseteq Children(r)
    BY <1>3, NoBirthShapes, NoMoreChildren
  <2>2. Family(p)'
    BY <1>3, WaitFamily
  <2>3. \A r \in Procs : r # p => proc'[r] = proc[r] \/ proc[r].state = "zombie"
    BY <1>3 DEF WaitShapes, Stays, Reaps, GoesOnWith, Untouched, Zombies
  <2>4. \A r \in Procs : proc[r].state = "zombie" => Children(r)' = {}
    BY <2>1 DEF Family
  <2> QED BY <1>0, <2>1, <2>2, <2>3, <2>4, SameFamily, NoFamily
<1>4. ASSUME NEW p \in Procs, ForkShapes(p)
      PROVE  \A r \in Procs : Family(r)'
  <2>1. PICK q \in Nodes, c \in {"one", "close"}, h \in SUBSET End : ForkIs(p, q, c, h)
    BY <1>4, ForkWho
  <2>2. /\ Makes(p, q, c, h) /\ p # q /\ q \in Procs /\ proc[p].state = "shell"
        /\ \A r \in Procs : r # p /\ r # q => proc'[r] = proc[r]
    BY <2>1 DEF ForkIs, Makes, Untouched, Procs
  <2>3. Family(p)' /\ Family(q)'
    BY <1>0, <2>1, <2>2, ForkFamily DEF ForkIs
  <2>4. \A r \in Procs : r # p => Children(r)' \subseteq Children(r)
    BY <2>2, OneMoreChild
  <2> QED BY <1>0, <2>2, <2>3, <2>4, SameFamily
<1>5. ASSUME NEW p \in Procs, EndShapes(p) \/ StartShapes(p)
      PROVE  \A r \in Procs : Family(r)'
  <2>1. \A r \in Procs : Children(r)' \subseteq Children(r)
    BY <1>5, NoBirthShapes, NoMoreChildren
  <2>2. proc[p].state = "tool" \/ proc[p].ctl \in {"eval", "value", "report", "start"}
    BY <1>5 DEF EndShapes, StartShapes, Running
  <2>3. Family(p)'
    BY <2>1, <2>2, NoFamily DEF Family
  <2>4. \A r \in Procs : r # p => proc'[r] = proc[r]
    BY <1>5 DEF EndShapes, EndsNow, StartShapes, BecomesTool, GoesOnWith, Untouched
  <2> QED BY <1>0, <2>1, <2>3, <2>4, SameFamily
<1> QED BY <1>1, <1>2, <1>3, <1>4, <1>5 DEF StepShapes

(***************************************************************************)
(* A process has been forked by the one whose list it is on; as long as no *)
(* fork failed and no wait was interrupted, its parent knows what to wait  *)
(* for.                                                                    *)
(***************************************************************************)
Kin == \A p \in Procs : OwnParent(p) /\ (faults = 0 => Family(p))

LEMMA KinInit == Init => Kin
<1> SUFFICES ASSUME Init PROVE Kin
  OBVIOUS
<1>1. \A p \in Procs : Children(p) = {}
  BY InitProc DEF Children, Alive
<1> QED BY <1>1, InitProc DEF Kin, OwnParent, Unborn, Family

LEMMA KinStep == Held /\ Kin /\ [Next]_vars => Kin'
<1> SUFFICES ASSUME Held, Kin, [Next]_vars PROVE Kin'
  OBVIOUS
<1>1. StepShapes /\ Types /\ \A p \in Procs : Place(p) /\ OwnParent(p)
  BY StepsHaveShapes DEF Held, Kin
<1>2. \A p \in Procs : OwnParent(p)'
  BY <1>1, OwnParentStep
<1>3. ASSUME faults' = 0
      PROVE  \A p \in Procs : Family(p)'
  <2>1. faults = 0
    BY <1>1, <1>3 DEF StepShapes
  <2> QED BY <1>1, <1>3, <2>1, FamilyStep DEF Kin
<1>4. Procs' = Procs
  BY DEF Procs, Nodes
<1> QED BY <1>2, <1>3, <1>4 DEF Kin

THEOREM KinInvariant == Spec => []Kin
BY HeldInvariant, KinInit, KinStep, PTL DEF Spec

(***************************************************************************)
(* Waiting for children (exec_cmd, exec_sub, exec_pipe): a process that    *)
(* evaluates a node, and one that has ended, has no child left, so that    *)
(* the waitpid(0) of a pipeline gets children of that pipeline only.       *)
(***************************************************************************)
THEOREM NoChildLeftBehindCorrect == Spec => []NoChildLeftBehind
<1>1. Kin => NoChildLeftBehind
  BY DEF Kin, NoChildLeftBehind, Family
<1> QED BY <1>1, KinInvariant, PTL

----------------------------------------------------------------------------
(* Ahead and behind. *)

(***************************************************************************)
(* exec_and_or and exec_pipe go down to the left, ...                      *)
(***************************************************************************)
LEMMA WayDown ==
    ASSUME tree \in Trees, NEW n \in Nodes, Left(n) # 0, NEW u \in Nodes
    PROVE  /\ Left(n) \in Nodes
           /\ Left(n) \in Below(Left(u)) => u = n \/ n \in Below(Left(u))
           /\ Left(n) \in Below(Right(u)) => n \in Below(Right(u))
<1> DEFINE l == Left(n)
<1>1. l \in Nodes /\ Up(l) = n /\ l # Right(n) /\ Below(0) = {}
  BY TreeFacts, ParentOfChild, BelowIs
<1>2. Left(u) \in {0} \cup Nodes /\ Right(u) \in {0} \cup Nodes
  BY TreeFacts
<1>3. ASSUME l \in Below(Left(u)), u # n
      PROVE  n \in Below(Left(u))
  <2>1. Left(u) \in Nodes /\ l # Left(u)
    BY <1>1, <1>2, <1>3, ParentOfChild
  <2> QED BY <1>1, <1>3, <2>1, UpBelow
<1>4. ASSUME l \in Below(Right(u))
      PROVE  n \in Below(Right(u))
  <2>1. Right(u) \in Nodes /\ l # Right(u)
    BY <1>1, <1>2, <1>4, ParentOfChild
  <2> QED BY <1>1, <1>4, <2>1, UpBelow
<1> QED BY <1>1, <1>3, <1>4

(***************************************************************************)
(* ... from a left side over to the right side, ...                        *)
(***************************************************************************)
LEMMA WayOver ==
    ASSUME tree \in Trees, NEW w \in Nodes, Left(w) # 0, Right(w) # 0,
           NEW n \in Below(Left(w)), NEW u \in Nodes
    PROVE  /\ Right(w) \in Nodes
           /\ Right(w) \in Below(Left(u)) => n \in Below(Left(u))
           /\ Right(w) \in Below(Right(u)) => u = w \/ n \in Below(Right(u))
<1> DEFINE r == Right(w)
<1>1. r \in Nodes /\ Up(r) = w /\ Left(w) # r /\ Left(w) \in Nodes /\ Below(0) = {}
  BY TreeFacts, ParentOfChild, BelowIs
<1>2. Left(u) \in {0} \cup Nodes /\ Right(u) \in {0} \cup Nodes
  BY TreeFacts
<1>3. r \in Below(r) /\ n \in Below(w)
  BY <1>1, BelowFacts
<1>4. ASSUME NEW x \in {Left(u), Right(u)}, r \in Below(x), r # x
      PROVE  n \in Below(x)
  <2>1. x \in Nodes
    BY <1>1, <1>2, <1>4
  <2>2. w \in Below(x)
    BY <1>1, <1>4, <2>1, UpBelow
  <2> QED BY <1>3, <2>1, <2>2, BelowNests
<1>5. r = Left(u) => FALSE
  <2>1. r = Left(u) => u = w
    BY <1>1, ParentOfChild, PipelineAssumption DEF Nodes
  <2> QED BY <1>1, <2>1
<1>6. r = Right(u) => u = w
  BY <1>1, ParentOfChild, PipelineAssumption DEF Nodes
<1> QED BY <1>1, <1>4, <1>5, <1>6

(***************************************************************************)
(* ... and up again.                                                       *)
(***************************************************************************)
LEMMA WayUp ==
    ASSUME tree \in Trees, NEW n, NEW m \in Below(n), NEW u \in Nodes
    PROVE  /\ n \in Below(Left(u)) => m \in Below(Left(u))
           /\ n \in Below(Right(u)) => m \in Below(Right(u))
<1>1. Left(u) \in {0} \cup Nodes /\ Right(u) \in {0} \cup Nodes /\ Below(0) = {}
  BY TreeFacts, BelowIs
<1>2. ASSUME NEW x \in {Left(u), Right(u)}, n \in Below(x)
      PROVE  m \in Below(x)
  <2>1. x \in Nodes
    BY <1>1, <1>2
  <2> QED BY <1>2, <2>1, BelowNests
<1> QED BY <1>2

(***************************************************************************)
(* The body of a subshell is not inside of what its process executes.      *)
(***************************************************************************)
LEMMA WayIn ==
    ASSUME tree \in Trees, NEW p \in Nodes, Left(p) # 0, NEW u \in Nodes, level[u] = p
    PROVE  Left(p) \notin Below(Left(u)) /\ Left(p) \notin Below(Right(u))
<1>0. Nodes \subseteq Nat /\ 0 \notin Nodes
  BY PipelineAssumption DEF Nodes
<1>1. u # p /\ u \in Below(Left(p)) /\ Left(p) \in Nodes /\ Left(p) > p
  BY LevelFacts, TreeFacts, <1>0 DEF Shell
<1>2. Left(p) <= u
  BY <1>1, BelowFacts
<1>3. Below(0) = {} /\ Left(u) \in {0} \cup Nodes /\ Right(u) \in {0} \cup Nodes
  BY TreeFacts, BelowIs
<1>4. ASSUME NEW x \in {Left(u), Right(u)}, Left(p) \in Below(x)
      PROVE  FALSE
  <2>1. x \in Nodes
    BY <1>3, <1>4
  <2>2. x > u
    BY <1>0, <1>4, <2>1, TreeFacts
  <2>3. x <= Left(p)
    BY <1>4, <2>1, BelowFacts
  <2>4. x \in Nat /\ u \in Nat /\ Left(p) \in Nat
    BY <1>0, <1>1, <2>1
  <2> QED BY <1>2, <2>2, <2>3, <2>4
<1> QED BY <1>4

(***************************************************************************)
(* The same for what is unborn ahead, and over behind.                     *)
(***************************************************************************)
LEMMA DownFresh ==
    ASSUME tree \in Trees, NEW p, NEW n \in Nodes, Left(n) # 0,
           AllUnborn(n), AheadUnborn(p, n)
    PROVE  AllUnborn(Left(n)) /\ AheadUnborn(p, Left(n))
<1>1. AllUnborn(Left(n))
  BY BelowFacts DEF AllUnborn
<1>2. AllUnborn(Right(n))
  <2>1. Right(n) \in {0} \cup Nodes /\ Below(0) = {}
    BY TreeFacts, BelowIs
  <2> QED BY <2>1, BelowFacts DEF AllUnborn
<1>3. \A u \in Nodes : Left(n) \in Below(Left(u)) => u = n \/ n \in Below(Left(u))
  BY WayDown
<1> QED BY <1>1, <1>2, <1>3 DEF AheadUnborn

LEMMA OverFresh ==
    ASSUME tree \in Trees, NEW p, NEW w \in Nodes, level[w] = p, Left(w) # 0, Right(w) # 0,
           NEW n \in Below(Left(w)), AheadUnborn(p, n)
    PROVE  AllUnborn(Right(w)) /\ AheadUnborn(p, Right(w))
<1>1. \A u \in Nodes : Right(w) \in Below(Left(u)) => n \in Below(Left(u))
  BY WayOver
<1> QED BY <1>1 DEF AheadUnborn

LEMMA UpFresh ==
    ASSUME tree \in Trees, NEW p, NEW n, NEW m \in Below(n), AheadUnborn(p, m)
    PROVE  AheadUnborn(p, n)
<1>1. \A u \in Nodes : n \in Below(Left(u)) => m \in Below(Left(u))
  BY WayUp
<1> QED BY <1>1 DEF AheadUnborn

LEMMA InFresh ==
    ASSUME tree \in Trees, NEW p \in Nodes, Left(p) # 0
    PROVE  AheadUnborn(p, Left(p)) /\ BehindOver(p, Left(p))
BY WayIn DEF AheadUnborn, BehindOver

LEMMA DownPassed ==
    ASSUME tree \in Trees, NEW p, NEW n \in Nodes, Left(n) # 0, BehindOver(p, n)
    PROVE  BehindOver(p, Left(n))
<1>1. \A u \in Nodes : Left(n) \in Below(Right(u)) => n \in Below(Right(u))
  BY WayDown
<1> QED BY <1>1 DEF BehindOver

LEMMA OverPassed ==
    ASSUME tree \in Trees, NEW p, NEW w \in Nodes, Left(w) # 0, Right(w) # 0,
           NEW n \in Below(Left(w)), BehindOver(p, n),
           Kind(w) \in {"and", "or"} => AllOver(Left(w))
    PROVE  BehindOver(p, Right(w))
<1>1. \A u \in Nodes : Right(w) \in Below(Right(u)) => u = w \/ n \in Below(Right(u))
  BY WayOver
<1> QED BY <1>1 DEF BehindOver

LEMMA UpPassed ==
    ASSUME tree \in Trees, NEW p, NEW n, NEW m \in Below(n), BehindOver(p, m)
    PROVE  BehindOver(p, n)
<1>1. \A u \in Nodes : n \in Below(Right(u)) => m \in Below(Right(u))
  BY WayUp
<1> QED BY <1>1 DEF BehindOver

(***************************************************************************)
(* A process that goes on goes down, over or up.                           *)
(***************************************************************************)
GoesDown(p, n, k) == proc[p].ctl \in {"eval", "down"} /\ Left(n) # 0 /\ k = Left(n)

GoesOver(p, n, k) ==
    \E w \in Nodes : /\ level[w] = p /\ Left(w) # 0 /\ Right(w) # 0
                     /\ n \in Below(Left(w)) /\ k = Right(w)
                     /\ Kind(w) \in {"and", "or"} => n = Left(w) /\ proc[p].ctl = "value"

GoesUp(p, n, k) ==
    /\ n \in Below(k)
    /\ proc'[p].ctl \in {"eval", "down", "add"} => proc[p].ctl \in {"eval", "down", "add"} /\ k = n

Moves(p, n, k) ==
    /\ n = Position(p) /\ k = Position(p)'
    /\ proc[p].state = "shell" /\ proc[p].ctl # "start"
    /\ proc'[p].state = "shell" /\ proc'[p].ctl # "start"
    /\ GoesDown(p, n, k) \/ GoesOver(p, n, k) \/ GoesUp(p, n, k)

LEMMA PositionNode ==
    ASSUME Types, NEW p \in Procs, Place(p), proc[p].state = "shell", proc[p].ctl # "start"
    PROVE  Position(p) \in Nodes /\ level[Position(p)] = p /\ Position(p) \in Below(proc[p].at)
<1>1. proc[p].at \in Nodes /\ tree \in Trees
  BY DEF Types, Record
<1>2. proc[p].at \in Below(proc[p].at)
  BY <1>1, BelowFacts
<1> QED BY <1>1, <1>2 DEF Place, Position

LEMMA ListMoves ==
    ASSUME Types, NEW p \in Procs, Place(p), tree' = tree, ListShapes(p)
    PROVE  \E n \in Nodes, k \in Nodes : Moves(p, n, k)
<1>0. tree \in Trees /\ proc[p].state = "shell" /\ proc[p].ctl # "start" /\ proc'[p].state = "shell"
  BY DEF Types, ListShapes, Running, GoesOnWith
<1>1. PICK n \in Nodes : n = Position(p) /\ level[n] = p /\ n \in Below(proc[p].at)
  BY <1>0, PositionNode
<1>2. PICK a \in Nodes : a = proc[p].at
  BY DEF Types, Record
<1>3. CASE /\ Running(p, "eval") /\ Kind(a) \in {"and", "or"}
           /\ GoesOnWith(p, "eval", Left(a), proc[p].cur, proc[p].held)
  <2>1. Left(a) # 0 /\ Left(a) \in Nodes /\ n = a
    BY <1>0, <1>1, <1>2, <1>3, TreeFacts DEF Position, Running
  <2>2. PICK k \in Nodes : k = Left(a)
    BY <2>1
  <2>3. Moves(p, n, k)
    BY <1>0, <1>1, <1>3, <2>1, <2>2 DEF Moves, GoesDown, GoesOnWith, Position, Running
  <2> QED BY <2>3
<1>4. CASE /\ Running(p, "value") /\ a # Body(p)
           /\ a = Left(Up(a)) /\ Kind(Up(a)) \in {"and", "or"}
           /\ GoesOnWith(p, "eval", Right(Up(a)), proc[p].cur, proc[p].held)
  <2>1. Up(a) \in Nodes /\ level[Up(a)] = p
    BY <1>0, <1>2, <1>4, NextPlaces DEF Running
  <2>2. PICK w \in Nodes : w = Up(a)
    BY <2>1
  <2>3. Left(w) # 0 /\ Right(w) # 0 /\ Right(w) \in Nodes /\ a = Left(w) /\ n = a
    BY <1>0, <1>1, <1>2, <1>4, <2>2, TreeFacts DEF Position, Running
  <2>4. PICK k \in Nodes : k = Right(w)
    BY <2>3
  <2>5. n \in Below(Left(w))
    BY <1>0, <2>3, BelowFacts
  <2>6. GoesOver(p, n, k)
    BY <1>4, <2>1, <2>2, <2>3, <2>4, <2>5 DEF GoesOver, Running
  <2>7. Moves(p, n, k)
    BY <1>0, <1>1, <1>4, <2>2, <2>4, <2>6 DEF Moves, GoesOnWith, Position
  <2> QED BY <2>7
<1>5. CASE /\ Running(p, "value") /\ a # Body(p)
           /\ GoesOnWith(p, "value", Up(a), proc[p].cur, proc[p].held)
  <2>1. Up(a) \in Nodes /\ n = a
    BY <1>0, <1>1, <1>2, <1>5, NextPlaces DEF Running, Position
  <2>2. PICK k \in Nodes : k = Up(a)
    BY <2>1
  <2>3. k # 0 /\ n # 0
    BY PipelineAssumption DEF Nodes
  <2>4. n \in {Left(k), Right(k)} /\ n \in Below(n)
    BY <1>0, <2>1, <2>2, <2>3, UpFacts, BelowFacts
  <2>5. n \in Below(k)
    BY <1>0, <2>3, <2>4, BelowFacts
  <2>6. Moves(p, n, k)
    BY <1>0, <1>1, <1>5, <2>2, <2>5 DEF Moves, GoesUp, GoesOnWith, Position
  <2> QED BY <2>6
<1>6. CASE /\ Running(p, "eval") /\ Kind(a) = "pipe"
           /\ GoesOnWith(p, "down", a, a, proc[p].held)
  <2>1. n = a /\ n \in Below(n)
    BY <1>0, <1>1, <1>2, <1>6, BelowFacts DEF Position, Running
  <2>2. Moves(p, n, n)
    BY <1>0, <1>1, <1>6, <2>1 DEF Moves, GoesUp, GoesOnWith, Position, Running
  <2> QED BY <2>2
<1>7. CASE /\ Running(p, "down")
           /\ GoesOnWith(p, IF Kind(Left(proc[p].cur)) = "pipe" THEN "down" ELSE "add",
                         a, Left(proc[p].cur), proc[p].held)
  <2>1. n = proc[p].cur /\ Kind(n) = "pipe"
    BY <1>0, <1>1, <1>7 DEF Place, Position, Running
  <2>2. Left(n) # 0 /\ Left(n) \in Nodes
    BY <1>0, <2>1, TreeFacts
  <2>3. PICK k \in Nodes : k = Left(n)
    BY <2>2
  <2>4. Moves(p, n, k)
    BY <1>0, <1>1, <1>7, <2>1, <2>2, <2>3 DEF Moves, GoesDown, GoesOnWith, Position, Running
  <2> QED BY <2>4
<1>8. CASE /\ Running(p, "close") /\ IsLast(proc[p].cur)
           /\ GoesOnWith(p, "first", a, 0, proc[p].held \ NoLongerUsed(proc[p].cur))
  <2>1. n \in Below(a)
    BY <1>1, <1>2
  <2>2. Moves(p, n, a)
    BY <1>0, <1>1, <1>8, <2>1 DEF Moves, GoesUp, GoesOnWith, Position
  <2> QED BY <2>2
<1>9. CASE /\ Running(p, "close") /\ ~IsLast(proc[p].cur)
           /\ GoesOnWith(p, "add", a, After(proc[p].cur),
                         proc[p].held \ NoLongerUsed(proc[p].cur))
  <2>1. n = proc[p].cur /\ IsElement(n) /\ ~IsLast(n)
    BY <1>0, <1>1, <1>9 DEF Place, Position, Running
  <2>2. PICK w \in Nodes, k \in Nodes :
            w = Up(After(n)) /\ k = After(n) /\ level[w] = p /\ Kind(w) = "pipe"
            /\ k = Right(w) /\ n \in Below(Left(w))
    BY <1>0, <1>1, <2>1, NextElement
  <2>3. Left(w) # 0 /\ Right(w) # 0
    BY <1>0, <2>2, TreeFacts
  <2>4. GoesOver(p, n, k)
    BY <2>2, <2>3 DEF GoesOver
  <2>5. Moves(p, n, k)
    BY <1>0, <1>1, <1>9, <2>1, <2>2, <2>4 DEF Moves, GoesOnWith, Position
  <2> QED BY <2>5
<1> QED BY <1>2, <1>3, <1>4, <1>5, <1>6, <1>7, <1>8, <1>9 DEF ListShapes

(***************************************************************************)
(* Without a fork, what is unborn stays so and what is over too.           *)
(***************************************************************************)
Kept == \A r \in Procs : (Unborn(r) => Unborn(r)') /\ (Over(r) => Over(r)')

LEMMA KeptShapes ==
    ASSUME NEW p \in Procs,
           ListShapes(p) \/ WaitShapes(p) \/ EndShapes(p) \/ StartShapes(p)
    PROVE  Kept
<1>1. CASE ListShapes(p)
  BY <1>1 DEF ListShapes, GoesOnWith, Untouched, Kept, Unborn, Over, Running
<1>2. CASE WaitShapes(p)
  BY <1>2 DEF WaitShapes, Stays, Reaps, GoesOnWith, Untouched, Kept, Unborn, Over, Running, Zombies
<1>3. CASE EndShapes(p)
  BY <1>3 DEF EndShapes, EndsNow, Untouched, Kept, Unborn, Over, Running
<1>4. CASE StartShapes(p)
  BY <1>4 DEF StartShapes, BecomesTool, GoesOnWith, Untouched, Kept, Unborn, Over, Running
<1> QED BY <1>1, <1>2, <1>3, <1>4

LEMMA BelowProcs ==
    ASSUME tree \in Trees
    PROVE  \A x \in {0} \cup Nodes : Below(x) \subseteq Procs
BY BelowFacts, BelowIs DEF Procs

LEMMA AllKept ==
    ASSUME tree \in Trees, tree' = tree, Kept, NEW x \in {0} \cup Nodes
    PROVE  (AllUnborn(x) => AllUnborn(x)') /\ (AllOver(x) => AllOver(x)')
<1>1. Below(x)' = Below(x) /\ Below(x) \subseteq Procs
  BY SameTree, BelowProcs
<1> QED BY <1>1 DEF AllUnborn, AllOver, Kept

LEMMA WayKept ==
    ASSUME tree \in Trees, tree' = tree, Kept, NEW p, NEW n
    PROVE  (AheadUnborn(p, n) => AheadUnborn(p, n)') /\ (BehindOver(p, n) => BehindOver(p, n)')
<1>1. \A u \in Nodes : /\ Left(u) \in {0} \cup Nodes /\ Right(u) \in {0} \cup Nodes
                       /\ Left(u)' = Left(u) /\ Right(u)' = Right(u) /\ Kind(u)' = Kind(u)
                       /\ Below(Left(u))' = Below(Left(u)) /\ Below(Right(u))' = Below(Right(u))
  BY TreeFacts, SameTree
<1>2. level' = level /\ Nodes' = Nodes
  BY SameTree DEF Nodes
<1>3. \A x \in {0} \cup Nodes : (AllUnborn(x) => AllUnborn(x)') /\ (AllOver(x) => AllOver(x)')
  BY AllKept
<1>4. \A u \in Nodes : /\ AllUnborn(Right(u)) => AllUnborn(Right(u))'
                       /\ AllOver(Left(u)) => AllOver(Left(u))'
  BY <1>1, <1>3
<1> QED BY <1>1, <1>2, <1>4 DEF AheadUnborn, BehindOver

LEMMA FreshAt ==
    ASSUME NEW p, NEW k, k = Position(p)', proc'[p].ctl # "start",
           proc'[p].ctl \in {"eval", "down", "add"} => AllUnborn(k)',
           AheadUnborn(p, k)'
    PROVE  Fresh(p)'
BY DEF Fresh

LEMMA PassedAt ==
    ASSUME NEW p, NEW k, k = Position(p)', BehindOver(p, k)'
    PROVE  Passed(p)'
BY DEF Passed

LEMMA SamePosition ==
    ASSUME NEW r, proc'[r] = proc[r]
    PROVE  Position(r)' = Position(r)
BY DEF Position

LEMMA LeftNode ==
    ASSUME tree \in Trees, tree' = tree, NEW r \in Procs
    PROVE  proc[r].state = "shell" /\ proc[r].ctl = "start" /\ Place(r) =>
             r \in Nodes /\ Left(r) \in {0} \cup Nodes /\ Left(r)' = Left(r)
BY TreeFacts, SameTree DEF Place

(***************************************************************************)
(* The processes that a step does not touch.                               *)
(***************************************************************************)
LEMMA SameFresh ==
    ASSUME Types, tree' = tree, Kept, NEW r \in Procs, Place(r), Fresh(r), proc'[r] = proc[r]
    PROVE  Fresh(r)'
<1>0. tree \in Trees
  BY DEF Types
<1>1. CASE proc[r].state # "shell"
  BY <1>1 DEF Fresh
<1>2. CASE proc[r].state = "shell" /\ proc[r].ctl = "start"
  <2>1. PICK l \in {0} \cup Nodes : l = Left(r) /\ l = Left(r)'
    BY <1>0, <1>2, LeftNode
  <2>2. AllUnborn(l)'
    BY <1>0, <1>2, <2>1, AllKept DEF Fresh
  <2>3. (proc[r].state = "shell" /\ proc[r].ctl = "start" /\ AllUnborn(Left(r)))'
    BY <1>2, <2>1, <2>2
  <2> QED BY <2>3 DEF Fresh
<1>3. CASE proc[r].state = "shell" /\ proc[r].ctl # "start"
  <2>1. PICK n \in Nodes : n = Position(r)
    BY <1>3, PositionNode
  <2>2. AheadUnborn(r, n)' /\ (AllUnborn(n) => AllUnborn(n)')
    BY <1>0, <1>3, <2>1, WayKept, AllKept DEF Fresh
  <2>3. proc[r].ctl \in {"eval", "down", "add"} => AllUnborn(n)
    BY <1>3, <2>1 DEF Fresh
  <2>4. n = Position(r)'
    BY <2>1, SamePosition
  <2> QED BY <1>3, <2>2, <2>3, <2>4, FreshAt
<1> QED BY <1>1, <1>2, <1>3

LEMMA SamePassed ==
    ASSUME Types, tree' = tree, Kept, NEW r \in Procs, Place(r), Passed(r), proc'[r] = proc[r]
    PROVE  Passed(r)'
<1>0. tree \in Trees
  BY DEF Types
<1>1. CASE proc[r].state # "shell" \/ proc[r].ctl = "start"
  BY <1>1 DEF Passed
<1>2. CASE proc[r].state = "shell" /\ proc[r].ctl # "start"
  <2>1. PICK n \in Nodes : n = Position(r)
    BY <1>2, PositionNode
  <2>2. BehindOver(r, n)'
    BY <1>0, <1>2, <2>1, WayKept DEF Passed
  <2>3. n = Position(r)'
    BY <2>1, SamePosition
  <2> QED BY <2>2, <2>3, PassedAt
<1> QED BY <1>1, <1>2

(***************************************************************************)
(* A process that moves.                                                   *)
(***************************************************************************)
LEMMA MoveFresh ==
    ASSUME Types, tree' = tree, Kept, NEW p \in Procs, Fresh(p),
           NEW n \in Nodes, NEW k \in Nodes, Moves(p, n, k)
    PROVE  Fresh(p)'
<1>0. tree \in Trees
  BY DEF Types
<1>1. /\ AheadUnborn(p, n)
      /\ proc[p].ctl \in {"eval", "down", "add"} => AllUnborn(n)
  BY DEF Fresh, Moves
<1>2. /\ AheadUnborn(p, k)
      /\ proc'[p].ctl \in {"eval", "down", "add"} => AllUnborn(k)
  <2>1. CASE GoesDown(p, n, k)
    BY <1>0, <1>1, <2>1, DownFresh DEF GoesDown
  <2>2. CASE GoesOver(p, n, k)
    BY <1>0, <1>1, <2>2, OverFresh DEF GoesOver
  <2>3. CASE GoesUp(p, n, k)
    BY <1>0, <1>1, <2>3, UpFresh DEF GoesUp
  <2> QED BY <2>1, <2>2, <2>3 DEF Moves
<1>3. AheadUnborn(p, k)' /\ (AllUnborn(k) => AllUnborn(k)')
  BY <1>0, <1>2, WayKept, AllKept
<1>4. k = Position(p)' /\ proc'[p].ctl # "start"
  BY DEF Moves
<1> QED BY <1>2, <1>3, <1>4, FreshAt

(***************************************************************************)
(* When __exec returns, everything below its node is over: the first that  *)
(* is not would be a child of a process that has none left.                *)
(***************************************************************************)
LEMMA ReturnsOver ==
    ASSUME Types, \A p \in Procs : OwnParent(p) /\ Family(p),
           NEW p \in Procs, NEW n \in Nodes, level[n] = p, Children(p) = {}
    PROVE  AllOver(n)
<1> DEFINE Rest == {r \in Nodes : r \in Below(n) /\ ~Over(r)}
<1>0. tree \in Trees /\ Nodes \in SUBSET Nat /\ \A r \in Procs : r \in Nat
  BY PipelineAssumption DEF Types, Nodes, Procs, Shell
<1>1. SUFFICES ASSUME Rest # {} PROVE FALSE
  BY <1>0, BelowFacts DEF AllOver
<1>2. PICK r \in Rest : \A q \in Rest : r <= q
  <2>1. Rest \in SUBSET Nat
    BY <1>0
  <2> HIDE DEF Rest
  <2> QED BY <1>1, <2>1, LeastNumber
<1>3. r \in Nodes /\ r \in Below(n) /\ ~Over(r)
  BY <1>2
<1>4. proc[r].state \in {"shell", "tool"} /\ proc[r].parent = level[r]
  BY <1>3 DEF Over, Types, Record, OwnParent, Unborn, Procs
<1>5. r \in Children(level[r])
  BY <1>3, <1>4 DEF Children, Alive
<1>6. level[r] \in Below(n) /\ level[r] \in Nodes /\ level[r] < r
  <2>1. level[r] # p
    BY <1>5
  <2>2. level[r] \in Below(n)
    BY <1>0, <1>3, <2>1, LevelBelow
  <2> QED BY <1>0, <1>3, <2>2, BelowFacts, LevelFacts
<1>7. Over(level[r])
  <2>1. level[r] \notin Rest
    <3>1. r \in Nat /\ level[r] \in Nat
      BY <1>0, <1>3, <1>6
    <3> HIDE DEF Rest
    <3> QED BY <1>2, <1>6, <3>1
  <2> QED BY <1>6, <2>1
<1>8. Children(level[r]) = {}
  BY <1>6, <1>7 DEF Family, Over, Procs
<1> QED BY <1>5, <1>8

LEMMA MovePassed ==
    ASSUME Types, tree' = tree, Kept, \A q \in Procs : OwnParent(q) /\ Family(q),
           NEW p \in Procs, Passed(p), NEW n \in Nodes, level[n] = p,
           NEW k \in Nodes, Moves(p, n, k)
    PROVE  Passed(p)'
<1>0. tree \in Trees
  BY DEF Types
<1>1. BehindOver(p, n)
  BY DEF Passed, Moves
<1>2. BehindOver(p, k)
  <2>1. CASE GoesDown(p, n, k)
    BY <1>0, <1>1, <2>1, DownPassed DEF GoesDown
  <2>2. CASE GoesOver(p, n, k)
    <3>1. PICK w \in Nodes : /\ level[w] = p /\ Left(w) # 0 /\ Right(w) # 0
                             /\ n \in Below(Left(w)) /\ k = Right(w)
                             /\ Kind(w) \in {"and", "or"} => n = Left(w) /\ proc[p].ctl = "value"
      BY <2>2 DEF GoesOver
    <3>2. Kind(w) \in {"and", "or"} => AllOver(Left(w))
      <4>1. ASSUME Kind(w) \in {"and", "or"}
            PROVE  AllOver(n)
        <5>1. Children(p) = {}
          BY <3>1, <4>1 DEF Family, Moves
        <5> QED BY <5>1, ReturnsOver
      <4> QED BY <3>1, <4>1
    <3> QED BY <1>0, <1>1, <3>1, <3>2, OverPassed
  <2>3. CASE GoesUp(p, n, k)
    BY <1>0, <1>1, <2>3, UpPassed DEF GoesUp
  <2> QED BY <2>1, <2>2, <2>3 DEF Moves
<1>3. BehindOver(p, k)'
  BY <1>0, <1>2, WayKept
<1>4. k = Position(p)'
  BY DEF Moves
<1> QED BY <1>3, <1>4, PassedAt

LEMMA WaitMoves ==
    ASSUME Types, NEW p \in Procs, Place(p), WaitShapes(p)
    PROVE  \E n \in Nodes : Moves(p, n, n)
<1>0. tree \in Trees
  BY DEF Types
<1>1. /\ proc[p].state = "shell" /\ proc[p].ctl \in {"eval", "report", "rest", "one", "first"}
      /\ proc'[p].state = "shell" /\ proc'[p].at = proc[p].at
      /\ proc'[p].ctl \in {"value", "report", "rest"}
  BY DEF WaitShapes, Running, Stays, GoesOnWith, Reaps
<1>2. PICK n \in Nodes : n = proc[p].at
  BY DEF Types, Record
<1>3. n \in Below(n)
  BY <1>0, BelowFacts
<1>4. Moves(p, n, n)
  BY <1>1, <1>2, <1>3 DEF Moves, GoesUp, Position
<1> QED BY <1>4

LEMMA StartFresh ==
    ASSUME Types, tree' = tree, Kept, NEW p \in Procs, Place(p), Fresh(p), StartShapes(p)
    PROVE  Fresh(p)' /\ Passed(p)'
<1>0. tree \in Trees
  BY DEF Types
<1>1. CASE BecomesTool(p, ConnectedHeld(p))
  BY <1>1 DEF BecomesTool, Fresh, Passed
<1>2. CASE /\ Running(p, "start") /\ Kind(p) = "sub"
           /\ \E h \in SUBSET End : GoesOnWith(p, "eval", Left(p), proc[p].cur, h)
  <2>1. p \in Nodes
    BY <1>2 DEF Place, Running
  <2>2. Left(p) \in Nodes /\ Left(p) # 0
    BY <1>0, <1>2, <2>1, TreeFacts
  <2>3. PICK k \in Nodes : k = Left(p)
    BY <2>2
  <2>4. AllUnborn(k) /\ AheadUnborn(p, k) /\ BehindOver(p, k)
    BY <1>0, <1>2, <2>1, <2>2, <2>3, InFresh DEF Fresh, Running
  <2>5. AllUnborn(k)' /\ AheadUnborn(p, k)' /\ BehindOver(p, k)'
    BY <1>0, <2>4, AllKept, WayKept
  <2>6. k = Position(p)' /\ proc'[p].ctl = "eval"
    BY <1>2, <2>3 DEF GoesOnWith, Position
  <2> QED BY <2>5, <2>6, FreshAt, PassedAt
<1> QED BY <1>1, <1>2 DEF StartShapes

(***************************************************************************)
(* A fork changes one process from unborn, and only where its parent is.   *)
(***************************************************************************)
KeptBut(q) ==
    \A r \in Procs : r # q => (Unborn(r) => Unborn(r)') /\ (Over(r) => Over(r)')

LEMMA ForkKept ==
    ASSUME NEW p \in Procs, NEW q \in Nodes, NEW c, NEW h, ForkIs(p, q, c, h)
    PROVE  KeptBut(q) /\ ~Unborn(p) /\ ~Over(p)
BY DEF ForkIs, KeptBut, Makes, Untouched, Unborn, Over

LEMMA AllKeptBut ==
    ASSUME tree \in Trees, tree' = tree, NEW q, KeptBut(q), NEW x \in {0} \cup Nodes,
           q \notin Below(x)
    PROVE  (AllUnborn(x) => AllUnborn(x)') /\ (AllOver(x) => AllOver(x)')
<1>1. Below(x)' = Below(x) /\ Below(x) \subseteq Procs
  BY SameTree, BelowProcs
<1> QED BY <1>1 DEF AllUnborn, AllOver, KeptBut

LEMMA AheadKeptBut ==
    ASSUME tree \in Trees, tree' = tree, NEW q, KeptBut(q), NEW p, NEW n, AheadUnborn(p, n),
           \A u \in Nodes : level[u] = p /\ n \in Below(Left(u)) => q \notin Below(Right(u))
    PROVE  AheadUnborn(p, n)'
<1>1. \A u \in Nodes : /\ Right(u) \in {0} \cup Nodes /\ Right(u)' = Right(u)
                       /\ Below(Left(u))' = Below(Left(u))
  BY TreeFacts, SameTree
<1>2. level' = level /\ Nodes' = Nodes
  BY SameTree DEF Nodes
<1>3. ASSUME NEW u \in Nodes, level[u] = p, n \in Below(Left(u))
      PROVE  AllUnborn(Right(u))'
  <2>1. PICK x \in {0} \cup Nodes : x = Right(u) /\ x = Right(u)'
    BY <1>1
  <2>2. AllUnborn(x)'
    BY <1>3, <2>1, AllKeptBut DEF AheadUnborn
  <2> QED BY <2>1, <2>2
<1> QED BY <1>1, <1>2, <1>3 DEF AheadUnborn

LEMMA BehindKeptBut ==
    ASSUME tree \in Trees, tree' = tree, NEW q, KeptBut(q), NEW p, NEW n, BehindOver(p, n),
           \A u \in Nodes : level[u] = p /\ Kind(u) \in {"and", "or"} /\ n \in Below(Right(u))
                                => q \notin Below(Left(u))
    PROVE  BehindOver(p, n)'
<1>1. \A u \in Nodes : /\ Left(u) \in {0} \cup Nodes /\ Left(u)' = Left(u)
                       /\ Below(Right(u))' = Below(Right(u)) /\ Kind(u)' = Kind(u)
  BY TreeFacts, SameTree
<1>2. level' = level /\ Nodes' = Nodes
  BY SameTree DEF Nodes
<1>3. ASSUME NEW u \in Nodes, level[u] = p, Kind(u) \in {"and", "or"}, n \in Below(Right(u))
      PROVE  AllOver(Left(u))'
  <2>1. PICK x \in {0} \cup Nodes : x = Left(u) /\ x = Left(u)'
    BY <1>1
  <2>2. AllOver(x)'
    BY <1>3, <2>1, AllKeptBut DEF BehindOver
  <2> QED BY <2>1, <2>2
<1> QED BY <1>1, <1>2, <1>3 DEF BehindOver

LEMMA OtherList ==
    ASSUME tree \in Trees, NEW p \in Procs, NEW q \in Nodes, NEW c, NEW h, ForkIs(p, q, c, h),
           NEW x \in {0} \cup Nodes, x # 0 => level[x] # p, AllUnborn(x) \/ AllOver(x)
    PROVE  q \notin Below(x)
<1>1. CASE x = 0
  BY <1>1, BelowIs
<1>2. CASE x # 0
  <2>1. x \in Nodes /\ level[x] # p /\ level[q] = p
    BY <1>2 DEF ForkIs
  <2>2. p \notin Below(x)
    BY ForkKept DEF AllUnborn, AllOver
  <2> QED BY <2>1, <2>2, LevelBelow
<1> QED BY <1>1, <1>2

LEMMA SidesLevel ==
    ASSUME tree \in Trees, NEW u \in Nodes
    PROVE  /\ Left(u) \in {0} \cup Nodes /\ Right(u) \in {0} \cup Nodes
           /\ Right(u) # 0 => level[Right(u)] = level[u]
           /\ Kind(u) \in {"and", "or"} => Left(u) # 0 /\ level[Left(u)] = level[u]
<1>1. /\ Left(u) \in {0} \cup Nodes /\ Right(u) \in {0} \cup Nodes
      /\ Kind(u) = "sub" => Right(u) = 0
      /\ Kind(u) \in {"and", "or"} => Left(u) # 0
  BY TreeFacts
<1> QED BY <1>1, LevelOfChild

(***************************************************************************)
(* The fork, for the processes with other lists, ...                       *)
(***************************************************************************)
LEMMA ForkOthers ==
    ASSUME Types, tree' = tree, NEW p \in Procs, NEW q \in Nodes, NEW c, NEW h,
           ForkIs(p, q, c, h), NEW r \in Procs, r # p, proc'[r] = proc[r], Place(r)
    PROVE  /\ Fresh(r) => Fresh(r)'
           /\ Passed(r) => Passed(r)'
<1>0. tree \in Trees /\ KeptBut(q)
  BY ForkKept DEF Types
<1>1. CASE proc[r].state # "shell"
  BY <1>1 DEF Fresh, Passed
<1>2. CASE proc[r].state = "shell" /\ proc[r].ctl = "start"
  <2>1. PICK l \in {0} \cup Nodes : l = Left(r) /\ l = Left(r)' /\ r \in Nodes
    BY <1>0, <1>2, LeftNode
  <2>2. l # 0 => level[l] # p
    <3>1. l # 0 => Kind(r) = "sub"
      BY <1>0, <1>2, <2>1, TreeFacts DEF Place
    <3> QED BY <1>0, <2>1, <3>1, LevelOfChild
  <2>3. AllUnborn(l) => AllUnborn(l)'
    BY <1>0, <2>2, OtherList, AllKeptBut
  <2>4. proc'[r].state = "shell" /\ proc'[r].ctl = "start"
    BY <1>2
  <2>5. AllUnborn(l)' => AllUnborn(Left(r))'
    BY <2>1
  <2> QED BY <1>2, <2>1, <2>3, <2>4, <2>5 DEF Fresh, Passed
<1>3. CASE proc[r].state = "shell" /\ proc[r].ctl # "start"
  <2>1. PICK n \in Nodes : n = Position(r) /\ level[n] = r
    BY <1>3, PositionNode
  <2>2. n = Position(r)'
    BY <2>1, SamePosition
  <2>3. AllUnborn(n) => AllUnborn(n)'
    BY <1>0, <2>1, OtherList, AllKeptBut
  <2>4. AheadUnborn(r, n) => AheadUnborn(r, n)'
    <3> SUFFICES ASSUME AheadUnborn(r, n) PROVE AheadUnborn(r, n)'
      OBVIOUS
    <3>1. ASSUME NEW u \in Nodes, level[u] = r, n \in Below(Left(u))
          PROVE  q \notin Below(Right(u))
      <4>1. Right(u) \in {0} \cup Nodes /\ (Right(u) # 0 => level[Right(u)] # p)
        BY <1>0, <3>1, SidesLevel
      <4>2. AllUnborn(Right(u))
        BY <3>1 DEF AheadUnborn
      <4> QED BY <1>0, <4>1, <4>2, OtherList
    <3> QED BY <1>0, <3>1, AheadKeptBut
  <2>5. BehindOver(r, n) => BehindOver(r, n)'
    <3> SUFFICES ASSUME BehindOver(r, n) PROVE BehindOver(r, n)'
      OBVIOUS
    <3>1. ASSUME NEW u \in Nodes, level[u] = r, Kind(u) \in {"and", "or"}, n \in Below(Right(u))
          PROVE  q \notin Below(Left(u))
      <4>1. Left(u) \in {0} \cup Nodes /\ (Left(u) # 0 => level[Left(u)] # p)
        BY <1>0, <3>1, SidesLevel
      <4>2. AllOver(Left(u))
        BY <3>1 DEF BehindOver
      <4> QED BY <1>0, <4>1, <4>2, OtherList
    <3> QED BY <1>0, <3>1, BehindKeptBut
  <2>6. Fresh(r) => AheadUnborn(r, n) /\ (proc[r].ctl \in {"eval", "down", "add"} => AllUnborn(n))
    BY <1>3, <2>1 DEF Fresh
  <2>7. Passed(r) => BehindOver(r, n)
    BY <1>3, <2>1 DEF Passed
  <2> QED BY <1>3, <2>2, <2>3, <2>4, <2>5, <2>6, <2>7, FreshAt, PassedAt
<1> QED BY <1>1, <1>2, <1>3

(***************************************************************************)
(* ... and for parent and child.                                           *)
(***************************************************************************)
LEMMA ForkBoth ==
    ASSUME Types, tree' = tree, NEW p \in Procs, NEW q \in Nodes, NEW c, NEW h,
           ForkIs(p, q, c, h), Place(p), Fresh(p)
    PROVE  /\ Fresh(p)' /\ Fresh(q)' /\ Passed(q)'
           /\ Passed(p) => Passed(p)'
<1>0. tree \in Trees /\ KeptBut(q)
  BY ForkKept DEF Types
<1>1. q = Position(p) /\ proc[p].state = "shell" /\ proc[p].ctl \in {"eval", "add"}
  BY DEF ForkIs, Position
<1>2. q = Position(p)' /\ proc'[p].ctl \in {"one", "close"}
  BY DEF ForkIs, Makes, Position
<1>3. AllUnborn(q) /\ AheadUnborn(p, q)
  BY <1>1 DEF Fresh
<1>4. ASSUME NEW u \in Nodes
      PROVE  ~(q \in Below(Left(u)) /\ q \in Below(Right(u)))
  BY <1>0, SidesApart, BelowIs
<1>5. AheadUnborn(p, q)'
  BY <1>0, <1>3, <1>4, AheadKeptBut
<1>6. BehindOver(p, q) => BehindOver(p, q)'
  BY <1>0, <1>4, BehindKeptBut
<1>7. Fresh(p)'
  BY <1>2, <1>5, FreshAt
<1>8. Passed(p) => Passed(p)'
  BY <1>1, <1>2, <1>6, PassedAt DEF Passed
<1>9. proc'[q].ctl = "start"
  BY DEF ForkIs, Makes
<1>10. PICK l \in {0} \cup Nodes : l = Left(q) /\ l = Left(q)'
  BY <1>0, TreeFacts, SameTree
<1>11. AllUnborn(l) /\ q \notin Below(l)
  <2>1. CASE l = 0
    BY <2>1, <1>0, BelowIs DEF AllUnborn
  <2>2. CASE l # 0
    <3>1. l \in Nodes /\ l > q
      BY <1>0, <1>10, <2>2, TreeFacts
    <3>2. Below(l) \subseteq Below(q) /\ \A r \in Below(l) : l <= r
      BY <1>0, <1>10, <2>2, <3>1, BelowFacts
    <3>3. q \notin Below(l)
      BY <3>1, <3>2, PipelineAssumption DEF Nodes
    <3> QED BY <1>3, <3>2, <3>3 DEF AllUnborn
  <2> QED BY <2>1, <2>2
<1>12. AllUnborn(l)'
  BY <1>0, <1>11, AllKeptBut
<1>13. AllUnborn(Left(q))'
  BY <1>10, <1>12
<1>14. Fresh(q)' /\ Passed(q)'
  BY <1>9, <1>13 DEF Fresh, Passed
<1> QED BY <1>7, <1>8, <1>14

LEMMA FreshStep ==
    ASSUME Types, \A p \in Procs : Place(p) /\ Fresh(p), StepShapes
    PROVE  \A p \in Procs : Fresh(p)'
<1>0. tree' = tree
  BY DEF StepShapes
<1>1. CASE proc' = proc
  <2>1. Kept
    BY <1>1 DEF Kept, Unborn, Over
  <2> QED BY <1>0, <1>1, <2>1, SameFresh
<1>2. ASSUME NEW p \in Procs, ListShapes(p) \/ WaitShapes(p)
      PROVE  \A r \in Procs : Fresh(r)'
  <2>1. Kept
    BY <1>2, KeptShapes
  <2>2. \E n \in Nodes, k \in Nodes : Moves(p, n, k)
    BY <1>0, <1>2, ListMoves, WaitMoves
  <2>3. Fresh(p)'
    BY <1>0, <2>1, <2>2, MoveFresh
  <2>4. \A r \in Procs : r # p => proc'[r] = proc[r] \/ proc'[r].state = "gone"
    BY <1>2 DEF ListShapes, WaitShapes, Stays, Reaps, GoesOnWith, Untouched
  <2>5. \A r \in Procs : proc'[r].state = "gone" => Fresh(r)'
    BY DEF Fresh
  <2> QED BY <1>0, <2>1, <2>3, <2>4, <2>5, SameFresh
<1>3. ASSUME NEW p \in Procs, ForkShapes(p)
      PROVE  \A r \in Procs : Fresh(r)'
  <2>1. PICK q \in Nodes, c \in {"one", "close"}, h \in SUBSET End : ForkIs(p, q, c, h)
    BY <1>3, ForkWho
  <2>2. \A r \in Procs : r # p /\ r # q => proc'[r] = proc[r]
    BY <2>1 DEF ForkIs, Makes, Untouched
  <2>3. \A r \in Procs : r # p /\ r # q => Fresh(r)'
    BY <1>0, <2>1, <2>2, ForkOthers
  <2>4. Fresh(p)' /\ Fresh(q)'
    BY <1>0, <2>1, ForkBoth
  <2> QED BY <2>3, <2>4
<1>4. ASSUME NEW p \in Procs, EndShapes(p) \/ StartShapes(p)
      PROVE  \A r \in Procs : Fresh(r)'
  <2>1. Kept
    BY <1>4, KeptShapes
  <2>2. Fresh(p)'
    <3>1. CASE EndShapes(p)
      BY <3>1 DEF EndShapes, EndsNow, Fresh
    <3>2. CASE StartShapes(p)
      BY <1>0, <2>1, <3>2, StartFresh
    <3> QED BY <1>4, <3>1, <3>2
  <2>3. \A r \in Procs : r # p => proc'[r] = proc[r]
    BY <1>4 DEF EndShapes, EndsNow, StartShapes, BecomesTool, GoesOnWith, Untouched
  <2> QED BY <1>0, <2>1, <2>2, <2>3, SameFresh
<1> QED BY <1>1, <1>2, <1>3, <1>4 DEF StepShapes

LEMMA PassedStep ==
    ASSUME Types, StepShapes,
           \A p \in Procs : Place(p) /\ OwnParent(p) /\ Family(p) /\ Fresh(p) /\ Passed(p)
    PROVE  \A p \in Procs : Passed(p)'
<1>0. tree' = tree
  BY DEF StepShapes
<1>1. CASE proc' = proc
  <2>1. Kept
    BY <1>1 DEF Kept, Unborn, Over
  <2> QED BY <1>0, <1>1, <2>1, SamePassed
<1>2. ASSUME NEW p \in Procs, ListShapes(p) \/ WaitShapes(p)
      PROVE  \A r \in Procs : Passed(r)'
  <2>1. Kept
    BY <1>2, KeptShapes
  <2>2. PICK n \in Nodes, k \in Nodes : Moves(p, n, k)
    BY <1>0, <1>2, ListMoves, WaitMoves
  <2>3. level[n] = p
    BY <2>2, PositionNode DEF Moves
  <2>4. Passed(p)'
    BY <1>0, <2>1, <2>2, <2>3, MovePassed
  <2>5. \A r \in Procs : r # p => proc'[r] = proc[r] \/ proc'[r].state = "gone"
    BY <1>2 DEF ListShapes, WaitShapes, Stays, Reaps, GoesOnWith, Untouched
  <2>6. \A r \in Procs : proc'[r].state = "gone" => Passed(r)'
    BY DEF Passed
  <2> QED BY <1>0, <2>1, <2>4, <2>5, <2>6, SamePassed
<1>3. ASSUME NEW p \in Procs, ForkShapes(p)
      PROVE  \A r \in Procs : Passed(r)'
  <2>1. PICK q \in Nodes, c \in {"one", "close"}, h \in SUBSET End : ForkIs(p, q, c, h)
    BY <1>3, ForkWho
  <2>2. \A r \in Procs : r # p /\ r # q => proc'[r] = proc[r]
    BY <2>1 DEF ForkIs, Makes, Untouched
  <2>3. \A r \in Procs : r # p /\ r # q => Passed(r)'
    BY <1>0, <2>1, <2>2, ForkOthers
  <2>4. Passed(p)' /\ Passed(q)'
    BY <1>0, <2>1, ForkBoth
  <2> QED BY <2>3, <2>4
<1>4. ASSUME NEW p \in Procs, EndShapes(p) \/ StartShapes(p)
      PROVE  \A r \in Procs : Passed(r)'
  <2>1. Kept
    BY <1>4, KeptShapes
  <2>2. Passed(p)'
    <3>1. CASE EndShapes(p)
      BY <3>1 DEF EndShapes, EndsNow, Passed
    <3>2. CASE StartShapes(p)
      BY <1>0, <2>1, <3>2, StartFresh
    <3> QED BY <1>4, <3>1, <3>2
  <2>3. \A r \in Procs : r # p => proc'[r] = proc[r]
    BY <1>4 DEF EndShapes, EndsNow, StartShapes, BecomesTool, GoesOnWith, Untouched
  <2> QED BY <1>0, <2>1, <2>2, <2>3, SamePassed
<1> QED BY <1>1, <1>2, <1>3, <1>4 DEF StepShapes

(***************************************************************************)
(* Once something right of && or || has begun, everything left is over.    *)
(***************************************************************************)
Sides(u) == Kind(u) \in {"and", "or"} => AllUnborn(Right(u)) \/ AllOver(Left(u))

LEMMA SidesKept ==
    ASSUME tree \in Trees, tree' = tree, NEW u \in Nodes, Sides(u),
           NEW x \in {0} \cup Nodes, NEW y \in {0} \cup Nodes, x = Right(u), y = Left(u),
           Kind(u) \in {"and", "or"} =>
                /\ AllUnborn(x) => AllUnborn(x)' \/ AllOver(y)'
                /\ AllOver(y) => AllUnborn(x)' \/ AllOver(y)'
    PROVE  Sides(u)'
<1>1. Kind(u)' = Kind(u) /\ x = Right(u)' /\ y = Left(u)'
  BY SameTree
<1> QED BY <1>1 DEF Sides

LEMMA SidesFork ==
    ASSUME Types, tree' = tree, NEW p \in Procs, NEW q \in Nodes, NEW c, NEW h,
           ForkIs(p, q, c, h), Fresh(p), Passed(p), NEW u \in Nodes, Sides(u)
    PROVE  Sides(u)'
<1>0. tree \in Trees /\ KeptBut(q) /\ ~Unborn(p) /\ ~Over(p)
  BY ForkKept DEF Types
<1>1. PICK x \in {0} \cup Nodes, y \in {0} \cup Nodes : x = Right(u) /\ y = Left(u)
  BY <1>0, TreeFacts
<1>2. /\ x # 0 => level[x] = level[u]
      /\ Kind(u) \in {"and", "or"} => x # 0 /\ y # 0 /\ level[y] = level[u]
  BY <1>0, <1>1, SidesLevel, TreeFacts
<1>3. /\ q = Position(p) /\ level[q] = p
      /\ BehindOver(p, q) /\ AheadUnborn(p, q)
  BY DEF ForkIs, Position, Fresh, Passed
<1>4. ~(q \in Below(x) /\ q \in Below(y))
  BY <1>0, <1>1, SidesApart, BelowIs
<1>5. ASSUME Kind(u) \in {"and", "or"}
      PROVE  AllUnborn(x)' \/ AllOver(y)'
  <2>1. CASE q \in Below(x)
    <3>1. AllOver(y)
      <4>1. CASE level[q] = level[x]
        BY <1>1, <1>2, <1>3, <1>5, <2>1, <4>1 DEF BehindOver
      <4>2. CASE level[q] # level[x]
        <5>1. p \in Below(x)
          BY <1>0, <1>2, <1>3, <1>5, <2>1, <4>2, LevelBelow
        <5>2. ~AllUnborn(x)
          BY <1>0, <5>1 DEF AllUnborn
        <5> QED BY <1>1, <1>5, <5>2 DEF Sides
      <4> QED BY <4>1, <4>2
    <3> QED BY <1>0, <1>4, <2>1, <3>1, AllKeptBut
  <2>2. CASE q \in Below(y)
    <3>1. AllUnborn(x)
      <4>1. CASE level[q] = level[y]
        BY <1>1, <1>2, <1>3, <1>5, <2>2, <4>1 DEF AheadUnborn
      <4>2. CASE level[q] # level[y]
        <5>1. p \in Below(y)
          BY <1>0, <1>2, <1>3, <1>5, <2>2, <4>2, LevelBelow
        <5>2. ~AllOver(y)
          BY <1>0, <5>1 DEF AllOver
        <5> QED BY <1>1, <1>5, <5>2 DEF Sides
      <4> QED BY <4>1, <4>2
    <3> QED BY <1>0, <1>4, <2>2, <3>1, AllKeptBut
  <2>3. CASE q \notin Below(x) /\ q \notin Below(y)
    BY <1>0, <1>1, <1>5, <2>3, AllKeptBut DEF Sides
  <2> QED BY <2>1, <2>2, <2>3
<1> QED BY <1>0, <1>1, <1>5, SidesKept

LEMMA SidesStep ==
    ASSUME Types, StepShapes, \A p \in Procs : Place(p) /\ Fresh(p) /\ Passed(p),
           NEW u \in Nodes, Sides(u)
    PROVE  Sides(u)'
<1>0. tree' = tree /\ tree \in Trees
  BY DEF StepShapes, Types
<1>1. CASE Kept
  <2>1. PICK x \in {0} \cup Nodes, y \in {0} \cup Nodes : x = Right(u) /\ y = Left(u)
    BY <1>0, TreeFacts
  <2>2. (AllUnborn(x) => AllUnborn(x)') /\ (AllOver(y) => AllOver(y)')
    BY <1>0, <1>1, AllKept
  <2> QED BY <1>0, <2>1, <2>2, SidesKept
<1>2. CASE proc' = proc
  <2>1. Kept
    BY <1>2 DEF Kept, Unborn, Over
  <2> QED BY <1>1, <2>1
<1>3. ASSUME NEW p \in Procs, ForkShapes(p)
      PROVE  Sides(u)'
  <2>1. PICK q \in Nodes, c \in {"one", "close"}, h \in SUBSET End : ForkIs(p, q, c, h)
    BY <1>3, ForkWho
  <2> QED BY <1>0, <2>1, SidesFork
<1>4. ASSUME NEW p \in Procs,
             ListShapes(p) \/ WaitShapes(p) \/ EndShapes(p) \/ StartShapes(p)
      PROVE  Sides(u)'
  <2>1. Kept
    BY <1>4, KeptShapes
  <2> QED BY <1>1, <2>1
<1> QED BY <1>2, <1>3, <1>4 DEF StepShapes

(***************************************************************************)
(* Where the processes are in the tree: with faults too, what is ahead of  *)
(* them has not begun.                                                     *)
(***************************************************************************)
Order ==
    /\ \A p \in Procs : Fresh(p)
    /\ faults = 0 => (\A p \in Procs : Passed(p)) /\ (\A u \in Nodes : Sides(u))

LEMMA OrderInit == Init => Order
<1> SUFFICES ASSUME Init PROVE Order
  OBVIOUS
<1>0. tree \in Trees /\ Root \in Nodes /\ 0 \notin Nodes
  BY InitProc, RootFacts, PipelineAssumption DEF Nodes
<1>1. \A x \in {0} \cup Nodes : AllUnborn(x)
  <2>1. \A x \in {0} \cup Nodes : Below(x) \subseteq Nodes
    BY <1>0, BelowFacts, BelowIs
  <2> QED BY <2>1, InitProc DEF AllUnborn, Unborn
<1>2. \A u \in Nodes : Left(u) \in {0} \cup Nodes /\ Right(u) \in {0} \cup Nodes
  BY <1>0, TreeFacts
<1>3. \A p \in Procs : AheadUnborn(p, Position(p))
  BY <1>1, <1>2 DEF AheadUnborn
<1>4. \A u \in Nodes : AllUnborn(Right(u)) /\ AllUnborn(Left(u))
  BY <1>1, <1>2
<1>5. \A x : AllUnborn(x) => AllOver(x)
  BY DEF AllUnborn, AllOver, Unborn, Over
<1>6. ASSUME NEW p \in Procs
      PROVE  Fresh(p) /\ Passed(p)
  <2>1. CASE p \in Nodes
    BY <2>1, InitProc DEF Fresh, Passed
  <2>2. CASE p = Shell
    <3>1. proc[p].ctl = "eval" /\ Position(p) = Root
      BY <2>2, InitProc DEF Position
    <3> QED BY <1>0, <1>1, <1>3, <1>4, <1>5, <3>1 DEF Fresh, Passed, BehindOver
  <2> QED BY <2>1, <2>2 DEF Procs
<1>7. \A u \in Nodes : Sides(u)
  BY <1>4 DEF Sides
<1> QED BY <1>6, <1>7 DEF Order

LEMMA OrderStep == Held /\ Kin /\ Order /\ [Next]_vars => Order'
<1> SUFFICES ASSUME Held, Kin, Order, [Next]_vars PROVE Order'
  OBVIOUS
<1>1. StepShapes /\ Types /\ \A p \in Procs : Place(p) /\ OwnParent(p) /\ Fresh(p)
  BY StepsHaveShapes DEF Held, Kin, Order
<1>2. \A p \in Procs : Fresh(p)'
  BY <1>1, FreshStep
<1>3. ASSUME faults' = 0
      PROVE  (\A p \in Procs : Passed(p)') /\ (\A u \in Nodes : Sides(u)')
  <2>1. faults = 0
    BY <1>1, <1>3 DEF StepShapes
  <2>2. \A p \in Procs : Passed(p)'
    BY <1>1, <2>1, PassedStep DEF Kin, Order
  <2>3. \A u \in Nodes : Sides(u)'
    BY <1>1, <2>1, SidesStep DEF Order
  <2> QED BY <2>2, <2>3
<1>4. Procs' = Procs /\ Nodes' = Nodes
  BY DEF Procs, Nodes
<1> QED BY <1>2, <1>3, <1>4 DEF Order

THEOREM OrderInvariant == Spec => []Order
BY HeldInvariant, KinInvariant, OrderInit, OrderStep, PTL DEF Spec

(***************************************************************************)
(* exec_and_or: the right side of && and || starts when no process of the  *)
(* left side is left, in subshells and pipelines too.                      *)
(***************************************************************************)
THEOREM RightAfterLeftCorrect == Spec => []RightAfterLeft
<1>1. Order => RightAfterLeft
  <2> SUFFICES ASSUME Order, NEW u \in Nodes, Kind(u) \in {"and", "or"}, faults = 0,
                      NEW r \in Below(Right(u)), ~Unborn(r)
               PROVE  AllOver(Left(u))
    BY DEF RightAfterLeft, AllOver, Unborn
  <2> QED BY DEF Order, Sides, AllUnborn
<1> QED BY <1>1, OrderInvariant, PTL

----------------------------------------------------------------------------
(* Results. *)

Gone(r) == proc[r].state = "gone"

Stages(n) == {e \in Below(n) : IsElement(e) /\ level[e] = level[n]}

(***************************************************************************)
(* A process returns from a node once, and from none before its turn.      *)
(***************************************************************************)
NotYet == {r \in Nodes : result[r] = NoResult}

AllIn(p, n, S) == \A r \in Below(n) : level[r] = p => r \in S

AheadIn(p, n, S) ==
    \A u \in Nodes : level[u] = p =>
        /\ n \in Below(u) => u \in S
        /\ n \in Below(Left(u)) => AllIn(p, Right(u), S)

Silent(p) ==
    LET at == proc[p].at
        ctl == proc[p].ctl
    IN IF proc[p].state = "shell" /\ ctl # "start"
       THEN AheadIn(p, at, NotYet) /\ (ctl # "value" => AllIn(p, at, NotYet))
       ELSE Unborn(p) \/ proc[p].state = "shell" =>
                \A r \in Nodes : level[r] = p => r \in NotYet

(***************************************************************************)
(* On the right side of && and ||, the left side has decided so.           *)
(***************************************************************************)
DecidedAt(p, n) ==
    \A u \in Nodes :
        /\ level[u] = p /\ Kind(u) \in {"and", "or"} /\ n \in Below(Right(u))
        => result[Left(u)] = IF Kind(u) = "and" THEN 0 ELSE 1

Decided(p) ==
    proc[p].state = "shell" /\ proc[p].ctl # "start" => DecidedAt(p, proc[p].at)

(***************************************************************************)
(* The elements of a pipeline are started one after the other, all of      *)
(* them, and the process has no other children then.                       *)
(***************************************************************************)
PipeAt(ctl, at, cur, kids) ==
    /\ ctl \in {"down", "add", "close", "first", "rest"} => Kind(at) = "pipe"
    /\ ctl \in {"add", "close", "first", "rest"} => kids \subseteq Stages(at)
    /\ ctl \in {"add", "close"} =>
          \A e \in Stages(at) : StartedBefore(e, cur) => ~Unborn(e)
    /\ ctl = "close" => ~Unborn(cur)
    /\ ctl \in {"first", "rest"} => \A e \in Stages(at) : ~Unborn(e)

InPipe(p) ==
    proc[p].state = "shell" => PipeAt(proc[p].ctl, proc[p].at, proc[p].cur, Children(p))

(***************************************************************************)
(* The value that a process is about to return.                            *)
(***************************************************************************)
RightValue(n, v) ==
    /\ Forks(n) => Gone(n) /\ v = proc[n].val
    /\ Kind(n) = "pipe" => /\ \A e \in Stages(n) : Gone(e)
                           /\ \E e \in Stages(n) : v = proc[e].val
    /\ Kind(n) \in {"and", "or"} => result[Left(n)] # NoResult
    /\ Kind(n) = "and" =>
            v = IF result[Left(n)] = 0 THEN result[Right(n)] ELSE result[Left(n)]
    /\ Kind(n) = "or" =>
            v = IF result[Left(n)] = 0 THEN result[Left(n)] ELSE result[Right(n)]

AnswerAt(ctl, at, val) ==
    /\ ctl = "one" => Kind(at) \in {"cmd", "sub"}
    /\ ctl = "report" => Kind(at) = "sub" /\ Gone(at) /\ val = proc[at].val
    /\ ctl = "rest" => \E e \in Stages(at) : Gone(e) /\ val = proc[e].val
    /\ ctl = "value" => RightValue(at, val)

Answer(p) ==
    proc[p].state = "shell" => AnswerAt(proc[p].ctl, proc[p].at, proc[p].val)

(***************************************************************************)
(* What lies below a node at its own level is not inside of a subshell.    *)
(***************************************************************************)
LEMMA LevelOutside ==
    ASSUME tree \in Trees, NEW n \in Nodes
    PROVE  level[n] \notin Below(n)
<1>1. level[n] < n /\ level[n] \in Procs
  BY LevelFacts
<1>2. \A m \in Below(n) : n <= m
  BY BelowFacts
<1>3. n \in Nat /\ level[n] \in Nat
  BY <1>1, PipelineAssumption DEF Nodes, Procs, Shell
<1> QED BY <1>1, <1>2, <1>3

LEMMA NotInSub ==
    ASSUME tree \in Trees, NEW n \in Nodes, NEW s \in Below(n), Kind(s) = "sub",
           NEW m \in Below(s), m # s
    PROVE  level[m] # level[n]
<1>1. s \in Nodes /\ m \in Nodes /\ Below(s) \subseteq Below(n) /\ level[n] \notin Below(n)
  BY BelowFacts, BelowNests, LevelOutside
<1>2. Left(s) \in Nodes /\ Left(s) # 0 /\ Right(s) = 0 /\ Below(0) = {}
  BY <1>1, TreeFacts, BelowIs
<1>3. m \in Below(Left(s)) /\ Below(Left(s)) \subseteq Below(s) /\ s \in Below(s)
  BY <1>1, <1>2, BelowFacts
<1>4. level[Left(s)] = s
  BY <1>1, <1>2, LevelOfChild
<1>5. level[m] = s \/ level[m] \in Below(Left(s))
  BY <1>2, <1>3, <1>4, LevelBelow
<1> QED BY <1>1, <1>3, <1>5

LEMMA StagesAre ==
    ASSUME tree \in Trees, NEW n \in Nodes
    PROVE  ElementsOf(n) = Stages(n)
<1>1. ASSUME NEW e \in Below(n), IsElement(e),
             \A s \in Below(n) : Kind(s) = "sub" /\ s # e => e \notin Below(s)
      PROVE  level[e] = level[n]
  <2>1. e \in Nodes
    BY BelowFacts
  <2>2. ASSUME level[e] \in Below(n)
        PROVE  FALSE
    <3>1. level[e] # Shell /\ level[e] < e
      BY <2>1, <2>2, LevelFacts, BelowFacts, PipelineAssumption DEF Shell, Nodes
    <3>2. level[e] \in Nodes /\ Kind(level[e]) = "sub" /\ e \in Below(Left(level[e]))
      BY <2>1, <3>1, LevelFacts
    <3>3. e \in Below(level[e])
      BY <3>2, TreeFacts, BelowFacts
    <3>4. level[e] # e
      BY <2>1, <3>1, PipelineAssumption DEF Nodes
    <3> QED BY <1>1, <2>2, <3>2, <3>3, <3>4
  <2> QED BY <2>2, LevelBelow
<1>2. ASSUME NEW e \in Below(n), level[e] = level[n],
             NEW s \in Below(n), Kind(s) = "sub", s # e
      PROVE  e \notin Below(s)
  BY <1>2, NotInSub
<1> QED BY <1>1, <1>2 DEF ElementsOf, Stages, IsElement

(***************************************************************************)
(* Inside of a pipeline everything at its level hangs on pipes.            *)
(***************************************************************************)
LEMMA SpineUp ==
    ASSUME tree \in Trees, NEW n \in Nodes, Kind(n) = "pipe",
           NEW m \in Below(n), m # n, level[m] = level[n]
    PROVE  /\ m \in Nodes /\ Up(m) \in Nodes /\ Up(m) \in Below(n)
           /\ Kind(Up(m)) = "pipe" /\ level[Up(m)] = level[n]
<1> DEFINE Good(j) == Kind(Up(j)) = "pipe" /\ level[Up(j)] = level[n]
           Bad == {j \in Nodes : j \in Below(n) /\ j # n /\ level[j] = level[n] /\ ~Good(j)}
<1>0. Nodes \in SUBSET Nat /\ 0 \notin Nodes
  BY PipelineAssumption DEF Nodes
<1>1. \A j \in Below(n) : j # n => j \in Nodes /\ Up(j) \in Nodes /\ Up(j) \in Below(n)
  BY BelowFacts, UpBelow
<1>2. SUFFICES ASSUME Bad # {} PROVE FALSE
  BY <1>1
<1>3. PICK j \in Bad : \A i \in Bad : j <= i
  <2>1. Bad \in SUBSET Nat
    BY <1>0
  <2> HIDE DEF Bad
  <2> QED BY <1>2, <2>1, LeastNumber
<1>4. j \in Nodes /\ j \in Below(n) /\ j # n /\ level[j] = level[n] /\ ~Good(j)
  BY <1>3
<1>5. PICK w \in Nodes : w = Up(j) /\ w \in Below(n) /\ w < j /\ j \in {Left(w), Right(w)}
                         /\ Kind(w) \in {"sub", "pipe", "and", "or"}
  BY <1>0, <1>1, <1>4, UpFacts
<1>6. Kind(w) # "sub"
  <2>1. j \in Below(w) /\ j # w
    BY <1>0, <1>4, <1>5, TreeFacts, BelowFacts
  <2> QED BY <1>4, <1>5, <2>1, NotInSub
<1>7. level[w] = level[n]
  BY <1>0, <1>4, <1>5, <1>6, LevelOfChild
<1>8. Kind(w) # "pipe" /\ w # n
  BY <1>4, <1>5, <1>7
<1>9. w \notin Bad
  <2>1. w \in Nat /\ j \in Nat
    BY <1>0, <1>4
  <2> HIDE DEF Bad
  <2> QED BY <1>3, <1>5, <2>1
<1>10. Kind(Up(w)) = "pipe"
  BY <1>5, <1>7, <1>8, <1>9
<1>11. Up(w) \in Nodes /\ w \in {Left(Up(w)), Right(Up(w))}
  BY <1>0, <1>1, <1>5, <1>8, UpFacts
<1>12. Kind(w) \in {"pipe", "cmd", "sub"}
  BY <1>10, <1>11, TreeFacts
<1> QED BY <1>6, <1>8, <1>12, <1>5

LEMMA StageAlone ==
    ASSUME tree \in Trees, NEW n \in Nodes, NEW r \in Below(n), Kind(r) \in {"cmd", "sub"},
           NEW w \in Below(r), level[w] = level[n]
    PROVE  w = r
<1>1. r \in Nodes
  BY BelowFacts
<1>2. CASE Kind(r) = "sub"
  BY <1>2, NotInSub
<1>3. CASE Kind(r) = "cmd"
  BY <1>1, <1>3, TreeFacts, BelowIs
<1> QED BY <1>2, <1>3

(***************************************************************************)
(* Of two pipes of a pipeline, one is left below the other.                *)
(***************************************************************************)
LEMMA SpineCompare ==
    ASSUME tree \in Trees, NEW n \in Nodes, Kind(n) = "pipe",
           NEW w \in Below(n), Kind(w) = "pipe", level[w] = level[n],
           NEW x \in Below(n), Kind(x) = "pipe", level[x] = level[n]
    PROVE  x \in Below(w) \/ w \in Below(x)
<1> DEFINE Good(j) == j \in Below(w) \/ w \in Below(j)
           Bad == {j \in Nodes : j \in Below(n) /\ Kind(j) = "pipe" /\ level[j] = level[n] /\ ~Good(j)}
<1>0. Nodes \in SUBSET Nat /\ 0 \notin Nodes /\ w \in Nodes
  BY PipelineAssumption, BelowFacts DEF Nodes
<1>2. SUFFICES ASSUME Bad # {} PROVE FALSE
  BY BelowFacts
<1>3. PICK j \in Bad : \A i \in Bad : j <= i
  <2>1. Bad \in SUBSET Nat
    BY <1>0
  <2> HIDE DEF Bad
  <2> QED BY <1>2, <2>1, LeastNumber
<1>4. j \in Nodes /\ j \in Below(n) /\ Kind(j) = "pipe" /\ level[j] = level[n] /\ ~Good(j)
  BY <1>3
<1>5. j # n
  BY <1>4
<1>6. PICK v \in Nodes : v = Up(j) /\ v \in Below(n) /\ Kind(v) = "pipe" /\ level[v] = level[n]
  BY <1>4, <1>5, SpineUp
<1>7. j = Left(v) /\ v < j /\ Right(v) \in Nodes
  BY <1>4, <1>6, PipeUnderPipe
<1>8. v \notin Bad
  <2>1. v \in Nat /\ j \in Nat
    BY <1>0, <1>4, <1>6
  <2> HIDE DEF Bad
  <2> QED BY <1>3, <1>7, <2>1
<1>9. v \in Below(w) \/ w \in Below(v)
  BY <1>6, <1>8
<1>10. j \in Below(v)
  BY <1>0, <1>4, <1>6, <1>7, BelowFacts
<1>11. CASE v \in Below(w)
  BY <1>0, <1>4, <1>10, <1>11, BelowNests
<1>12. CASE w \in Below(v)
  <2>1. w # v
    BY <1>4, <1>10, <1>12
  <2>2. w \in Below(j) \/ w \in Below(Right(v))
    BY <1>6, <1>7, <1>12, <2>1, BelowFacts
  <2>3. Kind(Right(v)) \in {"cmd", "sub"} /\ Right(v) \in Below(n)
    <3>1. Kind(Right(v)) \in {"cmd", "sub"} /\ Right(v) # 0
      BY <1>6, TreeFacts
    <3>2. Right(v) \in Below(v)
      BY <1>6, <1>7, <3>1, BelowFacts
    <3> QED BY <1>6, <3>1, <3>2, BelowNests
  <2>4. w \notin Below(Right(v))
    BY <2>3, StageAlone
  <2> QED BY <1>4, <2>2, <2>4
<1> QED BY <1>9, <1>11, <1>12

LEMMA SpineOrder ==
    ASSUME tree \in Trees, NEW n \in Nodes, Kind(n) = "pipe",
           NEW w \in Below(n), Kind(w) = "pipe", level[w] = level[n],
           NEW x \in Below(n), Kind(x) = "pipe", level[x] = level[n], x > w
    PROVE  Left(w) \in Nodes /\ x \in Below(Left(w)) /\ Left(w) <= x
<1>0. x \in Nodes /\ w \in Nodes /\ Nodes \subseteq Nat
  BY PipelineAssumption, BelowFacts DEF Nodes
<1>1. w \notin Below(x)
  <2>1. w \in Below(x) => x <= w
    BY <1>0, BelowFacts
  <2> QED BY <1>0, <2>1
<1>2. x \in Below(w)
  BY <1>1, SpineCompare
<1>3. x # w
  BY <1>0
<1>4. Left(w) \in Nodes /\ Right(w) \in Nodes /\ Right(w) # 0 /\ Kind(Right(w)) \in {"cmd", "sub"}
  BY <1>0, TreeFacts, LeftOfPipe
<1>5. x \notin Below(Right(w))
  <2>1. Right(w) \in Below(n)
    <3>1. Right(w) \in Below(w)
      BY <1>0, <1>4, BelowFacts
    <3> QED BY <3>1, BelowNests
  <2> QED BY <1>4, <2>1, StageAlone
<1>6. x \in Below(Left(w))
  BY <1>0, <1>2, <1>3, <1>5, BelowFacts
<1> QED BY <1>4, <1>6, BelowFacts

(***************************************************************************)
(* exec_pipe starts with the first element, goes on with the next one and  *)
(* ends with the last one, so that none is left out.                       *)
(***************************************************************************)
LEMMA StagePipe ==
    ASSUME tree \in Trees, NEW n \in Nodes, Kind(n) = "pipe", NEW e \in Stages(n)
    PROVE  /\ e \in Nodes /\ e \in Below(n) /\ IsElement(e) /\ e # n
           /\ Up(e) \in Nodes /\ Up(e) \in Below(n) /\ Kind(Up(e)) = "pipe"
           /\ level[Up(e)] = level[n] /\ e \in {Left(Up(e)), Right(Up(e))}
<1>1. e \in Nodes /\ e \in Below(n) /\ IsElement(e) /\ level[e] = level[n]
  BY BelowFacts DEF Stages
<1>2. e # n
  BY <1>1 DEF IsElement
<1> QED BY <1>1, <1>2, SpineUp, ElementFacts

LEMMA FirstStage ==
    ASSUME tree \in Trees, NEW n \in Nodes, Kind(n) = "pipe",
           NEW c \in Below(n), Kind(c) = "pipe", level[c] = level[n], Kind(Left(c)) # "pipe",
           NEW e \in Stages(n)
    PROVE  ~StartedBefore(e, Left(c))
<1>0. c \in Nodes /\ Nodes \subseteq Nat
  BY PipelineAssumption, BelowFacts DEF Nodes
<1>1. Left(c) \in Nodes /\ Left(c) # 0 /\ Up(Left(c)) = c /\ IsFirst(Left(c))
  BY <1>0, LeftOfPipe
<1>2. PICK x \in Nodes : x = Up(e) /\ x \in Below(n) /\ Kind(x) = "pipe" /\ level[x] = level[n]
  BY StagePipe
<1>3. ASSUME x > c
      PROVE  FALSE
  <2>1. x \in Below(Left(c))
    BY <1>0, <1>2, <1>3, SpineOrder
  <2>2. Left(c) \in Below(n)
    BY <1>0, <1>1, BelowFacts, BelowNests
  <2>3. Kind(Left(c)) \in {"cmd", "sub"}
    BY <1>0, TreeFacts
  <2>4. x = Left(c)
    BY <1>2, <2>1, <2>2, <2>3, StageAlone
  <2> QED BY <1>2, <2>3, <2>4
<1> QED BY <1>0, <1>1, <1>2, <1>3 DEF StartedBefore

LEMMA StartedOnly ==
    ASSUME tree \in Trees, NEW n \in Nodes, Kind(n) = "pipe", NEW m \in Stages(n), ~IsLast(m),
           NEW e \in Stages(n), StartedBefore(e, After(m))
    PROVE  StartedBefore(e, m) \/ e = m
<1>0. Nodes \subseteq Nat /\ m \in Nodes /\ IsElement(m) /\ e \in Nodes
  BY PipelineAssumption, StagePipe DEF Nodes
<1>1. PICK x \in Nodes : x = Up(e) /\ x \in Below(n) /\ Kind(x) = "pipe" /\ level[x] = level[n]
                         /\ e \in {Left(x), Right(x)} /\ Kind(e) # "pipe"
  BY StagePipe DEF IsElement
<1>2. PICK u \in Nodes : u = Up(m) /\ u \in Below(n) /\ Kind(u) = "pipe" /\ level[u] = level[n]
                         /\ m \in {Left(u), Right(u)}
  BY StagePipe
<1>3. PICK w \in Nodes : /\ w = Up(After(m)) /\ ~IsFirst(After(m)) /\ Kind(w) = "pipe"
                         /\ \/ w = u /\ IsFirst(m)
                            \/ w = Up(u) /\ w < u /\ u = Left(w)
  BY <1>0, <1>2, NextElement
<1>4. x > w \/ (x = w /\ IsFirst(e))
  BY <1>1, <1>3 DEF StartedBefore
<1>5. CASE w = u /\ IsFirst(m)
  <2>1. CASE x > u
    BY <1>1, <1>2, <2>1 DEF StartedBefore
  <2>2. CASE x = u /\ IsFirst(e)
    BY <1>1, <1>2, <1>5, <2>2 DEF IsFirst
  <2> QED BY <1>4, <1>5, <2>1, <2>2
<1>6. CASE w = Up(u) /\ w < u /\ u = Left(w)
  <2>1. CASE x > w
    <3>1. u <= x
      <4>1. CASE u = n
        BY <1>1, <4>1, BelowFacts
      <4>2. CASE u # n
        <5>1. w \in Below(n) /\ level[w] = level[n]
          BY <1>2, <1>6, <4>2, SpineUp
        <5> QED BY <1>1, <1>3, <1>6, <2>1, <5>1, SpineOrder
      <4> QED BY <4>1, <4>2
    <3>2. CASE x > u
      BY <1>1, <1>2, <3>2 DEF StartedBefore
    <3>3. CASE x = u
      <4>1. ~IsFirst(m)
        <5>1. Right(u) # 0 /\ Up(Right(u)) = u
          BY <1>2, TreeFacts, ParentOfChild
        <5>2. u # w
          BY <1>0, <1>6
        <5> QED BY <1>2, <1>3, <5>1, <5>2 DEF After
      <4>2. m = Right(u)
        BY <1>2, <4>1 DEF IsFirst
      <4>3. IsFirst(e) \/ e = Right(u)
        BY <1>1, <3>3 DEF IsFirst
      <4> QED BY <1>1, <1>2, <3>3, <4>1, <4>2, <4>3 DEF StartedBefore
    <3> QED BY <1>0, <3>1, <3>2, <3>3
  <2>2. CASE x = w /\ IsFirst(e)
    <3>1. e = u
      BY <1>1, <1>6, <2>2 DEF IsFirst
    <3> QED BY <1>1, <1>2, <3>1
  <2> QED BY <1>4, <2>1, <2>2
<1> QED BY <1>3, <1>5, <1>6

LEMMA LastStage ==
    ASSUME tree \in Trees, NEW n \in Nodes, Kind(n) = "pipe", NEW m \in Stages(n), IsLast(m),
           NEW e \in Stages(n)
    PROVE  StartedBefore(e, m) \/ e = m
<1>0. Nodes \subseteq Nat
  BY PipelineAssumption DEF Nodes
<1>1. PICK x \in Nodes : x = Up(e) /\ x \in Below(n) /\ e \in {Left(x), Right(x)}
  BY StagePipe
<1>2. PICK u \in Nodes : u = Up(m) /\ u \in Below(n) /\ Kind(u) = "pipe" /\ level[u] = level[n]
                         /\ m \in {Left(u), Right(u)}
  BY StagePipe
<1>3. m = Right(u) /\ Kind(Up(u)) # "pipe" /\ ~IsFirst(m)
  BY <1>2 DEF IsLast, IsFirst
<1>4. u = n
  BY <1>2, <1>3, SpineUp
<1>5. n <= x
  BY <1>1, BelowFacts
<1>6. CASE x = u
  <2>1. IsFirst(e) \/ e = m
    BY <1>1, <1>3, <1>6 DEF IsFirst
  <2> QED BY <1>1, <1>2, <1>3, <1>6, <2>1 DEF StartedBefore
<1>7. CASE x > u
  BY <1>1, <1>2, <1>7 DEF StartedBefore
<1> QED BY <1>0, <1>4, <1>5, <1>6, <1>7

----------------------------------------------------------------------------
(* Who returns, and from where. *)

AtDown(p, n, k) ==
    proc[p].ctl = "eval" /\ Left(n) # 0 /\ k = Left(n) /\ level[k] = p

AtOver(p, n, k) ==
    /\ proc[p].ctl = "value" /\ Return(p)
    /\ \E w \in Nodes : /\ level[w] = p /\ Kind(w) \in {"and", "or"}
                        /\ n = Left(w) /\ k = Right(w) /\ n # 0 /\ k # 0

AtUp(p, n, k) ==
    /\ proc[p].ctl = "value" /\ proc'[p].ctl = "value" /\ Return(p)
    /\ k = Up(n) /\ level[k] = p /\ Kind(k) \in {"and", "or"} /\ n \in {Left(k), Right(k)}

AtSame(p, n, k) == k = n /\ (proc'[p].ctl # "value" => proc[p].ctl # "value")

AtMoves(p, n, k) ==
    /\ n = proc[p].at /\ k = proc'[p].at
    /\ proc[p].state = "shell" /\ proc[p].ctl # "start"
    /\ proc'[p].state = "shell" /\ proc'[p].ctl # "start"
    /\ AtDown(p, n, k) \/ AtOver(p, n, k) \/ AtUp(p, n, k) \/ AtSame(p, n, k)

LEMMA ListAt ==
    ASSUME Types, NEW p \in Procs, Place(p), ListShapes(p)
    PROVE  \E n \in Nodes, k \in Nodes : AtMoves(p, n, k)
<1>0. tree \in Trees /\ proc[p].state = "shell" /\ proc[p].ctl # "start" /\ proc'[p].state = "shell"
  BY DEF Types, ListShapes, Running, GoesOnWith
<1>1. PICK n \in Nodes : n = proc[p].at
  BY DEF Types, Record
<1>2. CASE /\ Running(p, "eval") /\ Kind(n) \in {"and", "or"}
           /\ GoesOnWith(p, "eval", Left(n), proc[p].cur, proc[p].held)
  <2>1. Left(n) # 0 /\ Left(n) \in Nodes /\ level[Left(n)] = p
    BY <1>0, <1>1, <1>2, TreeFacts, NextPlaces DEF Running
  <2>2. PICK k \in Nodes : k = Left(n)
    BY <2>1
  <2>3. AtMoves(p, n, k)
    BY <1>0, <1>1, <1>2, <2>1, <2>2 DEF AtMoves, AtDown, GoesOnWith, Running
  <2> QED BY <2>3
<1>3. CASE /\ Return(p) /\ Running(p, "value") /\ n # Body(p)
           /\ n = Left(Up(n)) /\ Kind(Up(n)) \in {"and", "or"}
           /\ GoesOnWith(p, "eval", Right(Up(n)), proc[p].cur, proc[p].held)
  <2>1. Up(n) \in Nodes /\ level[Up(n)] = p
    BY <1>0, <1>1, <1>3, NextPlaces DEF Running
  <2>2. PICK w \in Nodes : w = Up(n)
    BY <2>1
  <2>3. Left(w) # 0 /\ Right(w) # 0 /\ Right(w) \in Nodes /\ n = Left(w)
    BY <1>0, <1>3, <2>2, TreeFacts
  <2>4. PICK k \in Nodes : k = Right(w)
    BY <2>3
  <2>5. AtOver(p, n, k)
    BY <1>3, <2>1, <2>2, <2>3, <2>4 DEF AtOver, Running
  <2>6. AtMoves(p, n, k)
    BY <1>0, <1>1, <1>3, <2>2, <2>4, <2>5 DEF AtMoves, GoesOnWith
  <2> QED BY <2>6
<1>4. CASE /\ Return(p) /\ Running(p, "value") /\ n # Body(p)
           /\ GoesOnWith(p, "value", Up(n), proc[p].cur, proc[p].held)
  <2>1. Up(n) \in Nodes /\ level[Up(n)] = p /\ Kind(Up(n)) \in {"and", "or"}
    BY <1>0, <1>1, <1>4, NextPlaces DEF Running
  <2>2. Up(n) # 0
    BY <2>1, PipelineAssumption DEF Nodes
  <2>3. n \in {Left(Up(n)), Right(Up(n))}
    BY <1>0, <2>2, UpFacts
  <2>4. PICK k \in Nodes : k = Up(n)
    BY <2>1
  <2>5. AtMoves(p, n, k)
    BY <1>0, <1>1, <1>4, <2>1, <2>3, <2>4 DEF AtMoves, AtUp, GoesOnWith, Running
  <2> QED BY <2>5
<1>5. CASE proc'[p].at = n /\ proc[p].ctl # "value" /\ proc'[p].ctl # "start"
  <2>1. AtMoves(p, n, n)
    BY <1>0, <1>1, <1>5 DEF AtMoves, AtSame
  <2> QED BY <2>1
<1> QED BY <1>1, <1>2, <1>3, <1>4, <1>5 DEF ListShapes, GoesOnWith, Running

LEMMA WaitAt ==
    ASSUME Types, NEW p \in Procs, WaitShapes(p)
    PROVE  \E n \in Nodes : AtMoves(p, n, n) /\ AtSame(p, n, n)
<1>1. /\ proc[p].state = "shell" /\ proc[p].ctl \in {"eval", "report", "rest", "one", "first"}
      /\ proc'[p].state = "shell" /\ proc'[p].at = proc[p].at
      /\ proc'[p].ctl \in {"value", "report", "rest"}
  BY DEF WaitShapes, Running, Stays, GoesOnWith, Reaps
<1>2. PICK n \in Nodes : n = proc[p].at
  BY DEF Types, Record
<1>3. AtMoves(p, n, n) /\ AtSame(p, n, n)
  BY <1>1, <1>2 DEF AtMoves, AtSame
<1> QED BY <1>3

(***************************************************************************)
(* A result is set in one place, in Return.                                *)
(***************************************************************************)
Tells(p) ==
    /\ Running(p, "value")
    /\ result' = [result EXCEPT ![proc[p].at] = proc[p].val]

LEMMA WhoTells == [Next]_vars => result' = result \/ \E p \in Procs : Return(p)
<1> SUFFICES ASSUME [Next]_vars PROVE result' = result \/ \E p \in Procs : Return(p)
  OBVIOUS
<1>1. CASE UNCHANGED vars
  BY <1>1 DEF vars
<1>2. ASSUME NEW p \in Procs, ShellStep(p) \/ FaultStep(p)
      PROVE  result' = result \/ Return(p)
  BY <1>2 DEF ShellStep, FaultStep, EvalAndOr, EvalBuiltin, EvalExit, EvalFork, EvalPipe, GoDown,
              ForkElement, CloseEnds, CloseEndsOf, WaitOne, ReportStatus, WaitFirst, WaitRest,
              EvalForkFails, ForkElementFails, WaitInterrupted
<1>3. ASSUME NEW q \in Nodes, StartStep(q) \/ ToolStep(q) \/ Writes(q)
      PROVE  result' = result
  BY <1>3 DEF StartStep, StartTool, StartSubshell, ToolStep, Ends, Copies, ReadsEof,
              KilledBySigPipe, Writes
<1> QED BY <1>1, <1>2, <1>3 DEF Next, Finished, vars

(***************************************************************************)
(* What a step of p can tell is about a node of p that it leaves then.     *)
(***************************************************************************)
LEMMA ReturnShapes ==
    ASSUME Types, NEW p \in Procs, Place(p), Return(p)
    PROVE  /\ Tells(p) /\ tree' = tree /\ level[proc[p].at] = p
           /\ \/ EndsNow(p)
              \/ \E k : GoesOnWith(p, "eval", k, proc[p].cur, proc[p].held)
                        /\ k = Right(Up(proc[p].at)) /\ proc[p].at = Left(Up(proc[p].at))
                        /\ GoesOn(Up(proc[p].at), proc[p].val)
                        /\ proc'[p].val = proc[p].val /\ proc[p].at # Body(p)
              \/ \E k : GoesOnWith(p, "value", k, proc[p].cur, proc[p].held)
                        /\ k = Up(proc[p].at) /\ proc[p].at # Body(p)
                        /\ ~(proc[p].at = Left(k) /\ GoesOn(k, proc[p].val))
                        /\ proc'[p].val = proc[p].val
<1> DEFINE n == proc[p].at
           u == Up(n)
           v == proc[p].val
<1>1. Tells(p) /\ tree' = tree /\ level[n] = p /\ proc[p].state = "shell"
  BY DEF Return, Tells, Running, Place
<1>2. CASE n = Body(p) /\ Exit(p, v)
  BY <1>1, <1>2, ExitEnds
<1>3. CASE /\ n # Body(p) /\ n = Left(u) /\ GoesOn(u, v)
           /\ proc' = [proc EXCEPT ![p].at = Right(u), ![p].ctl = "eval"]
  <2>1. GoesOnWith(p, "eval", Right(u), proc[p].cur, proc[p].held) /\ proc'[p].val = v
    BY <1>1, <1>3 DEF Types, Record, Untouched, GoesOnWith
  <2> QED BY <1>1, <1>3, <2>1
<1>4. CASE /\ n # Body(p) /\ ~(n = Left(u) /\ GoesOn(u, v))
           /\ proc' = [proc EXCEPT ![p].at = u]
  <2>1. proc[p].ctl = "value"
    BY DEF Return, Running
  <2>2. GoesOnWith(p, "value", u, proc[p].cur, proc[p].held) /\ proc'[p].val = v
    BY <1>1, <1>4, <2>1 DEF Types, Record, Untouched, GoesOnWith
  <2> QED BY <1>1, <1>4, <2>2
<1> QED BY <1>2, <1>3, <1>4 DEF Return

(***************************************************************************)
(* On the way down, over and up, what has not returned: the node that a    *)
(* process leaves for another one is neither below nor around that one.    *)
(***************************************************************************)
LEMMA DownIn ==
    ASSUME tree \in Trees, NEW p, NEW n \in Nodes, NEW k, Left(n) # 0, k = Left(n), level[k] = p,
           NEW S, AllIn(p, n, S), AheadIn(p, n, S)
    PROVE  AllIn(p, k, S) /\ AheadIn(p, k, S)
<1>1. k \in Nodes /\ Up(k) = n /\ Below(k) \subseteq Below(n) /\ k \in Below(k) /\ Below(0) = {}
  BY ParentOfChild, BelowFacts, BelowIs
<1>2. AllIn(p, k, S)
  BY <1>1 DEF AllIn
<1>3. ASSUME NEW u \in Nodes, level[u] = p, k \in Below(u)
      PROVE  u \in S
  <2>1. CASE u = k
    BY <1>1, <1>2, <2>1 DEF AllIn
  <2>2. CASE u # k
    <3>1. n \in Below(u)
      BY <1>1, <1>3, <2>2, UpBelow
    <3> QED BY <1>3, <3>1 DEF AheadIn
  <2> QED BY <2>1, <2>2
<1>4. ASSUME NEW u \in Nodes, level[u] = p, k \in Below(Left(u))
      PROVE  AllIn(p, Right(u), S)
  <2>1. CASE u = n
    <3>1. Below(Right(n)) \subseteq Below(n)
      BY <1>1, BelowFacts
    <3> QED BY <2>1, <3>1 DEF AllIn
  <2>2. CASE n \in Below(Left(u))
    BY <1>4, <2>2 DEF AheadIn
  <2> QED BY <1>4, <2>1, <2>2, WayDown
<1> QED BY <1>2, <1>3, <1>4 DEF AheadIn

LEMMA OtherSide ==
    ASSUME tree \in Trees, NEW p, NEW S, NEW u \in Nodes, NEW n \in Below(Left(u)),
           AllIn(p, Right(u), S)
    PROVE  AllIn(p, Right(u), S \ {n})
<1>1. n \notin Below(Right(u))
  BY SidesApart, BelowIs
<1> QED BY <1>1 DEF AllIn

LEMMA OverIn ==
    ASSUME tree \in Trees, NEW p, NEW w \in Nodes, level[w] = p, NEW n, NEW k,
           n = Left(w), k = Right(w), n # 0, k # 0, NEW S, AheadIn(p, n, S)
    PROVE  AllIn(p, k, S \ {n}) /\ AheadIn(p, k, S \ {n})
<1>1. /\ n \in Nodes /\ k \in Nodes /\ Up(k) = w
      /\ n \in Below(n) /\ k \in Below(k) /\ n \in Below(w)
  BY ParentOfChild, BelowFacts
<1>2. AllIn(p, k, S \ {n})
  BY <1>1, OtherSide DEF AheadIn
<1>3. ASSUME NEW u \in Nodes, level[u] = p, k \in Below(u)
      PROVE  u \in S \ {n}
  <2>1. CASE u = k
    BY <1>1, <1>3, <1>2, <2>1 DEF AllIn
  <2>2. CASE u # k
    <3>1. w \in Below(u)
      BY <1>1, <1>3, <2>2, UpBelow
    <3>2. n \in Below(u)
      BY <1>1, <3>1, BelowNests
    <3>3. u # n
      BY <1>1, <1>3, SidesApart
    <3> QED BY <1>3, <3>2, <3>3 DEF AheadIn
  <2> QED BY <2>1, <2>2
<1>4. ASSUME NEW u \in Nodes, level[u] = p, k \in Below(Left(u))
      PROVE  AllIn(p, Right(u), S \ {n})
  <2>1. n \in Below(Left(u))
    BY <1>1, <1>4, WayOver
  <2> QED BY <1>4, <2>1, OtherSide DEF AheadIn
<1> QED BY <1>2, <1>3, <1>4 DEF AheadIn

LEMMA UpIn ==
    ASSUME tree \in Trees, NEW p, NEW n \in Nodes, NEW k \in Nodes, n \in {Left(k), Right(k)},
           NEW S, AheadIn(p, n, S)
    PROVE  AheadIn(p, k, S \ {n})
<1>1. n > k /\ n \in Below(k)
  <2>1. n # 0
    BY PipelineAssumption DEF Nodes
  <2>2. n \in Below(n)
    BY BelowFacts
  <2> QED BY <2>1, <2>2, TreeFacts, BelowFacts
<1>2. ASSUME NEW u \in Nodes, level[u] = p, k \in Below(u)
      PROVE  u \in S \ {n}
  <2>1. n \in Below(u) /\ u <= k
    BY <1>1, <1>2, BelowNests, BelowFacts
  <2>2. u # n
    BY <1>1, <2>1, PipelineAssumption DEF Nodes
  <2> QED BY <1>2, <2>1, <2>2 DEF AheadIn
<1>3. ASSUME NEW u \in Nodes, level[u] = p, k \in Below(Left(u))
      PROVE  AllIn(p, Right(u), S \ {n})
  <2>1. n \in Below(Left(u))
    BY <1>1, <1>3, WayUp
  <2> QED BY <1>3, <2>1, OtherSide DEF AheadIn
<1> QED BY <1>2, <1>3 DEF AheadIn

LEMMA InKept ==
    ASSUME tree' = tree, NEW p, NEW n, NEW S,
           \A r \in Nodes : level[r] = p /\ r \in S => r \in NotYet',
           tree \in Trees
    PROVE  /\ n \in Nodes /\ AllIn(p, n, S) => AllIn(p, n, NotYet)'
           /\ AheadIn(p, n, S) => AheadIn(p, n, NotYet)'
<1>1. level' = level /\ Nodes' = Nodes
  BY SameTree DEF Nodes
<1>2. \A u \in Nodes : /\ Below(u)' = Below(u) /\ Below(Left(u))' = Below(Left(u))
                       /\ Below(Right(u))' = Below(Right(u))
  BY SameTree
<1>3. \A u \in Nodes : Below(u) \subseteq Nodes /\ Below(Right(u)) \subseteq Nodes
  BY TreeFacts, BelowFacts, BelowIs
<1>4. n \in Nodes /\ AllIn(p, n, S) => AllIn(p, n, NotYet)'
  BY <1>1, <1>2, <1>3 DEF AllIn
<1>5. AheadIn(p, n, S) => AheadIn(p, n, NotYet)'
  BY <1>1, <1>2, <1>3 DEF AllIn, AheadIn
<1> QED BY <1>4, <1>5

ResultTypes == result \in [Nodes -> Status \cup {NoResult}]

LEMMA TellsOnly ==
    ASSUME Types, ResultTypes, NEW p \in Procs, Tells(p)
    PROVE  /\ ResultTypes'
           /\ \A r \in Nodes : r # proc[p].at => result'[r] = result[r]
           /\ result'[proc[p].at] = proc[p].val
           /\ \A r \in NotYet : r # proc[p].at => r \in NotYet'
<1>1. proc[p].at \in Nodes /\ proc[p].val \in Status
  BY DEF Types, Record
<1>2. \A r \in Nodes : r # proc[p].at => result'[r] = result[r]
  BY DEF Tells, ResultTypes
<1>3. result'[proc[p].at] = proc[p].val
  BY <1>1 DEF Tells, ResultTypes
<1>4. ResultTypes'
  BY <1>1 DEF Tells, ResultTypes, Nodes, Status, NoResult
<1>5. \A r \in NotYet : r # proc[p].at => r \in NotYet'
  BY <1>2 DEF NotYet, Nodes
<1> QED BY <1>2, <1>3, <1>4, <1>5

LEMMA SilentAt ==
    ASSUME NEW p, NEW k, k = proc'[p].at, proc'[p].state = "shell", proc'[p].ctl # "start",
           AheadIn(p, k, NotYet)', proc'[p].ctl # "value" => AllIn(p, k, NotYet)'
    PROVE  Silent(p)'
BY DEF Silent

LEMMA SameSilent ==
    ASSUME Types, tree' = tree, NEW r \in Procs, Silent(r), proc'[r] = proc[r],
           \A x \in Nodes : level[x] = r /\ x \in NotYet => x \in NotYet'
    PROVE  Silent(r)'
<1>0. tree \in Trees
  BY DEF Types
<1>1. CASE proc[r].state = "shell" /\ proc[r].ctl # "start"
  <2>1. PICK n \in Nodes : n = proc[r].at
    BY DEF Types, Record
  <2>2. AheadIn(r, n, NotYet) /\ (proc[r].ctl # "value" => AllIn(r, n, NotYet))
    BY <1>1, <2>1 DEF Silent
  <2>3. AheadIn(r, n, NotYet)' /\ (proc[r].ctl # "value" => AllIn(r, n, NotYet)')
    BY <1>0, <2>2, InKept
  <2> QED BY <1>1, <2>1, <2>3, SilentAt
<1>2. CASE ~(proc[r].state = "shell" /\ proc[r].ctl # "start")
  <2>1. level' = level /\ Nodes' = Nodes
    BY SameTree DEF Nodes
  <2> QED BY <1>2, <2>1 DEF Silent, Unborn
<1> QED BY <1>1, <1>2

LEMMA MoveSilent ==
    ASSUME Types, tree' = tree, NEW p \in Procs, Silent(p),
           NEW n \in Nodes, NEW k \in Nodes, AtMoves(p, n, k), result' = result
    PROVE  Silent(p)'
<1>0. tree \in Trees
  BY DEF Types
<1>1. AheadIn(p, n, NotYet) /\ (proc[p].ctl # "value" => AllIn(p, n, NotYet))
  BY DEF Silent, AtMoves
<1>2. \A r : r \in NotYet => r \in NotYet'
  BY DEF NotYet, Nodes
<1>3. AheadIn(p, k, NotYet)' /\ (proc'[p].ctl # "value" => AllIn(p, k, NotYet)')
  <2>1. CASE AtDown(p, n, k)
    <3>1. AheadIn(p, k, NotYet) /\ AllIn(p, k, NotYet)
      BY <1>0, <1>1, <2>1, DownIn DEF AtDown
    <3> QED BY <1>0, <1>2, <3>1, InKept
  <2>2. CASE AtOver(p, n, k)
    <3>1. AheadIn(p, k, NotYet \ {n}) /\ AllIn(p, k, NotYet \ {n})
      BY <1>0, <1>1, <2>2, OverIn DEF AtOver
    <3> QED BY <1>0, <1>2, <3>1, InKept
  <2>3. CASE AtUp(p, n, k)
    <3>1. AheadIn(p, k, NotYet \ {n}) /\ proc'[p].ctl = "value"
      BY <1>0, <1>1, <2>3, UpIn DEF AtUp
    <3> QED BY <1>0, <1>2, <3>1, InKept
  <2>4. CASE AtSame(p, n, k)
    BY <1>0, <1>1, <1>2, <2>4, InKept DEF AtSame
  <2> QED BY <2>1, <2>2, <2>3, <2>4 DEF AtMoves
<1> QED BY <1>3, SilentAt DEF AtMoves

LEMMA ReturnSilent ==
    ASSUME Types, ResultTypes, NEW p \in Procs, Place(p), Silent(p), Return(p)
    PROVE  Silent(p)'
<1>0. tree \in Trees
  BY DEF Types
<1>1. Tells(p) /\ tree' = tree /\ level[proc[p].at] = p
  BY ReturnShapes
<1>2. PICK n \in Nodes : n = proc[p].at
  BY DEF Types, Record
<1>3. AheadIn(p, n, NotYet)
  BY <1>1, <1>2 DEF Silent, Tells, Running
<1>4. \A r \in NotYet \ {n} : r \in NotYet'
  BY <1>1, <1>2, TellsOnly
<1>5. CASE EndsNow(p)
  BY <1>5 DEF EndsNow, Silent, Unborn
<1>6. ASSUME NEW c \in {"eval", "value"}, NEW k, k \in Nodes,
             GoesOnWith(p, c, k, proc[p].cur, proc[p].held),
             AheadIn(p, k, NotYet \ {n}), c = "eval" => AllIn(p, k, NotYet \ {n})
      PROVE  Silent(p)'
  <2>1. AheadIn(p, k, NotYet)' /\ (c = "eval" => AllIn(p, k, NotYet)')
    BY <1>0, <1>1, <1>4, <1>6, InKept
  <2> QED BY <1>6, <2>1, SilentAt DEF GoesOnWith
<1>7. CASE n = Body(p)
  <2>1. EndsNow(p)
    BY <1>2, <1>7, ReturnShapes
  <2> QED BY <1>5, <2>1
<1>8. CASE n # Body(p)
  <2>1. Up(n) \in Nodes /\ level[Up(n)] = p /\ Right(Up(n)) \in Nodes
    BY <1>1, <1>2, <1>8, NextPlaces DEF Tells, Running
  <2>2. PICK w \in Nodes : w = Up(n) /\ level[w] = p
    BY <2>1
  <2>3. Up(n) # 0 /\ n # 0 /\ Right(w) # 0
    BY <2>1, <2>2, PipelineAssumption DEF Nodes
  <2>4. n \in {Left(w), Right(w)}
    BY <1>0, <2>2, <2>3, UpFacts
  <2>5. AheadIn(p, w, NotYet \ {n})
    BY <1>0, <1>3, <2>4, UpIn
  <2>6. n = Left(w) => AheadIn(p, Right(w), NotYet \ {n}) /\ AllIn(p, Right(w), NotYet \ {n})
    BY <1>0, <1>3, <2>2, <2>3, OverIn
  <2>7. \/ EndsNow(p)
        \/ GoesOnWith(p, "eval", Right(w), proc[p].cur, proc[p].held) /\ n = Left(w)
        \/ GoesOnWith(p, "value", w, proc[p].cur, proc[p].held)
    BY <1>2, <2>2, ReturnShapes
  <2> QED BY <1>5, <1>6, <2>1, <2>2, <2>5, <2>6, <2>7
<1> QED BY <1>7, <1>8

LEMMA StartSilent ==
    ASSUME Types, tree' = tree, NEW p \in Procs, Place(p), Silent(p), StartShapes(p),
           result' = result
    PROVE  Silent(p)'
<1>0. tree \in Trees /\ Running(p, "start")
  BY DEF Types, StartShapes
<1>1. CASE BecomesTool(p, ConnectedHeld(p))
  BY <1>1 DEF BecomesTool, Silent, Unborn
<1>2. CASE /\ Kind(p) = "sub"
           /\ \E h \in SUBSET End : GoesOnWith(p, "eval", Left(p), proc[p].cur, h)
  <2>1. Left(p) \in Nodes
    BY <1>0, <1>2, NextPlaces DEF Running
  <2>2. PICK k \in Nodes : k = Left(p)
    BY <2>1
  <2>3. \A r \in Nodes : level[r] = p => r \in NotYet
    BY <1>0 DEF Silent, Running
  <2>4. \A u \in Nodes : Below(u) \subseteq Nodes /\ Below(Right(u)) \subseteq Nodes
    BY <1>0, TreeFacts, BelowFacts, BelowIs
  <2>5. AllIn(p, k, NotYet) /\ AheadIn(p, k, NotYet)
    BY <2>3, <2>4 DEF AllIn, AheadIn
  <2>6. \A r : r \in NotYet => r \in NotYet'
    BY DEF NotYet, Nodes
  <2>7. AllIn(p, k, NotYet)' /\ AheadIn(p, k, NotYet)'
    BY <1>0, <2>5, <2>6, InKept
  <2> QED BY <1>2, <2>2, <2>7, SilentAt DEF GoesOnWith
<1> QED BY <1>1, <1>2 DEF StartShapes

LEMMA ForkSilent ==
    ASSUME Types, tree' = tree, NEW p \in Procs, Place(p), Fresh(p), NEW q \in Nodes, NEW c, NEW h,
           ForkIs(p, q, c, h), c \in {"one", "close"}, Silent(p), Silent(q), result' = result
    PROVE  Silent(p)' /\ Silent(q)'
<1>1. Unborn(q)
  <2>1. AllUnborn(q) /\ tree \in Trees
    BY DEF ForkIs, Fresh, Position, Types
  <2> QED BY <2>1, BelowFacts DEF AllUnborn
<1>2. proc'[q].state = "shell" /\ proc'[q].ctl = "start"
  BY DEF ForkIs, Makes
<1>3. level' = level /\ Nodes' = Nodes /\ \A r : r \in NotYet => r \in NotYet'
  BY SameTree DEF Nodes, NotYet
<1>4. \A r \in Nodes : level[r] = q => r \in NotYet
  BY <1>1 DEF Silent, Unborn
<1>5. Silent(q)'
  BY <1>2, <1>3, <1>4 DEF Silent
<1>6. PICK n \in Nodes : n = proc[p].at
  BY DEF Types, Record
<1>7. AtMoves(p, n, n)
  BY <1>6 DEF ForkIs, Makes, AtMoves, AtSame
<1>8. Silent(p)'
  BY <1>7, MoveSilent
<1> QED BY <1>5, <1>8

LEMMA SilentStep ==
    ASSUME Types, ResultTypes, StepShapes, [Next]_vars,
           \A p \in Procs : Place(p) /\ Fresh(p) /\ Silent(p)
    PROVE  ResultTypes' /\ \A p \in Procs : Silent(p)'
<1>0. tree' = tree
  BY DEF StepShapes
<1>1. ASSUME NEW p \in Procs, Return(p)
      PROVE  ResultTypes' /\ \A r \in Procs : Silent(r)'
  <2>1. Silent(p)' /\ Tells(p) /\ level[proc[p].at] = p
    BY <1>1, ReturnSilent, ReturnShapes
  <2>2. \A r \in Procs : r # p => proc'[r] = proc[r]
    BY <1>1, ReturnShapes DEF EndsNow, GoesOnWith, Untouched
  <2>3. ResultTypes' /\ \A x \in NotYet : x # proc[p].at => x \in NotYet'
    BY <2>1, TellsOnly
  <2>4. \A r \in Procs : r # p => Silent(r)'
    BY <1>0, <2>1, <2>2, <2>3, SameSilent
  <2> QED BY <2>1, <2>3, <2>4
<1>2. ASSUME result' = result
      PROVE  ResultTypes' /\ \A r \in Procs : Silent(r)'
  <2>0. ResultTypes' /\ \A x : x \in NotYet => x \in NotYet'
    BY <1>2 DEF ResultTypes, NotYet, Nodes, Status, NoResult
  <2>1. CASE proc' = proc
    BY <1>0, <2>0, <2>1, SameSilent
  <2>2. ASSUME NEW p \in Procs, ListShapes(p) \/ WaitShapes(p)
        PROVE  \A r \in Procs : Silent(r)'
    <3>1. \E n \in Nodes, k \in Nodes : AtMoves(p, n, k)
      BY <2>2, ListAt, WaitAt
    <3>2. Silent(p)'
      BY <1>0, <1>2, <3>1, MoveSilent
    <3>3. \A r \in Procs : r # p => proc'[r] = proc[r] \/ proc'[r].state = "gone"
      BY <2>2 DEF ListShapes, WaitShapes, Stays, Reaps, GoesOnWith, Untouched
    <3>4. \A r \in Procs : proc'[r].state = "gone" => Silent(r)'
      BY DEF Silent, Unborn
    <3> QED BY <1>0, <2>0, <3>2, <3>3, <3>4, SameSilent
  <2>3. ASSUME NEW p \in Procs, ForkShapes(p)
        PROVE  \A r \in Procs : Silent(r)'
    <3>1. PICK q \in Nodes, c \in {"one", "close"}, h \in SUBSET End : ForkIs(p, q, c, h)
      BY <2>3, ForkWho
    <3>2. Silent(p)' /\ Silent(q)'
      BY <1>0, <1>2, <3>1, ForkSilent DEF Procs
    <3>3. \A r \in Procs : r # p /\ r # q => proc'[r] = proc[r]
      BY <3>1 DEF ForkIs, Makes, Untouched
    <3> QED BY <1>0, <2>0, <3>2, <3>3, SameSilent
  <2>4. ASSUME NEW p \in Procs, EndShapes(p) \/ StartShapes(p)
        PROVE  \A r \in Procs : Silent(r)'
    <3>1. Silent(p)'
      <4>1. CASE EndShapes(p)
        BY <4>1 DEF EndShapes, EndsNow, Silent, Unborn
      <4>2. CASE StartShapes(p)
        BY <1>0, <1>2, <4>2, StartSilent
      <4> QED BY <2>4, <4>1, <4>2
    <3>2. \A r \in Procs : r # p => proc'[r] = proc[r]
      BY <2>4 DEF EndShapes, EndsNow, StartShapes, BecomesTool, GoesOnWith, Untouched
    <3> QED BY <1>0, <2>0, <3>1, <3>2, SameSilent
  <2> QED BY <2>0, <2>1, <2>2, <2>3, <2>4 DEF StepShapes
<1> QED BY <1>1, <1>2, WhoTells

(***************************************************************************)
(* What a node has returned stays: none is returned from twice.            *)
(***************************************************************************)
ToldStays == \A r \in Nodes : result[r] # NoResult => result'[r] = result[r]

LEMMA ToldOnce ==
    ASSUME Types, ResultTypes, [Next]_vars, \A p \in Procs : Place(p) /\ Silent(p)
    PROVE  ToldStays
<1>1. CASE result' = result
  BY <1>1 DEF ToldStays
<1>2. ASSUME NEW p \in Procs, Return(p)
      PROVE  ToldStays
  <2>1. Tells(p) /\ level[proc[p].at] = p
    BY <1>2, ReturnShapes
  <2>2. PICK n \in Nodes : n = proc[p].at /\ level[n] = p
    BY <2>1 DEF Types, Record
  <2>3. n \in Below(n)
    BY BelowFacts DEF Types
  <2>4. n \in NotYet
    BY <2>1, <2>2, <2>3 DEF Silent, AheadIn, Tells, Running
  <2> QED BY <2>1, <2>2, <2>4, TellsOnly DEF ToldStays, NotYet
<1> QED BY <1>1, <1>2, WhoTells

LEMMA DecidedKept ==
    ASSUME tree \in Trees, tree' = tree, ToldStays, NEW p, NEW n, DecidedAt(p, n)
    PROVE  DecidedAt(p, n)'
<1>1. level' = level /\ Nodes' = Nodes
  BY SameTree DEF Nodes
<1>2. \A u \in Nodes : /\ Kind(u)' = Kind(u) /\ Left(u)' = Left(u)
                       /\ Below(Right(u))' = Below(Right(u))
  BY SameTree
<1>3. ASSUME NEW u \in Nodes, level[u] = p, Kind(u) \in {"and", "or"}, n \in Below(Right(u))
      PROVE  result'[Left(u)] = IF Kind(u) = "and" THEN 0 ELSE 1
  <2>1. Left(u) \in Nodes
    BY <1>3, TreeFacts
  <2>2. result[Left(u)] = IF Kind(u) = "and" THEN 0 ELSE 1
    BY <1>3 DEF DecidedAt
  <2> QED BY <2>1, <2>2 DEF ToldStays, NoResult
<1>4. ASSUME NEW u \in Nodes, level[u] = p, Kind(u) \in {"and", "or"}, n \in Below(Right(u))
      PROVE  result'[Left(u)'] = IF Kind(u)' = "and" THEN 0 ELSE 1
  BY <1>2, <1>3, <1>4
<1> QED BY <1>1, <1>2, <1>4 DEF DecidedAt

LEMMA DecidedHere ==
    ASSUME NEW p, NEW k, k = proc'[p].at, DecidedAt(p, k)'
    PROVE  Decided(p)'
BY DEF Decided

LEMMA SameDecided ==
    ASSUME Types, tree' = tree, ToldStays, NEW r \in Procs, Decided(r), proc'[r] = proc[r]
    PROVE  Decided(r)'
<1>1. CASE proc[r].state = "shell" /\ proc[r].ctl # "start"
  <2>1. PICK n : n = proc[r].at
    OBVIOUS
  <2>2. DecidedAt(r, n)'
    BY <1>1, <2>1, DecidedKept DEF Decided, Types
  <2> QED BY <2>1, <2>2, DecidedHere
<1>2. CASE ~(proc[r].state = "shell" /\ proc[r].ctl # "start")
  BY <1>2 DEF Decided
<1> QED BY <1>1, <1>2

LEMMA MoveDecided ==
    ASSUME Types, ResultTypes, tree' = tree, ToldStays, NEW p \in Procs, Place(p), Decided(p),
           NEW n \in Nodes, NEW k \in Nodes, AtMoves(p, n, k)
    PROVE  Decided(p)'
<1>0. tree \in Trees /\ Below(0) = {}
  BY BelowIs DEF Types
<1>1. DecidedAt(p, n) /\ n = proc[p].at /\ k = proc'[p].at /\ proc'[p].state = "shell"
  BY DEF Decided, AtMoves
<1>2. CASE AtDown(p, n, k)
  <2>1. \A u \in Nodes : k \in Below(Right(u)) => n \in Below(Right(u))
    BY <1>0, <1>2, WayDown DEF AtDown
  <2>2. DecidedAt(p, k)
    BY <1>1, <2>1 DEF DecidedAt
  <2> QED BY <1>0, <1>1, <2>2, DecidedKept, DecidedHere
<1>3. CASE AtUp(p, n, k)
  <2>1. n \in Below(k)
    <3>1. n # 0 /\ n \in Below(n)
      BY <1>0, BelowFacts, PipelineAssumption DEF Nodes
    <3> QED BY <1>0, <1>3, <3>1, BelowFacts DEF AtUp
  <2>2. \A u \in Nodes : k \in Below(Right(u)) => n \in Below(Right(u))
    BY <1>0, <2>1, WayUp
  <2>3. DecidedAt(p, k)
    BY <1>1, <2>2 DEF DecidedAt
  <2> QED BY <1>0, <1>1, <2>3, DecidedKept, DecidedHere
<1>4. CASE AtSame(p, n, k)
  BY <1>0, <1>1, <1>4, DecidedKept, DecidedHere DEF AtSame
<1>5. CASE AtOver(p, n, k)
  <2>1. PICK w \in Nodes : /\ level[w] = p /\ Kind(w) \in {"and", "or"}
                           /\ n = Left(w) /\ k = Right(w) /\ n # 0 /\ k # 0
    BY <1>5 DEF AtOver
  <2>2. Up(n) = w /\ k # w /\ n \in Below(Left(w))
    <3>1. k > w /\ n \in Below(n) /\ Up(n) = w
      BY <1>0, <2>1, TreeFacts, ParentOfChild, BelowFacts
    <3> QED BY <2>1, <3>1, PipelineAssumption DEF Nodes
  <2>3. GoesOn(w, proc[p].val) /\ Tells(p)
    BY <1>1, <1>5, <2>2, ReturnShapes DEF AtOver, EndsNow, GoesOnWith
  <2>4. result'[n] = IF Kind(w) = "and" THEN 0 ELSE 1
    <3>1. result'[n] = proc[p].val /\ proc[p].val \in {0, 1}
      BY <1>1, <2>3, TellsOnly DEF Types, Record, Status
    <3> QED BY <2>1, <2>3, <3>1 DEF GoesOn
  <2>5. \A u \in Nodes : k \in Below(Right(u)) => u = w \/ n \in Below(Right(u))
    BY <1>0, <2>1, <2>2, WayOver
  <2>6. DecidedAt(p, n)'
    BY <1>0, <1>1, DecidedKept
  <2>7. /\ level' = level /\ Nodes' = Nodes
        /\ \A u \in Nodes : /\ Kind(u)' = Kind(u) /\ Left(u)' = Left(u)
                            /\ Below(Right(u))' = Below(Right(u))
    BY SameTree DEF Nodes
  <2>8. DecidedAt(p, k)'
    BY <2>1, <2>4, <2>5, <2>6, <2>7 DEF DecidedAt
  <2> QED BY <1>1, <2>8, DecidedHere
<1> QED BY <1>2, <1>3, <1>4, <1>5 DEF AtMoves

LEMMA StartDecided ==
    ASSUME Types, tree' = tree, ToldStays, NEW p \in Procs, Place(p), StartShapes(p)
    PROVE  Decided(p)'
<1>0. tree \in Trees /\ Running(p, "start")
  BY DEF Types, StartShapes
<1>1. CASE BecomesTool(p, ConnectedHeld(p))
  BY <1>1 DEF BecomesTool, Decided
<1>2. CASE /\ Kind(p) = "sub"
           /\ \E h \in SUBSET End : GoesOnWith(p, "eval", Left(p), proc[p].cur, h)
  <2>1. p \in Nodes
    BY <1>0 DEF Place, Running
  <2>2. Left(p) \in Nodes /\ Left(p) # 0
    BY <1>0, <1>2, <2>1, TreeFacts
  <2>3. PICK k \in Nodes : k = Left(p)
    BY <2>2
  <2>4. DecidedAt(p, k)
    BY <1>0, <2>1, <2>2, <2>3, WayIn DEF DecidedAt
  <2>5. k = proc'[p].at
    BY <1>2, <2>3 DEF GoesOnWith
  <2> QED BY <1>0, <2>4, <2>5, DecidedKept, DecidedHere
<1> QED BY <1>1, <1>2 DEF StartShapes

LEMMA DecidedStep ==
    ASSUME Types, ResultTypes, StepShapes, [Next]_vars,
           \A p \in Procs : Place(p) /\ Silent(p) /\ Decided(p)
    PROVE  \A p \in Procs : Decided(p)'
<1>0. tree' = tree /\ ToldStays
  BY ToldOnce DEF StepShapes
<1>1. CASE proc' = proc
  BY <1>0, <1>1, SameDecided
<1>2. ASSUME NEW p \in Procs, ListShapes(p) \/ WaitShapes(p)
      PROVE  \A r \in Procs : Decided(r)'
  <2>1. \E n \in Nodes, k \in Nodes : AtMoves(p, n, k)
    BY <1>2, ListAt, WaitAt
  <2>2. Decided(p)'
    BY <1>0, <2>1, MoveDecided
  <2>3. \A r \in Procs : r # p => proc'[r] = proc[r] \/ proc'[r].state = "gone"
    BY <1>2 DEF ListShapes, WaitShapes, Stays, Reaps, GoesOnWith, Untouched
  <2>4. \A r \in Procs : proc'[r].state = "gone" => Decided(r)'
    BY DEF Decided
  <2> QED BY <1>0, <2>2, <2>3, <2>4, SameDecided
<1>3. ASSUME NEW p \in Procs, ForkShapes(p)
      PROVE  \A r \in Procs : Decided(r)'
  <2>1. PICK q \in Nodes, c \in {"one", "close"}, h \in SUBSET End : ForkIs(p, q, c, h)
    BY <1>3, ForkWho
  <2>2. PICK n \in Nodes : n = proc[p].at
    BY DEF Types, Record
  <2>3. AtMoves(p, n, n)
    BY <2>1, <2>2 DEF ForkIs, Makes, AtMoves, AtSame
  <2>4. Decided(p)' /\ Decided(q)'
    <3>1. Decided(p)'
      BY <1>0, <2>3, MoveDecided
    <3>2. Decided(q)'
      BY <2>1 DEF ForkIs, Makes, Decided
    <3> QED BY <3>1, <3>2
  <2>5. \A r \in Procs : r # p /\ r # q => proc'[r] = proc[r]
    BY <2>1 DEF ForkIs, Makes, Untouched
  <2> QED BY <1>0, <2>4, <2>5, SameDecided
<1>4. ASSUME NEW p \in Procs, EndShapes(p) \/ StartShapes(p)
      PROVE  \A r \in Procs : Decided(r)'
  <2>1. Decided(p)'
    <3>1. CASE EndShapes(p)
      BY <3>1 DEF EndShapes, EndsNow, Decided
    <3>2. CASE StartShapes(p)
      BY <1>0, <3>2, StartDecided
    <3> QED BY <1>4, <3>1, <3>2
  <2>2. \A r \in Procs : r # p => proc'[r] = proc[r]
    BY <1>4 DEF EndShapes, EndsNow, StartShapes, BecomesTool, GoesOnWith, Untouched
  <2> QED BY <1>0, <2>1, <2>2, SameDecided
<1> QED BY <1>1, <1>2, <1>3, <1>4 DEF StepShapes

(***************************************************************************)
(* Through a pipeline.                                                     *)
(***************************************************************************)
LEMMA BornStays ==
    ASSUME Types, \A p \in Procs : Place(p), StepShapes
    PROVE  \A r \in Procs : ~Unborn(r) => ~Unborn(r)'
<1>1. CASE proc' = proc
  BY <1>1 DEF Unborn
<1>2. ASSUME NEW p \in Procs, ListShapes(p) \/ WaitShapes(p)
      PROVE  \A r \in Procs : ~Unborn(r) => ~Unborn(r)'
  BY <1>2 DEF ListShapes, WaitShapes, Stays, Reaps, GoesOnWith, Untouched, Unborn
<1>3. ASSUME NEW p \in Procs, ForkShapes(p)
      PROVE  \A r \in Procs : ~Unborn(r) => ~Unborn(r)'
  <2>1. PICK q \in Nodes, c \in {"one", "close"}, h \in SUBSET End : ForkIs(p, q, c, h)
    BY <1>3, ForkWho
  <2> QED BY <2>1 DEF ForkIs, Makes, Untouched, Unborn
<1>4. ASSUME NEW p \in Procs, EndShapes(p) \/ StartShapes(p)
      PROVE  \A r \in Procs : ~Unborn(r) => ~Unborn(r)'
  BY <1>4 DEF EndShapes, EndsNow, StartShapes, BecomesTool, GoesOnWith, Untouched, Unborn
<1> QED BY <1>1, <1>2, <1>3, <1>4 DEF StepShapes

LEMMA SameStages ==
    ASSUME tree' = tree, tree \in Trees
    PROVE  \A n \in Nodes : Stages(n)' = Stages(n) /\ Stages(n) \subseteq Nodes
<1>1. level' = level /\ (\A n : Below(n)' = Below(n)) /\ (\A n : IsElement(n)' = IsElement(n))
  BY SameTree, SameElements
<1> QED BY <1>1, BelowFacts DEF Stages

LEMMA PipeAtKept ==
    ASSUME tree' = tree, tree \in Trees, \A r \in Procs : ~Unborn(r) => ~Unborn(r)',
           NEW c, NEW n \in Nodes, NEW m \in {0} \cup Nodes, NEW D, NEW E, E \subseteq D,
           PipeAt(c, n, m, D)
    PROVE  PipeAt(c, n, m, E)'
<1>1. Stages(n)' = Stages(n) /\ Stages(n) \subseteq Procs /\ m \in Procs /\ Kind(n)' = Kind(n)
  BY SameStages, SameTree DEF Procs, Shell
<1>2. \A e : StartedBefore(e, m)' <=> StartedBefore(e, m)
  BY SameStarted
<1> QED BY <1>1, <1>2 DEF PipeAt

LEMMA InPipeHere ==
    ASSUME NEW p, NEW c, NEW n, NEW m, NEW D,
           proc'[p].state = "shell" =>
                c = proc'[p].ctl /\ n = proc'[p].at /\ m = proc'[p].cur,
           D = Children(p)', PipeAt(c, n, m, D)'
    PROVE  InPipe(p)'
BY DEF InPipe

LEMMA SameInPipe ==
    ASSUME Types, tree' = tree, \A r \in Procs : ~Unborn(r) => ~Unborn(r)',
           NEW p \in Procs, InPipe(p), proc'[p] = proc[p], Children(p)' \subseteq Children(p)
    PROVE  InPipe(p)'
<1>0. tree \in Trees
  BY DEF Types
<1>1. CASE proc[p].state # "shell"
  BY <1>1 DEF InPipe
<1>2. CASE proc[p].state = "shell"
  <2>1. PICK n \in Nodes, m \in {0} \cup Nodes : n = proc[p].at /\ m = proc[p].cur
    BY DEF Types, Record
  <2>2. PICK c, D, E : c = proc[p].ctl /\ D = Children(p) /\ E = Children(p)'
    OBVIOUS
  <2>3. PipeAt(c, n, m, D) /\ E \subseteq D
    BY <1>2, <2>1, <2>2 DEF InPipe
  <2>4. PipeAt(c, n, m, E)'
    BY <1>0, <2>3, PipeAtKept
  <2> QED BY <2>1, <2>2, <2>4, InPipeHere
<1> QED BY <1>1, <1>2

LEMMA ListInPipe ==
    ASSUME Types, tree' = tree, \A r \in Procs : ~Unborn(r) => ~Unborn(r)',
           NEW p \in Procs, Place(p), Family(p), InPipe(p), ListShapes(p)
    PROVE  InPipe(p)'
<1>0. tree \in Trees /\ proc[p].state = "shell"
  BY DEF Types, ListShapes, Running
<1>1. PICK n \in Nodes, m \in {0} \cup Nodes : n = proc[p].at /\ m = proc[p].cur
  BY DEF Types, Record
<1>2. PICK D, E : D = Children(p) /\ E = Children(p)' /\ E \subseteq D
  BY NoBirthShapes, NoMoreChildren
<1>3. CASE proc'[p].ctl \in {"eval", "value"}
  BY <1>3 DEF InPipe, PipeAt
<1>4. ASSUME NEW c, NEW k \in {0} \cup Nodes, proc'[p].ctl = c, proc'[p].at = n, proc'[p].cur = k,
             PipeAt(c, n, k, D)
      PROVE  InPipe(p)'
  <2>1. PipeAt(c, n, k, E)'
    BY <1>0, <1>2, <1>4, PipeAtKept
  <2> QED BY <1>2, <1>4, <2>1, InPipeHere
<1>5. CASE Running(p, "eval") /\ Kind(n) = "pipe" /\ GoesOnWith(p, "down", n, n, proc[p].held)
  <2>1. PipeAt("down", n, n, D)
    BY <1>5 DEF PipeAt
  <2> QED BY <1>4, <1>5, <2>1 DEF GoesOnWith
<1>6. CASE /\ Running(p, "down")
           /\ GoesOnWith(p, IF Kind(Left(m)) = "pipe" THEN "down" ELSE "add",
                         n, Left(m), proc[p].held)
  <2>1. m \in Nodes /\ Kind(m) = "pipe" /\ level[m] = p /\ m \in Below(n) /\ level[n] = p
    BY <1>1, <1>6 DEF Place, Running
  <2>2. Kind(n) = "pipe" /\ D = {}
    BY <1>1, <1>2, <1>6 DEF InPipe, PipeAt, Family, Running
  <2>3. PICK k \in Nodes : k = Left(m)
    BY <1>0, <2>1, LeftOfPipe
  <2>4. CASE Kind(k) = "pipe"
    <3>1. PipeAt("down", n, k, D)
      BY <2>2 DEF PipeAt
    <3> QED BY <1>4, <1>6, <2>3, <2>4, <3>1 DEF GoesOnWith
  <2>5. CASE Kind(k) # "pipe"
    <3>1. \A e \in Stages(n) : ~StartedBefore(e, k)
      BY <1>0, <2>1, <2>2, <2>3, <2>5, FirstStage
    <3>2. PipeAt("add", n, k, D)
      BY <2>2, <3>1 DEF PipeAt
    <3> QED BY <1>4, <1>6, <2>3, <2>5, <3>2 DEF GoesOnWith
  <2> QED BY <2>4, <2>5
<1>7. ASSUME Running(p, "close")
      PROVE  /\ m \in Stages(n) /\ m \in Nodes /\ IsElement(m) /\ Kind(n) = "pipe"
             /\ D \subseteq Stages(n)
             /\ \A e \in Stages(n) : StartedBefore(e, m) \/ e = m => ~Unborn(e)
  <2>1. m \in Nodes /\ IsElement(m) /\ level[m] = p /\ m \in Below(n) /\ level[n] = p
    BY <1>1, <1>7 DEF Place, Running
  <2> QED BY <1>1, <1>2, <1>7, <2>1 DEF InPipe, PipeAt, Running, Stages
<1>8. CASE /\ Running(p, "close") /\ IsLast(m)
           /\ GoesOnWith(p, "first", n, 0, proc[p].held \ NoLongerUsed(m))
  <2>1. \A e \in Stages(n) : ~Unborn(e)
    BY <1>0, <1>7, <1>8, LastStage
  <2>2. PipeAt("first", n, 0, D)
    BY <1>7, <1>8, <2>1 DEF PipeAt
  <2> QED BY <1>4, <1>8, <2>2 DEF GoesOnWith
<1>9. CASE /\ Running(p, "close") /\ ~IsLast(m)
           /\ GoesOnWith(p, "add", n, After(m), proc[p].held \ NoLongerUsed(m))
  <2>1. PICK k \in Nodes : k = After(m)
    BY <1>0, <1>7, <1>9, NextElement
  <2>2. \A e \in Stages(n) : StartedBefore(e, k) => ~Unborn(e)
    BY <1>0, <1>7, <1>9, <2>1, StartedOnly
  <2>3. PipeAt("add", n, k, D)
    BY <1>7, <1>9, <2>2 DEF PipeAt
  <2> QED BY <1>4, <1>9, <2>1, <2>3 DEF GoesOnWith
<1> QED BY <1>1, <1>3, <1>5, <1>6, <1>8, <1>9 DEF ListShapes, GoesOnWith

LEMMA WaitInPipe ==
    ASSUME Types, tree' = tree, \A r \in Procs : ~Unborn(r) => ~Unborn(r)', faults' = 0,
           NEW p \in Procs, InPipe(p), WaitShapes(p)
    PROVE  InPipe(p)'
<1>0. tree \in Trees
  BY DEF Types
<1>1. CASE proc'[p].ctl \in {"value", "report"}
  BY <1>1 DEF InPipe, PipeAt
<1>2. CASE /\ proc[p].state = "shell" /\ proc[p].ctl \in {"first", "rest"}
           /\ \E q \in Procs : Reaps(p, q, "rest")
  <2>1. PICK n \in Nodes, m \in {0} \cup Nodes : n = proc[p].at /\ m = proc[p].cur
    BY DEF Types, Record
  <2>2. PICK D, E : D = Children(p) /\ E = Children(p)' /\ E \subseteq D
    BY NoBirthShapes, NoMoreChildren
  <2>3. PipeAt("rest", n, m, D)
    BY <1>2, <2>1, <2>2 DEF InPipe, PipeAt
  <2>4. PipeAt("rest", n, m, E)'
    BY <1>0, <2>2, <2>3, PipeAtKept
  <2>5. proc'[p].ctl = "rest" /\ proc'[p].at = n /\ proc'[p].cur = m
    BY <1>2, <2>1 DEF Reaps
  <2> QED BY <2>2, <2>4, <2>5, InPipeHere
<1> QED BY <1>1, <1>2 DEF WaitShapes, Stays, Reaps, GoesOnWith

LEMMA ForkInPipe ==
    ASSUME Types, tree' = tree, \A r \in Procs : ~Unborn(r) => ~Unborn(r)',
           NEW p \in Procs, Place(p), InPipe(p), NEW q \in Nodes, NEW c \in {"one", "close"}, NEW h,
           ForkIs(p, q, c, h)
    PROVE  InPipe(p)' /\ InPipe(q)'
<1>0. tree \in Trees
  BY DEF Types
<1>1. proc'[q].ctl = "start" /\ ~Unborn(q)'
  BY DEF ForkIs, Makes, Unborn
<1>2. InPipe(q)'
  BY <1>1 DEF InPipe, PipeAt
<1>3. CASE c = "one"
  <2>1. proc'[p].ctl = "one"
    BY <1>3 DEF ForkIs, Makes
  <2> QED BY <1>2, <2>1 DEF InPipe, PipeAt
<1>4. CASE c = "close"
  <2>1. PICK n \in Nodes : n = proc[p].at
    BY DEF Types, Record
  <2>2. /\ proc[p].state = "shell" /\ proc[p].ctl = "add" /\ q = proc[p].cur
        /\ proc'[p].ctl = "close" /\ proc'[p].at = n /\ proc'[p].cur = q
    BY <1>4, <2>1 DEF ForkIs, Makes
  <2>3. q \in Stages(n)
    BY <2>1, <2>2 DEF Place, Stages
  <2>4. /\ Kind(n) = "pipe" /\ Children(p) \subseteq Stages(n)
        /\ \A e \in Stages(n) : StartedBefore(e, q) => ~Unborn(e)
    BY <2>1, <2>2 DEF InPipe, PipeAt
  <2>5. PICK E : E = Children(p)'
    OBVIOUS
  <2>6. E \subseteq Stages(n)
    <3>1. Children(p)' \subseteq Children(p) \cup {q}
      BY OneMoreChild DEF ForkIs
    <3> QED BY <2>3, <2>4, <2>5, <3>1
  <2>7. /\ Stages(n)' = Stages(n) /\ Stages(n) \subseteq Procs /\ Kind(n)' = Kind(n)
        /\ \A e : StartedBefore(e, q)' <=> StartedBefore(e, q)
    BY <1>0, SameStages, SameTree, SameStarted DEF Procs
  <2>8. PipeAt("close", n, q, E)'
    BY <1>1, <2>4, <2>6, <2>7 DEF PipeAt
  <2>9. InPipe(p)'
    BY <2>2, <2>5, <2>8, InPipeHere
  <2> QED BY <1>2, <2>9
<1> QED BY <1>3, <1>4

LEMMA InPipeStep ==
    ASSUME Types, StepShapes, faults' = 0,
           \A p \in Procs : Place(p) /\ Family(p) /\ InPipe(p)
    PROVE  \A p \in Procs : InPipe(p)'
<1>0. tree' = tree /\ \A r \in Procs : ~Unborn(r) => ~Unborn(r)'
  BY BornStays DEF StepShapes
<1>1. CASE proc' = proc
  <2>1. NoBirth
    BY <1>1 DEF NoBirth
  <2>2. \A r \in Procs : Children(r)' \subseteq Children(r)
    BY <2>1, NoMoreChildren
  <2> QED BY <1>0, <1>1, <2>2, SameInPipe
<1>2. ASSUME NEW p \in Procs, ListShapes(p) \/ WaitShapes(p)
      PROVE  \A r \in Procs : InPipe(r)'
  <2>1. \A r \in Procs : Children(r)' \subseteq Children(r)
    BY <1>2, NoBirthShapes, NoMoreChildren
  <2>2. InPipe(p)'
    BY <1>0, <1>2, ListInPipe, WaitInPipe
  <2>3. \A r \in Procs : r # p => proc'[r] = proc[r] \/ proc'[r].state = "gone"
    BY <1>2 DEF ListShapes, WaitShapes, Stays, Reaps, GoesOnWith, Untouched
  <2>4. \A r \in Procs : proc'[r].state = "gone" => InPipe(r)'
    BY DEF InPipe
  <2> QED BY <1>0, <2>1, <2>2, <2>3, <2>4, SameInPipe
<1>3. ASSUME NEW p \in Procs, ForkShapes(p)
      PROVE  \A r \in Procs : InPipe(r)'
  <2>1. PICK q \in Nodes, c \in {"one", "close"}, h \in SUBSET End : ForkIs(p, q, c, h)
    BY <1>3, ForkWho
  <2>2. InPipe(p)' /\ InPipe(q)'
    BY <1>0, <2>1, ForkInPipe
  <2>3. \A r \in Procs : r # p /\ r # q => proc'[r] = proc[r]
    BY <2>1 DEF ForkIs, Makes, Untouched
  <2>4. \A r \in Procs : r # p => Children(r)' \subseteq Children(r)
    BY <2>1, OneMoreChild DEF ForkIs
  <2> QED BY <1>0, <2>2, <2>3, <2>4, SameInPipe
<1>4. ASSUME NEW p \in Procs, EndShapes(p) \/ StartShapes(p)
      PROVE  \A r \in Procs : InPipe(r)'
  <2>1. \A r \in Procs : Children(r)' \subseteq Children(r)
    BY <1>4, NoBirthShapes, NoMoreChildren
  <2>2. InPipe(p)'
    BY <1>4 DEF EndShapes, EndsNow, StartShapes, BecomesTool, GoesOnWith, InPipe, PipeAt
  <2>3. \A r \in Procs : r # p => proc'[r] = proc[r]
    BY <1>4 DEF EndShapes, EndsNow, StartShapes, BecomesTool, GoesOnWith, Untouched
  <2> QED BY <1>0, <2>1, <2>2, <2>3, SameInPipe
<1> QED BY <1>1, <1>2, <1>3, <1>4 DEF StepShapes

(***************************************************************************)
(* The value that __exec returns.                                          *)
(***************************************************************************)
GoneStays == \A r \in Procs : Gone(r) => proc'[r] = proc[r]

LEMMA GoneForGood ==
    ASSUME Types, \A p \in Procs : Place(p) /\ Fresh(p), StepShapes
    PROVE  GoneStays
<1>1. CASE proc' = proc
  BY <1>1 DEF GoneStays
<1>2. ASSUME NEW p \in Procs, ListShapes(p) \/ WaitShapes(p)
      PROVE  GoneStays
  BY <1>2 DEF ListShapes, WaitShapes, Stays, Reaps, GoesOnWith, Untouched, Running, Zombies,
              GoneStays, Gone
<1>3. ASSUME NEW p \in Procs, ForkShapes(p)
      PROVE  GoneStays
  <2>1. PICK q \in Nodes, c \in {"one", "close"}, h \in SUBSET End : ForkIs(p, q, c, h)
    BY <1>3, ForkWho
  <2>2. Unborn(q)
    <3>1. AllUnborn(q) /\ tree \in Trees
      BY <2>1 DEF ForkIs, Fresh, Position, Types
    <3> QED BY <3>1, BelowFacts DEF AllUnborn
  <2> QED BY <2>1, <2>2 DEF ForkIs, Makes, Untouched, Unborn, GoneStays, Gone
<1>4. ASSUME NEW p \in Procs, EndShapes(p) \/ StartShapes(p)
      PROVE  GoneStays
  BY <1>4 DEF EndShapes, EndsNow, StartShapes, BecomesTool, GoesOnWith, Untouched, Running,
              GoneStays, Gone
<1> QED BY <1>1, <1>2, <1>3, <1>4 DEF StepShapes

LEMMA RightValueKept ==
    ASSUME tree' = tree, tree \in Trees, ResultTypes, GoneStays, ToldStays,
           NEW n \in Nodes, NEW v \in Status, RightValue(n, v)
    PROVE  RightValue(n, v)'
<1>1. /\ Stages(n)' = Stages(n) /\ Stages(n) \subseteq Procs /\ n \in Procs
      /\ Kind(n)' = Kind(n) /\ Left(n)' = Left(n) /\ Right(n)' = Right(n)
      /\ Forks(n)' = Forks(n)
  BY SameStages, SameTree DEF Procs, Forks
<1>2. \A r \in Procs : Gone(r) => Gone(r)' /\ proc'[r] = proc[r]
  BY DEF GoneStays, Gone
<1>3. CASE Kind(n) \in {"and", "or"}
  <2>1. Left(n) \in Nodes /\ Right(n) \in Nodes
    BY <1>3, TreeFacts
  <2>2. \A r \in {Left(n), Right(n)} : result[r] # NoResult => result'[r] = result[r]
    BY <2>1 DEF ToldStays
  <2>3. v # NoResult
    BY DEF Status, NoResult
  <2>4. ~Forks(n) /\ ~Forks(n)'
    BY <1>1, <1>3 DEF Forks
  <2> QED BY <1>1, <1>3, <2>2, <2>3, <2>4 DEF RightValue
<1>4. CASE Kind(n) \notin {"and", "or"}
  BY <1>1, <1>2, <1>4 DEF RightValue
<1> QED BY <1>3, <1>4

LEMMA AnswerKept ==
    ASSUME tree' = tree, tree \in Trees, ResultTypes, GoneStays, ToldStays,
           NEW c, NEW n \in Nodes, NEW v \in Status, AnswerAt(c, n, v)
    PROVE  AnswerAt(c, n, v)'
<1>1. /\ Stages(n)' = Stages(n) /\ Stages(n) \subseteq Procs /\ n \in Procs
      /\ Kind(n)' = Kind(n)
  BY SameStages, SameTree DEF Procs
<1>2. \A r \in Procs : Gone(r) => Gone(r)' /\ proc'[r] = proc[r]
  BY DEF GoneStays, Gone
<1>3. RightValue(n, v) => RightValue(n, v)'
  BY RightValueKept
<1> QED BY <1>1, <1>2, <1>3 DEF AnswerAt

LEMMA AnswerHere ==
    ASSUME NEW p, NEW c, NEW n, NEW v,
           proc'[p].state = "shell" =>
                c = proc'[p].ctl /\ n = proc'[p].at /\ v = proc'[p].val,
           AnswerAt(c, n, v)'
    PROVE  Answer(p)'
BY DEF Answer

LEMMA SameAnswer ==
    ASSUME Types, tree' = tree, ResultTypes, GoneStays, ToldStays,
           NEW p \in Procs, Answer(p), proc'[p] = proc[p]
    PROVE  Answer(p)'
<1>1. CASE proc[p].state # "shell"
  BY <1>1 DEF Answer
<1>2. CASE proc[p].state = "shell"
  <2>1. PICK n \in Nodes, v \in Status : n = proc[p].at /\ v = proc[p].val
    BY DEF Types, Record
  <2>2. PICK c : c = proc[p].ctl
    OBVIOUS
  <2>3. AnswerAt(c, n, v)'
    BY <1>2, <2>1, <2>2, AnswerKept DEF Answer, Types
  <2> QED BY <2>1, <2>2, <2>3, AnswerHere
<1> QED BY <1>1, <1>2

LEMMA NoAnswerYet ==
    ASSUME NEW p, proc'[p].state = "shell" => proc'[p].ctl \notin {"one", "report", "rest", "value"}
    PROVE  Answer(p)'
BY DEF Answer, AnswerAt

(***************************************************************************)
(* A step of one process leaves what the others are about to return.       *)
(***************************************************************************)
Bystander(r) == proc'[r] = proc[r] \/ proc'[r].state # "shell" \/ proc'[r].ctl = "start"

LEMMA Bystanders ==
    ASSUME Types, NEW p \in Procs, ShellStep(p)
    PROVE  \A r \in Procs : r # p => Bystander(r)
<1>0. DOMAIN proc = Procs
  BY DEF Types
<1>1. CASE EvalAndOr(p) \/ EvalPipe(p) \/ GoDown(p) \/ CloseEnds(p) \/ Return(p)
  BY <1>0, <1>1 DEF EvalAndOr, EvalPipe, GoDown, CloseEnds, CloseEndsOf, Return, Exit, Bystander
<1>2. CASE EvalBuiltin(p) \/ EvalExit(p) \/ ReportStatus(p)
  BY <1>0, <1>2 DEF EvalBuiltin, EvalExit, ReportStatus, Value, Exit, Bystander
<1>3. CASE EvalFork(p) \/ ForkElement(p)
  <2>1. \E q \in Procs : \E h, c : Forked(p, q, h, c) /\ proc[p].state = "shell"
    BY <1>3 DEF EvalFork, ForkElement, Running, Types, Record, Procs, Shell
  <2> QED BY <2>1, ForkedMakes DEF Makes, Untouched, Bystander
<1>4. CASE WaitOne(p) \/ WaitFirst(p) \/ WaitRest(p)
  <2>1. \A q \in Zombies(p) : q \in Procs
    BY DEF Zombies, Children, Procs
  <2>2. ASSUME NEW r \in Procs, r # p, NEW q \in Procs, NEW c, NEW v,
               \/ proc' = [proc EXCEPT ![p].ctl = c, ![p].val = v, ![q].state = "gone"]
               \/ proc' = [proc EXCEPT ![q].state = "gone"]
               \/ proc' = [proc EXCEPT ![p].ctl = c]
        PROVE  Bystander(r)
    <3>1. CASE r = q
      BY <1>0, <2>2, <3>1 DEF Bystander, Types, Record
    <3>2. CASE r # q
      BY <1>0, <2>2, <3>2 DEF Bystander
    <3> QED BY <3>1, <3>2
  <2>3. CASE WaitOne(p)
    BY <2>1, <2>2, <2>3 DEF WaitOne
  <2>4. CASE WaitFirst(p)
    BY <2>1, <2>2, <2>4 DEF WaitFirst
  <2>5. CASE WaitRest(p)
    BY <2>1, <2>2, <2>5 DEF WaitRest
  <2> QED BY <1>4, <2>3, <2>4, <2>5
<1> QED BY <1>1, <1>2, <1>3, <1>4 DEF ShellStep

(***************************************************************************)
(* A command has ended and has been waited for, ...                        *)
(***************************************************************************)
LEMMA WaitOneAnswer ==
    ASSUME Types, tree' = tree, NEW p \in Procs, Answer(p), WaitOne(p)
    PROVE  Answer(p)'
<1>1. PICK n \in Nodes : n = proc[p].at
  BY DEF Types, Record
<1>2. /\ n \in Procs /\ proc[n].state = "zombie" /\ proc[p].state = "shell"
      /\ proc[p].ctl = "one" /\ n # p
  BY <1>1 DEF WaitOne, Running, Zombies, Procs
<1>3. PICK v, c : v = proc[n].val /\ c = AfterWait(n)
  OBVIOUS
<1>4. /\ proc'[p].ctl = c /\ proc'[p].at = n /\ proc'[p].val = v
      /\ proc'[n].state = "gone" /\ proc'[n].val = v
  BY <1>1, <1>2, <1>3 DEF WaitOne, Types, Record
<1>5. Kind(n) \in {"cmd", "sub"} /\ Kind(n)' = Kind(n)
  BY <1>1, <1>2, SameTree DEF Answer, AnswerAt
<1>6. CASE Kind(n) = "sub"
  <2>1. AnswerAt("report", n, v)' /\ c = "report"
    BY <1>3, <1>4, <1>5, <1>6 DEF AnswerAt, Gone, AfterWait
  <2> QED BY <1>4, <2>1, AnswerHere
<1>7. CASE Kind(n) = "cmd"
  <2>1. RightValue(n, v)' /\ c = "value"
    BY <1>3, <1>4, <1>5, <1>7 DEF RightValue, Gone, AfterWait
  <2>2. AnswerAt("value", n, v)'
    BY <2>1 DEF AnswerAt
  <2> QED BY <1>4, <2>1, <2>2, AnswerHere
<1> QED BY <1>5, <1>6, <1>7

LEMMA ValueAnswer ==
    ASSUME Types, tree' = tree, ResultTypes, GoneStays, ToldStays,
           NEW p \in Procs, proc[p].state = "shell",
           NEW n \in Nodes, n = proc[p].at, NEW v \in Status, Value(p, v), RightValue(n, v)
    PROVE  Answer(p)'
<1>1. proc'[p].ctl = "value" /\ proc'[p].at = n /\ proc'[p].val = v
  BY DEF Value, Types, Record
<1>2. RightValue(n, v)'
  BY RightValueKept DEF Types
<1>3. AnswerAt("value", n, v)'
  BY <1>2 DEF AnswerAt
<1> QED BY <1>1, <1>3, AnswerHere

LEMMA ExitAnswer ==
    ASSUME Types, NEW p \in Procs, NEW s, Exit(p, s)
    PROVE  Answer(p)'
BY ExitEnds DEF EndsNow, Answer

LEMMA EvalAnswer ==
    ASSUME Types, tree' = tree, ResultTypes, GoneStays, ToldStays,
           NEW p \in Procs, Answer(p), EvalBuiltin(p) \/ EvalExit(p) \/ ReportStatus(p)
    PROVE  Answer(p)'
<1>0. PICK n \in Nodes : n = proc[p].at
  BY DEF Types, Record
<1>1. CASE EvalBuiltin(p)
  <2>1. ASSUME NEW s \in Status, Value(p, s)
        PROVE  Answer(p)'
    <3>1. RightValue(n, s) /\ proc[p].state = "shell"
      BY <1>0, <1>1 DEF EvalBuiltin, RightValue, Forks, Running
    <3> QED BY <1>0, <2>1, <3>1, ValueAnswer
  <2> QED BY <1>1, <2>1, ExitAnswer DEF EvalBuiltin
<1>2. CASE EvalExit(p)
  BY <1>2, ExitAnswer DEF EvalExit
<1>3. CASE ReportStatus(p)
  <2>1. CASE Value(p, proc[p].val)
    <3>1. PICK v \in Status : v = proc[p].val
      BY DEF Types, Record
    <3>2. RightValue(n, v) /\ proc[p].state = "shell"
      BY <1>0, <1>3, <3>1 DEF ReportStatus, Running, Answer, AnswerAt, RightValue
    <3> QED BY <1>0, <2>1, <3>1, <3>2, ValueAnswer
  <2> QED BY <1>3, <2>1, ExitAnswer DEF ReportStatus
<1> QED BY <1>1, <1>2, <1>3

(***************************************************************************)
(* ... or all elements of a pipeline have, one of them before the others,  *)
(* ...                                                                     *)
(***************************************************************************)
LEMMA WaitFirstAnswer ==
    ASSUME Types, tree' = tree, NEW p \in Procs, InPipe(p), WaitFirst(p)
    PROVE  Answer(p)'
<1>0. tree \in Trees
  BY DEF Types
<1>1. PICK n \in Nodes : n = proc[p].at
  BY DEF Types, Record
<1>2. PICK q \in Zombies(p) :
        proc' = [proc EXCEPT ![p].ctl = "rest", ![p].val = proc[q].val, ![q].state = "gone"]
  BY DEF WaitFirst
<1>3. proc[p].state = "shell" /\ proc[p].ctl = "first"
  BY DEF WaitFirst, Running
<1>4. q \in Stages(n) /\ q \in Procs /\ q # p
  BY <1>1, <1>2, <1>3 DEF InPipe, PipeAt, Zombies, Children, Procs
<1>5. PICK v : v = proc[q].val
  OBVIOUS
<1>6. /\ proc'[p].ctl = "rest" /\ proc'[p].at = n /\ proc'[p].val = v
      /\ proc'[q].state = "gone" /\ proc'[q].val = v
  BY <1>1, <1>2, <1>4, <1>5 DEF Types, Record
<1>7. Stages(n)' = Stages(n)
  BY <1>0, SameStages
<1>8. AnswerAt("rest", n, v)'
  BY <1>4, <1>6, <1>7 DEF AnswerAt, Gone
<1> QED BY <1>6, <1>8, AnswerHere

LEMMA AllGone ==
    ASSUME Types, \A r \in Procs : OwnParent(r), NEW p \in Procs, Place(p), InPipe(p),
           Running(p, "rest"), Children(p) = {}, NEW n \in Nodes, n = proc[p].at
    PROVE  Kind(n) = "pipe" /\ \A e \in Stages(n) : Gone(e)
<1>1. tree \in Trees /\ level[n] = p
  BY DEF Types, Place, Running
<1>2. Kind(n) = "pipe" /\ \A e \in Stages(n) : ~Unborn(e)
  BY DEF InPipe, PipeAt, Running
<1>3. ASSUME NEW e \in Stages(n)
      PROVE  Gone(e)
  <2>1. e \in Nodes /\ e \in Procs /\ level[e] = p
    BY <1>1, <1>3, BelowFacts DEF Stages, Procs
  <2>2. proc[e].parent = p
    BY <1>2, <1>3, <2>1 DEF OwnParent
  <2>3. proc[e].state \notin {"shell", "tool", "zombie"}
    BY <2>1, <2>2 DEF Children, Alive
  <2> QED BY <1>2, <1>3, <2>1, <2>3 DEF Unborn, Gone, Types, Record
<1> QED BY <1>2, <1>3

LEMMA WaitRestAnswer ==
    ASSUME Types, tree' = tree, ResultTypes, GoneStays, ToldStays,
           \A r \in Procs : OwnParent(r), NEW p \in Procs, Place(p), InPipe(p), Answer(p),
           WaitRest(p)
    PROVE  Answer(p)'
<1>0. tree \in Trees
  BY DEF Types
<1>1. PICK n \in Nodes, v \in Status : n = proc[p].at /\ v = proc[p].val
  BY DEF Types, Record
<1>2. Running(p, "rest") /\ AnswerAt("rest", n, v)
  BY <1>1 DEF WaitRest, Running, Answer
<1>3. CASE \E q \in Zombies(p) : proc' = [proc EXCEPT ![q].state = "gone"]
  <2>1. PICK q \in Zombies(p) : proc' = [proc EXCEPT ![q].state = "gone"]
    BY <1>3
  <2>2. q # p
    BY <1>2 DEF Zombies, Running
  <2>3. proc'[p] = proc[p]
    BY <2>1, <2>2 DEF Types
  <2> QED BY <2>3, SameAnswer
<1>4. CASE Children(p) = {} /\ proc' = [proc EXCEPT ![p].ctl = "value"]
  <2>1. Kind(n) = "pipe" /\ \A e \in Stages(n) : Gone(e)
    BY <1>1, <1>2, <1>4, AllGone
  <2>2. RightValue(n, v)
    BY <1>2, <2>1 DEF AnswerAt, RightValue, Forks
  <2>3. RightValue(n, v)'
    BY <1>0, <2>2, RightValueKept
  <2>4. AnswerAt("value", n, v)'
    BY <2>3 DEF AnswerAt
  <2>5. proc'[p].ctl = "value" /\ proc'[p].at = n /\ proc'[p].val = v
    BY <1>1, <1>4 DEF Types, Record
  <2> QED BY <2>4, <2>5, AnswerHere
<1> QED BY <1>3, <1>4 DEF WaitRest

(***************************************************************************)
(* ... or the side of && or || that decides has returned.                  *)
(***************************************************************************)
LEMMA ReturnAnswer ==
    ASSUME Types, tree' = tree, ResultTypes, ToldStays, NEW p \in Procs, Place(p), Decided(p),
           Return(p)
    PROVE  Answer(p)'
<1>0. tree \in Trees /\ Running(p, "value")
  BY DEF Types, Return
<1>1. PICK n \in Nodes, v \in Status : n = proc[p].at /\ v = proc[p].val
  BY DEF Types, Record
<1>2. CASE EndsNow(p)
  BY <1>2 DEF EndsNow, Answer
<1>3. CASE \E k : GoesOnWith(p, "eval", k, proc[p].cur, proc[p].held)
  BY <1>3, NoAnswerYet DEF GoesOnWith
<1>4. CASE \E k : GoesOnWith(p, "value", k, proc[p].cur, proc[p].held)
                  /\ k = Up(n) /\ n # Body(p)
                  /\ ~(n = Left(k) /\ GoesOn(k, v))
                  /\ proc'[p].val = v
  <2>1. Up(n) \in Nodes /\ level[Up(n)] = p /\ Kind(Up(n)) \in {"and", "or"}
    BY <1>0, <1>1, <1>4, NextPlaces DEF Running
  <2>2. PICK w \in Nodes : w = Up(n) /\ level[w] = p /\ Kind(w) \in {"and", "or"}
    BY <2>1
  <2>3. w # 0 /\ Left(w) \in Nodes /\ Right(w) \in Nodes
    BY <1>0, <2>2, TreeFacts, PipelineAssumption DEF Nodes
  <2>4. n \in {Left(w), Right(w)}
    BY <1>0, <2>2, <2>3, UpFacts
  <2>5. result'[n] = v /\ v \in {0, 1}
    BY <1>1, ReturnShapes, TellsOnly DEF Status
  <2>6. /\ Left(w)' = Left(w) /\ Right(w)' = Right(w) /\ Kind(w)' = Kind(w)
        /\ Forks(w)' = Forks(w) /\ ~Forks(w)
    BY <2>2, SameTree DEF Forks
  <2>7. CASE n = Left(w)
    <3>1. ~GoesOn(w, v)
      BY <1>4, <2>2, <2>7
    <3>2. v = IF Kind(w) = "and" THEN 1 ELSE 0
      BY <2>2, <2>5, <3>1 DEF GoesOn
    <3>3. result'[Left(w)] = v
      BY <2>5, <2>7
    <3>4. RightValue(w, v)'
      BY <2>2, <2>5, <2>6, <3>2, <3>3 DEF RightValue, NoResult
    <3>5. AnswerAt("value", w, v)'
      BY <3>4 DEF AnswerAt
    <3> QED BY <1>4, <2>2, <3>5, AnswerHere DEF GoesOnWith
  <2>8. CASE n = Right(w) /\ n # Left(w)
    <3>1. n \in Below(Right(w))
      BY <1>0, <2>8, BelowFacts
    <3>2. result[Left(w)] = IF Kind(w) = "and" THEN 0 ELSE 1
      BY <1>0, <1>1, <2>2, <3>1 DEF Decided, DecidedAt, Running
    <3>3. result'[Left(w)] = IF Kind(w) = "and" THEN 0 ELSE 1
      BY <2>3, <3>2 DEF ToldStays, NoResult
    <3>4. RightValue(w, v)'
      BY <2>2, <2>5, <2>6, <2>8, <3>3 DEF RightValue, NoResult
    <3>5. AnswerAt("value", w, v)'
      BY <3>4 DEF AnswerAt
    <3> QED BY <1>4, <2>2, <3>5, AnswerHere DEF GoesOnWith
  <2> QED BY <2>4, <2>7, <2>8
<1> QED BY <1>1, <1>2, <1>3, <1>4, ReturnShapes

LEMMA ForkAnswer ==
    ASSUME Types, tree' = tree, NEW p \in Procs, Place(p), EvalFork(p)
    PROVE  Answer(p)'
<1>1. PICK n \in Nodes : n = proc[p].at
  BY DEF Types, Record
<1>2. proc[p].state = "shell" /\ Forks(n) /\ Kind(n)' = Kind(n) /\ n \in Procs
  BY <1>1, SameTree DEF EvalFork, Running, Procs
<1>3. Makes(p, n, "one", proc[p].held)
  BY <1>1, <1>2, ForkedMakes DEF EvalFork
<1>4. p # n
  <2>1. level[n] = p
    BY <1>1, <1>2 DEF EvalFork, Running, Place
  <2>2. level[n] < n
    BY LevelFacts DEF Types
  <2> QED BY <2>1, <2>2, PipelineAssumption DEF Nodes
<1>5. AnswerAt("one", n, 0)'
  BY <1>2 DEF AnswerAt, Forks
<1>6. proc'[p].ctl = "one" /\ proc'[p].at = n
  BY <1>1, <1>3, <1>4 DEF Makes
<1> QED BY <1>5, <1>6 DEF Answer, AnswerAt

LEMMA ListAnswer ==
    ASSUME Types, NEW p \in Procs, EvalAndOr(p) \/ EvalPipe(p) \/ GoDown(p) \/ CloseEnds(p)
    PROVE  Answer(p)'
<1>1. CASE EvalAndOr(p)
  <2>1. proc'[p].ctl = "eval"
    BY <1>1 DEF EvalAndOr, Running, Types, Record
  <2> QED BY <2>1, NoAnswerYet
<1>2. CASE EvalPipe(p)
  <2>1. proc'[p].ctl = "down"
    BY <1>2 DEF EvalPipe, Types, Record
  <2> QED BY <2>1, NoAnswerYet
<1>3. CASE GoDown(p)
  <2>1. proc'[p].ctl \in {"down", "add"}
    BY <1>3 DEF GoDown, Types, Record
  <2> QED BY <2>1, NoAnswerYet
<1>4. CASE CloseEnds(p)
  <2>1. proc'[p].ctl \in {"first", "add"}
    BY <1>4 DEF CloseEnds, CloseEndsOf, Types, Record
  <2> QED BY <2>1, NoAnswerYet
<1> QED BY <1>1, <1>2, <1>3, <1>4

LEMMA ElementAnswer ==
    ASSUME Types, NEW p \in Procs, Place(p), ForkElement(p)
    PROVE  Answer(p)'
<1>1. proc[p].state = "shell" /\ level[proc[p].cur] = p /\ proc[p].cur \in Nodes
  BY DEF ForkElement, Running, Place
<1>2. PICK q \in Nodes : q = proc[p].cur
  BY <1>1
<1>3. q # p /\ q \in Procs
  BY <1>1, <1>2, LevelFacts, PipelineAssumption DEF Types, Nodes, Procs
<1>4. PICK h : Forked(p, q, h, "close")
  BY <1>2 DEF ForkElement
<1>5. Makes(p, q, "close", h)
  BY <1>1, <1>3, <1>4, ForkedMakes
<1>6. proc'[p].ctl = "close"
  BY <1>3, <1>5 DEF Makes
<1> QED BY <1>6, NoAnswerYet

LEMMA NodeAnswer ==
    ASSUME Types, tree' = tree, ResultTypes, GoneStays, ToldStays,
           NEW q \in Nodes, Answer(q), StartStep(q) \/ ToolStep(q) \/ Writes(q)
    PROVE  Answer(q)' /\ \A r \in Procs : r # q => Bystander(r)
<1>0. q \in Procs
  BY DEF Procs
<1>1. ASSUME NEW s, Exit(q, s)
      PROVE  Answer(q)' /\ \A r \in Procs : r # q => Bystander(r)
  BY <1>0, <1>1, ExitEnds, ExitAnswer DEF EndsNow, Untouched, Bystander
<1>2. ASSUME NEW x, x.state = "tool" \/ x.ctl = "eval", proc' = [proc EXCEPT ![q] = x]
      PROVE  Answer(q)' /\ \A r \in Procs : r # q => Bystander(r)
  <2>1. proc'[q] = x /\ \A r \in Procs : r # q => proc'[r] = proc[r]
    BY <1>0, <1>2 DEF Types
  <2> QED BY <1>2, <2>1, NoAnswerYet DEF Bystander
<1>3. CASE StartTool(q)
  <2> DEFINE y == [proc[q] EXCEPT !.state = "tool", !.inp = ConnectedInp(q),
                                  !.out = ConnectedOut(q), !.held = ConnectedHeld(q)]
  <2>1. proc' = [proc EXCEPT ![q] = y]
    BY <1>3 DEF StartTool
  <2>2. y.state = "tool"
    BY <1>0 DEF Types, Record
  <2> HIDE DEF y
  <2> QED BY <1>2, <2>1, <2>2
<1>4. CASE StartSubshell(q) /\ ~Exit(q, 1)
  <2> DEFINE y(i, o, h) == [proc[q] EXCEPT !.ctl = "eval", !.at = Left(q),
                                           !.inp = i, !.out = o, !.held = h]
  <2>1. \E i, o, h : proc' = [proc EXCEPT ![q] = y(i, o, h)]
    <3> DEFINE redir == tree.prog[q]
               i == IF redir = "in" THEN 0 ELSE ConnectedInp(q)
               o == IF redir = "out" THEN 0 ELSE ConnectedOut(q)
               h == ConnectedHeld(q) \cup
                        (CASE redir = "in" -> Backup(q, <<ConnectedInp(q), "r">>)
                           [] redir = "out" -> Backup(q, <<ConnectedOut(q), "w">>)
                           [] OTHER -> {})
    <3>1. proc' = [proc EXCEPT ![q] = y(i, o, h)]
      BY <1>4 DEF StartSubshell
    <3> HIDE DEF y, i, o, h
    <3> QED BY <3>1
  <2>2. \A i, o, h : y(i, o, h).ctl = "eval"
    BY <1>0 DEF Types, Record
  <2> HIDE DEF y
  <2> QED BY <1>2, <2>1, <2>2
<1>5. CASE Copies(q) \/ Writes(q)
  BY <1>0, <1>5, SameAnswer DEF Copies, Writes, Bystander
<1> QED BY <1>1, <1>3, <1>4, <1>5
        DEF StartStep, ToolStep, Ends, ReadsEof, KilledBySigPipe, StartSubshell

LEMMA AnswerStep ==
    ASSUME Types, ResultTypes, [Next]_vars, StepShapes, GoneStays, ToldStays, faults' = 0,
           \A p \in Procs : /\ Place(p) /\ OwnParent(p) /\ InPipe(p)
                            /\ Decided(p) /\ Answer(p)
    PROVE  \A p \in Procs : Answer(p)'
<1>0. tree' = tree
  BY DEF StepShapes
<1>1. CASE UNCHANGED vars
  BY <1>0, <1>1, SameAnswer DEF vars
<1>2. ASSUME NEW r \in Procs, Bystander(r)
      PROVE  Answer(r)'
  BY <1>0, <1>2, SameAnswer DEF Bystander, Answer, AnswerAt
<1>3. ASSUME NEW p \in Procs, ShellStep(p)
      PROVE  \A r \in Procs : Answer(r)'
  <2>1. Answer(p)'
    BY <1>0, <1>3, ListAnswer, ElementAnswer, EvalAnswer, ForkAnswer, ReturnAnswer, WaitOneAnswer,
       WaitFirstAnswer, WaitRestAnswer DEF ShellStep
  <2> QED BY <1>2, <1>3, <2>1, Bystanders
<1>4. ASSUME NEW p \in Procs, FaultStep(p)
      PROVE  FALSE
  BY <1>4 DEF FaultStep, EvalForkFails, ForkElementFails, WaitInterrupted, Fault, Types
<1>5. ASSUME NEW q \in Nodes, StartStep(q) \/ ToolStep(q) \/ Writes(q)
      PROVE  \A r \in Procs : Answer(r)'
  <2>1. q \in Procs /\ Answer(q)' /\ \A r \in Procs : r # q => Bystander(r)
    BY <1>0, <1>5, NodeAnswer DEF Procs
  <2> QED BY <1>2, <2>1
<1> QED BY <1>1, <1>3, <1>4, <1>5 DEF Next, Finished

(***************************************************************************)
(* What has been returned is right, and stays so.                          *)
(***************************************************************************)
Results == \A n \in Nodes, v \in Status : result[n] = v => RightValue(n, v)

LEMMA ResultsStep ==
    ASSUME Types, ResultTypes, [Next]_vars, GoneStays, ToldStays, tree' = tree, Results,
           \A p \in Procs : Place(p) /\ Answer(p)
    PROVE  Results'
<1> SUFFICES ASSUME NEW n \in Nodes, NEW v \in Status, result'[n] = v
             PROVE  RightValue(n, v)'
  BY DEF Results, Nodes, Status
<1>1. SUFFICES RightValue(n, v)
  BY <1>1, RightValueKept DEF Types
<1>2. CASE result'[n] = result[n]
  BY <1>2 DEF Results
<1>3. ASSUME NEW p \in Procs, Return(p), result'[n] # result[n]
      PROVE  RightValue(n, v)
  <2>1. Tells(p)
    BY <1>3, ReturnShapes
  <2>2. n = proc[p].at /\ v = proc[p].val
    BY <1>3, <2>1, TellsOnly
  <2> QED BY <2>1, <2>2 DEF Tells, Running, Answer, AnswerAt
<1> QED BY <1>2, <1>3, WhoTells

(***************************************************************************)
(* What is returned, once and in order; without faults the right values.   *)
(***************************************************************************)
Told ==
    /\ ResultTypes
    /\ \A p \in Procs : Silent(p) /\ Decided(p)
    /\ faults = 0 => (\A p \in Procs : InPipe(p) /\ Answer(p)) /\ Results

LEMMA InitTold ==
    ASSUME Init, NEW p \in Procs
    PROVE  Silent(p) /\ Decided(p) /\ InPipe(p) /\ Answer(p)
<1>1. \A r \in Nodes : r \in NotYet
  BY DEF Init, NotYet
<1>2. CASE p \in Nodes
  <2>1. Unborn(p) /\ proc[p].state # "shell"
    BY <1>2, InitProc DEF Unborn
  <2> QED BY <1>1, <2>1 DEF Silent, Decided, InPipe, Answer
<1>3. CASE p = Shell
  <2>1. tree \in Trees /\ proc[p].state = "shell" /\ proc[p].ctl = "eval" /\ proc[p].at = Root
    BY <1>3, InitProc
  <2>2. \A x \in {0} \cup Nodes : Below(x) \subseteq Nodes
    BY <2>1, BelowFacts, BelowIs
  <2>3. \A u \in Nodes : Left(u) \in {0} \cup Nodes /\ Right(u) \in {0} \cup Nodes
    BY <2>1, TreeFacts
  <2>4. AheadIn(p, Root, NotYet) /\ AllIn(p, Root, NotYet)
    BY <1>1, <2>1, <2>2, <2>3, RootFacts DEF AheadIn, AllIn
  <2>5. DecidedAt(p, Root)
    <3> SUFFICES ASSUME NEW u \in Nodes, Kind(u) \in {"and", "or"}, Root \in Below(Right(u))
                 PROVE  FALSE
      BY DEF DecidedAt
    <3>1. Right(u) \in Nodes /\ Right(u) > u
      BY <2>1, TreeFacts
    <3>2. Right(u) <= Root
      BY <2>1, <3>1, BelowFacts
    <3> QED BY <3>1, <3>2, PipelineAssumption DEF Nodes, Root
  <2> QED BY <2>1, <2>4, <2>5 DEF Silent, Decided, InPipe, PipeAt, Answer, AnswerAt
<1> QED BY <1>2, <1>3 DEF Procs

LEMMA ToldInit == Init => Told
<1> SUFFICES ASSUME Init PROVE Told
  OBVIOUS
<1>1. ResultTypes
  BY DEF Init, ResultTypes
<1>2. Results
  BY DEF Init, Results, Status, NoResult
<1> QED BY <1>1, <1>2, InitTold DEF Told

LEMMA ToldStep == Held /\ Kin /\ Order /\ Told /\ [Next]_vars => Told'
<1> SUFFICES ASSUME Held, Kin, Order, Told, [Next]_vars PROVE Told'
  OBVIOUS
<1>1. /\ StepShapes /\ Types /\ ResultTypes
      /\ \A p \in Procs : /\ Place(p) /\ OwnParent(p) /\ Fresh(p)
                          /\ Silent(p) /\ Decided(p)
  BY StepsHaveShapes DEF Held, Kin, Order, Told
<1>2. ResultTypes' /\ \A p \in Procs : Silent(p)'
  BY <1>1, SilentStep
<1>3. \A p \in Procs : Decided(p)'
  BY <1>1, DecidedStep
<1>4. GoneStays /\ ToldStays /\ tree' = tree
  BY <1>1, GoneForGood, ToldOnce DEF StepShapes
<1>5. ASSUME faults' = 0
      PROVE  (\A p \in Procs : InPipe(p)' /\ Answer(p)') /\ Results'
  <2>1. faults = 0
    BY <1>1, <1>5 DEF StepShapes
  <2>2. Results /\ \A p \in Procs : Family(p) /\ InPipe(p) /\ Answer(p)
    BY <2>1 DEF Told, Kin
  <2>3. \A p \in Procs : InPipe(p)'
    BY <1>1, <1>5, <2>2, InPipeStep
  <2>4. \A p \in Procs : Answer(p)'
    BY <1>1, <1>4, <1>5, <2>2, AnswerStep
  <2>5. Results'
    BY <1>1, <1>4, <2>2, ResultsStep
  <2> QED BY <2>3, <2>4, <2>5
<1>6. Procs' = Procs
  BY DEF Procs, Nodes
<1> QED BY <1>2, <1>3, <1>5, <1>6 DEF Told

(***************************************************************************)
(* __exec returns from a node at most once and in the order of the list,   *)
(* with faults too; without them it returns what it should.                *)
(***************************************************************************)
THEOREM ToldInvariant == Spec => []Told
BY HeldInvariant, KinInvariant, OrderInvariant, ToldInit, ToldStep, PTL DEF Spec

(***************************************************************************)
(* The status that __exec, exec_and_or, exec_sub, exec_cmd and exec_pipe   *)
(* return is that of the right process, of the side that decided, or of an *)
(* element of the pipeline, all of whose elements have been waited for.    *)
(***************************************************************************)
THEOREM ResultIsRightCorrect == Spec => []ResultIsRight
<1>1. Held /\ Told => ResultIsRight
  <2> SUFFICES ASSUME Types, Told, faults = 0, NEW n \in Nodes, NEW v \in Status, result[n] = v
               PROVE  /\ Forks(n) => proc[n].state = "gone" /\ v = proc[n].val
                      /\ Kind(n) = "pipe" =>
                            /\ \A e \in ElementsOf(n) : proc[e].state = "gone"
                            /\ \E e \in ElementsOf(n) : v = proc[e].val
                      /\ Kind(n) = "and" =>
                            v = IF result[Left(n)] = 0 THEN result[Right(n)]
                                                       ELSE result[Left(n)]
                      /\ Kind(n) = "or" =>
                            v = IF result[Left(n)] = 0 THEN result[Left(n)]
                                                       ELSE result[Right(n)]
    BY DEF Held, Told, ResultTypes, ResultIsRight
  <2>1. RightValue(n, v)
    BY DEF Told, Results
  <2>2. ElementsOf(n) = Stages(n)
    BY StagesAre DEF Types
  <2> QED BY <2>1, <2>2 DEF RightValue, Gone
<1> QED BY <1>1, HeldInvariant, ToldInvariant, PTL

----------------------------------------------------------------------------
(* Input and output. *)

Started(p) == \/ proc[p].state = "tool"
              \/ proc[p].state = "shell" /\ proc[p].ctl # "start"

(***************************************************************************)
(* A process reads the pipe of an element that has begun, and an element   *)
(* writes into its own, which it holds until it has connected it.          *)
(***************************************************************************)
Begun(i) == i \in Nodes /\ IsElement(i) /\ ~IsLast(i) /\ ~Unborn(i)

Input(p) ==
    /\ Alive(p) /\ proc[p].inp # 0 => Begun(proc[p].inp)
    /\ p \in Nodes /\ IsElement(p) /\ ~IsFirst(p) /\ ~Unborn(p) => ~Unborn(Before(p))

Output(p) ==
    p \in Nodes /\ IsElement(p) /\ ~IsLast(p) =>
        /\ Running(p, "start") => <<p, "w">> \in proc[p].held
        /\ Started(p) /\ ~WritesToFile(p) => proc[p].out = p

Connected(p) == Input(p) /\ Output(p)

(***************************************************************************)
(* The element before one that is not the first.                           *)
(***************************************************************************)
LEMMA BeforeIs ==
    ASSUME tree \in Trees, NEW m \in Nodes, IsElement(m), ~IsFirst(m)
    PROVE  /\ Before(m) \in Nodes /\ IsElement(Before(m)) /\ ~IsLast(Before(m))
           /\ StartedBefore(Before(m), m) /\ level[Before(m)] = level[m]
           /\ Before(m) \in Below(Up(m))
<1> DEFINE u == Up(m)
           l == Left(u)
<1>1. u \in Nodes /\ Kind(u) = "pipe" /\ level[u] = level[m] /\ u \in Nat
  BY ElementFacts, PipelineAssumption DEF Nodes
<1>2. l \in Nodes /\ Up(l) = u /\ level[l] = level[u] /\ l \in Below(u)
  BY <1>1, LeftOfPipe
<1>3. CASE Kind(l) # "pipe"
  <2>1. Before(m) = l /\ IsElement(l) /\ IsFirst(l)
    BY <1>1, <1>3, LeftOfPipe DEF Before
  <2> QED BY <1>1, <1>2, <2>1 DEF IsLast, StartedBefore
<1>4. CASE Kind(l) = "pipe"
  <2> DEFINE b == Right(l)
  <2>1. Before(m) = b
    BY <1>4 DEF Before
  <2>2. b \in Nodes /\ b # Left(l) /\ Kind(b) \in {"cmd", "sub"} /\ b # 0 /\ l > u
    BY <1>1, <1>2, <1>4, TreeFacts
  <2>3. Up(b) = l /\ level[b] = level[l] /\ b \in Below(l)
    BY <1>2, <1>4, <2>2, ParentOfChild, LevelOfChild, BelowFacts
  <2>4. b \in Below(u)
    BY <1>1, <1>2, <2>3, BelowNests
  <2>5. IsElement(b) /\ ~IsFirst(b) /\ ~IsLast(b)
    BY <1>1, <1>2, <1>4, <2>2, <2>3 DEF IsElement, IsFirst, IsLast
  <2> QED BY <1>1, <1>2, <2>1, <2>2, <2>3, <2>4, <2>5 DEF StartedBefore
<1> QED BY <1>3, <1>4

(***************************************************************************)
(* Most steps leave input and output as they are.                          *)
(***************************************************************************)
Carries(r) ==
    \/ proc'[r] = proc[r]
    \/ proc'[r].state \notin {"shell", "tool"} /\ ~Unborn(r)
    \/ /\ Started(r) /\ Started(r)'
       /\ proc'[r].inp = proc[r].inp /\ proc'[r].out = proc[r].out

LEMMA SameConnected ==
    ASSUME tree' = tree, tree \in Trees, NEW p \in Procs, Connected(p), Carries(p),
           \A r \in Procs : ~Unborn(r) => ~Unborn(r)'
    PROVE  Connected(p)'
<1>1. /\ \A n : IsElement(n)' = IsElement(n) /\ IsFirst(n)' = IsFirst(n)
      /\ \A n : IsLast(n)' = IsLast(n) /\ Before(n)' = Before(n)
      /\ \A n : WritesToFile(n)' = WritesToFile(n)
  BY SameElements, SameTree DEF WritesToFile
<1>2. \A i : Begun(i) => Begun(i)'
  BY <1>1 DEF Begun, Procs
<1>3. p \in Nodes /\ IsElement(p) /\ ~IsFirst(p) => Before(p) \in Procs
  BY BeforeIs DEF Procs
<1>4. Unborn(p) => Unborn(p)'
  BY DEF Carries, Started, Unborn
<1>5. Input(p)'
  <2>1. Alive(p)' => Alive(p) /\ proc'[p].inp = proc[p].inp
    BY DEF Carries, Alive, Started
  <2>2. PICK i, b : i = proc'[p].inp /\ b = Before(p) /\ b = Before(p)'
    BY <1>1
  <2>3. ASSUME Alive(p)', i # 0
        PROVE  Begun(i)'
    <3>1. Begun(i)
      BY <2>1, <2>2, <2>3 DEF Connected, Input
    <3> QED BY <1>2, <3>1
  <2>4. ASSUME p \in Nodes, IsElement(p)', ~IsFirst(p)', ~Unborn(p)'
        PROVE  ~Unborn(b)'
    <3>1. IsElement(p) /\ ~IsFirst(p) /\ ~Unborn(p)
      BY <1>1, <1>4, <2>4
    <3>2. b \in Procs /\ ~Unborn(b)
      BY <1>3, <2>2, <2>4, <3>1 DEF Connected, Input
    <3> QED BY <3>2
  <2> QED BY <2>2, <2>3, <2>4 DEF Input, Begun, Unborn
<1>6. Output(p)'
  BY <1>1 DEF Connected, Output, Carries, Started, Running
<1> QED BY <1>5, <1>6 DEF Connected

LEMMA ListCarries ==
    ASSUME Types, NEW p \in Procs,
           EvalAndOr(p) \/ EvalPipe(p) \/ GoDown(p) \/ CloseEnds(p) \/ Return(p)
    PROVE  \A r \in Procs : Carries(r)
<1>0. proc \in [Procs -> Record]
  BY DEF Types
<1>1. CASE EvalAndOr(p) \/ EvalPipe(p) \/ GoDown(p)
  BY <1>0, <1>1 DEF EvalAndOr, EvalPipe, GoDown, Running, Carries, Started, Record
<1>2. CASE CloseEnds(p)
  BY <1>0, <1>2 DEF CloseEnds, CloseEndsOf, Running, Carries, Started, Record
<1>3. CASE Return(p)
  <2>1. proc[p].state = "shell" /\ proc[p].ctl = "value" /\ proc[p] \in Record
    BY <1>0, <1>3 DEF Return, Running
  <2>2. ASSUME NEW n, \/ proc' = [proc EXCEPT ![p].at = n, ![p].ctl = "eval"]
                      \/ proc' = [proc EXCEPT ![p].at = n]
        PROVE  \A r \in Procs : Carries(r)
    <3>1. /\ proc'[p].state = "shell" /\ proc'[p].ctl \in {"eval", "value"}
          /\ proc'[p].inp = proc[p].inp /\ proc'[p].out = proc[p].out
      BY <1>0, <2>1, <2>2 DEF Record
    <3>2. \A r \in Procs : r # p => proc'[r] = proc[r]
      BY <1>0, <2>2
    <3> QED BY <2>1, <3>1, <3>2 DEF Carries, Started
  <2>3. ASSUME NEW v, Exit(p, v)
        PROVE  \A r \in Procs : Carries(r)
    BY <2>1, <2>3, ExitEnds DEF EndsNow, Untouched, Carries, Unborn
  <2> QED BY <1>3, <2>2, <2>3 DEF Return
<1> QED BY <1>1, <1>2, <1>3

LEMMA ValueCarries ==
    ASSUME Types, NEW p \in Procs,
           EvalBuiltin(p) \/ EvalExit(p) \/ ReportStatus(p)
    PROVE  \A r \in Procs : Carries(r)
<1>0. proc \in [Procs -> Record] /\ proc[p].state = "shell" /\ proc[p].ctl # "start"
  BY DEF Types, EvalBuiltin, EvalExit, ReportStatus, Running
<1>1. ASSUME NEW v, Value(p, v)
      PROVE  \A r \in Procs : Carries(r)
  BY <1>0, <1>1 DEF Value, Carries, Started, Record
<1>2. ASSUME NEW s, Exit(p, s)
      PROVE  \A r \in Procs : Carries(r)
  BY <1>0, <1>2 DEF Exit, Carries, Unborn, Record
<1> QED BY <1>1, <1>2 DEF EvalBuiltin, EvalExit, ReportStatus

LEMMA WaitCarries ==
    ASSUME Types, NEW p \in Procs, WaitOne(p) \/ WaitFirst(p) \/ WaitRest(p)
    PROVE  \A r \in Procs : Carries(r)
<1>0. /\ proc \in [Procs -> Record] /\ proc[p].state = "shell" /\ proc[p].ctl # "start"
      /\ \A q \in Zombies(p) : q \in Procs /\ q # p /\ ~Unborn(q)
  BY DEF Types, WaitOne, WaitFirst, WaitRest, Running, Zombies, Children, Procs, Unborn
<1>1. ASSUME NEW c, c # "start", NEW v, NEW q \in Zombies(p),
             proc' = [proc EXCEPT ![p].ctl = c, ![p].val = v, ![q].state = "gone"]
      PROVE  \A r \in Procs : Carries(r)
  <2>1. q \in Procs /\ q # p /\ ~Unborn(q)
    BY <1>0, <1>1
  <2>2. proc'[q].state = "gone"
    BY <1>0, <1>1, <2>1 DEF Record
  <2>3. proc'[p].state = "shell" /\ proc'[p].ctl # "start"
        /\ proc'[p].inp = proc[p].inp /\ proc'[p].out = proc[p].out
    BY <1>0, <1>1, <2>1 DEF Record
  <2>4. \A r \in Procs : r # p /\ r # q => proc'[r] = proc[r]
    BY <1>0, <1>1
  <2> QED BY <1>0, <2>1, <2>2, <2>3, <2>4 DEF Carries, Started
<1>2. CASE Children(p) = {} /\ proc' = [proc EXCEPT ![p].ctl = "value"]
  BY <1>0, <1>2 DEF Carries, Started, Record
<1>3. CASE WaitOne(p)
  <2>1. AfterWait(proc[p].at) # "start"
    BY DEF AfterWait
  <2> QED BY <1>1, <1>3, <2>1 DEF WaitOne
<1>4. CASE WaitFirst(p)
  BY <1>1, <1>4 DEF WaitFirst
<1>5. CASE WaitRest(p)
  <2>1. ASSUME NEW q \in Zombies(p), proc' = [proc EXCEPT ![q].state = "gone"]
        PROVE  \A r \in Procs : Carries(r)
    <3>1. q \in Procs /\ ~Unborn(q) /\ proc'[q].state = "gone"
      BY <1>0, <2>1 DEF Record
    <3>2. \A r \in Procs : r # q => proc'[r] = proc[r]
      BY <1>0, <2>1
    <3> QED BY <3>1, <3>2 DEF Carries
  <2> QED BY <1>2, <1>5, <2>1 DEF WaitRest
<1> QED BY <1>3, <1>4, <1>5

LEMMA ToolCarries ==
    ASSUME Types, NEW q \in Nodes, ToolStep(q) \/ Writes(q)
    PROVE  \A r \in Procs : Carries(r)
<1>1. ASSUME NEW s, Exit(q, s), proc[q].state = "tool"
      PROVE  \A r \in Procs : Carries(r)
  BY <1>1, ExitEnds DEF EndsNow, Untouched, Carries, Unborn, Procs
<1>2. CASE Copies(q) \/ Writes(q)
  BY <1>2 DEF Copies, Writes, Carries
<1> QED BY <1>1, <1>2 DEF ToolStep, Ends, ReadsEof, KilledBySigPipe, IsTool

(***************************************************************************)
(* A fork: the child has the input of its parent, and the pipe made for it *)
(* if it is an element; the element before it has begun.                   *)
(***************************************************************************)
LEMMA ForkedCopies ==
    ASSUME Types, NEW p \in Procs, proc[p].state = "shell", NEW q \in Procs, p # q,
           NEW h, NEW c, c # "start", Forked(p, q, h, c)
    PROVE  /\ proc'[q].state = "shell" /\ proc'[q].ctl = "start"
           /\ proc'[q].inp = proc[p].inp /\ proc'[q].held = h
           /\ proc'[p].state = "shell" /\ proc'[p].ctl = c
           /\ proc'[p].inp = proc[p].inp /\ proc'[p].out = proc[p].out
           /\ \A r \in Procs : r # p /\ r # q => proc'[r] = proc[r]
<1> DEFINE x == [proc[p] EXCEPT !.parent = p, !.ctl = "start", !.at = q, !.cur = 0, !.held = h]
           y == [proc[p] EXCEPT !.held = h, !.ctl = c]
<1>0. proc \in [Procs -> Record] /\ proc[p] \in Record
  BY DEF Types
<1>1. /\ x.state = "shell" /\ x.ctl = "start" /\ x.inp = proc[p].inp /\ x.held = h
      /\ y.state = "shell" /\ y.ctl = c /\ y.inp = proc[p].inp /\ y.out = proc[p].out
  BY <1>0 DEF Record
<1>2. proc'[q] = x /\ proc'[p] = y
  BY <1>0 DEF Forked
<1>3. \A r \in Procs : r # p /\ r # q => proc'[r] = proc[r]
  BY <1>0 DEF Forked
<1> HIDE DEF x, y
<1> QED BY <1>1, <1>2, <1>3

LEMMA ForkConnected ==
    ASSUME Types, tree' = tree, NEW p \in Procs, NEW q \in Nodes, p # q,
           Started(p), proc[p].state = "shell", NEW h, NEW c, c # "start", Forked(p, q, h, c),
           IsElement(q) /\ ~IsLast(q) => <<q, "w">> \in h,
           IsElement(q) /\ ~IsFirst(q) => ~Unborn(Before(q)),
           \A r \in Procs : ~Unborn(r) => ~Unborn(r)',
           \A r \in Procs : Connected(r)
    PROVE  \A r \in Procs : Connected(r)'
<1>0. q \in Procs /\ tree \in Trees
  BY DEF Procs, Types
<1>1. /\ proc'[q].state = "shell" /\ proc'[q].ctl = "start"
      /\ proc'[q].inp = proc[p].inp /\ proc'[q].held = h
      /\ proc'[p].state = "shell" /\ proc'[p].ctl = c
      /\ proc'[p].inp = proc[p].inp /\ proc'[p].out = proc[p].out
      /\ \A r \in Procs : r # p /\ r # q => proc'[r] = proc[r]
  BY <1>0, ForkedCopies
<1>2. \A r \in Procs : r # q => Carries(r)
  BY <1>1 DEF Carries, Started
<1>3. \A r \in Procs : r # q => Connected(r)'
  BY <1>0, <1>2, SameConnected
<1>4. /\ \A n : IsElement(n)' = IsElement(n) /\ IsFirst(n)' = IsFirst(n)
      /\ \A n : IsLast(n)' = IsLast(n) /\ Before(n)' = Before(n)
  BY SameElements
<1>5. \A i : Begun(i) => Begun(i)'
  BY <1>4 DEF Begun, Procs
<1>6. IsElement(q) /\ ~IsFirst(q) => Before(q) \in Procs
  BY <1>0, BeforeIs DEF Procs
<1>7. proc[p].inp # 0 => Begun(proc[p].inp)
  BY DEF Connected, Input, Alive
<1>8. Input(q)'
  BY <1>1, <1>4, <1>5, <1>6, <1>7 DEF Input
<1>9. Output(q)'
  BY <1>1, <1>4 DEF Output, Running, Started
<1> QED BY <1>3, <1>8, <1>9 DEF Connected

LEMMA EvalForkConnected ==
    ASSUME Types, tree' = tree, NEW p \in Procs, Place(p), EvalFork(p),
           \A r \in Procs : ~Unborn(r) => ~Unborn(r)',
           \A r \in Procs : Connected(r)
    PROVE  \A r \in Procs : Connected(r)'
<1>1. PICK q \in Nodes : q = proc[p].at
  BY DEF Types, Record
<1>2. proc[p].state = "shell" /\ proc[p].ctl = "eval" /\ Forked(p, q, proc[p].held, "one")
  BY <1>1 DEF EvalFork, Running
<1>3. level[q] = p /\ ~IsElement(q)
  BY <1>1, <1>2 DEF Place, IsElement
<1>4. p # q
  BY <1>3, LevelFacts, PipelineAssumption DEF Types, Nodes
<1> QED BY <1>2, <1>3, <1>4, ForkConnected DEF Started

LEMMA ForkElementConnected ==
    ASSUME Types, tree' = tree, NEW p \in Procs, Place(p), InPipe(p), ForkElement(p),
           \A r \in Procs : ~Unborn(r) => ~Unborn(r)',
           \A r \in Procs : Connected(r)
    PROVE  \A r \in Procs : Connected(r)'
<1>0. tree \in Trees /\ proc[p].state = "shell" /\ proc[p].ctl = "add"
  BY DEF Types, ForkElement, Running
<1>1. PICK q \in Nodes : /\ q = proc[p].cur /\ level[q] = p /\ q \in Below(proc[p].at)
                         /\ IsElement(q)
  BY <1>0 DEF Place
<1>2. PICK n \in Nodes : n = proc[p].at /\ level[n] = p /\ Kind(n) = "pipe"
  BY <1>0 DEF Types, Record, Place, InPipe, PipeAt
<1>3. \A e \in Stages(n) : StartedBefore(e, q) => ~Unborn(e)
  BY <1>0, <1>1, <1>2 DEF InPipe, PipeAt
<1>4. PICK h : Forked(p, q, h, "close") /\ (~IsLast(q) => <<q, "w">> \in h)
  BY <1>1 DEF ForkElement
<1>5. ASSUME ~IsFirst(q)
      PROVE  ~Unborn(Before(q))
  <2>1. /\ Before(q) \in Nodes /\ IsElement(Before(q)) /\ level[Before(q)] = p
        /\ StartedBefore(Before(q), q) /\ Before(q) \in Below(Up(q))
    BY <1>0, <1>1, <1>5, BeforeIs
  <2>2. q \in Stages(n)
    BY <1>1, <1>2 DEF Stages
  <2>3. Up(q) \in Below(n) /\ Up(q) \in Nodes
    BY <1>0, <1>2, <2>2, StagePipe
  <2>4. Before(q) \in Below(n)
    BY <1>0, <2>1, <2>3, BelowNests
  <2> QED BY <1>2, <1>3, <2>1, <2>4 DEF Stages
<1>6. p # q
  BY <1>0, <1>1, LevelFacts, PipelineAssumption DEF Nodes
<1> QED BY <1>0, <1>4, <1>5, <1>6, ForkConnected DEF Started

(***************************************************************************)
(* The child connects its pipes: after that, its input is the pipe of the  *)
(* element before it, or what it had, and its output its own pipe.         *)
(***************************************************************************)
LEMMA ConnectsPipes ==
    ASSUME Types, tree' = tree, NEW q \in Nodes, Running(q, "start"), Connected(q),
           NEW x, proc' = [proc EXCEPT ![q] = x],
           x.state = "tool" \/ x.ctl = "eval",
           x.inp \in {0, ConnectedInp(q)}, x.out = ConnectedOut(q) \/ WritesToFile(q),
           \A r \in Procs : ~Unborn(r) => ~Unborn(r)'
    PROVE  Connected(q)'
<1>0. q \in Procs /\ tree \in Trees /\ proc'[q] = x /\ Alive(q) /\ ~Unborn(q)
  BY DEF Procs, Types, Running, Alive, Unborn
<1>1. /\ \A n : IsElement(n)' = IsElement(n) /\ IsFirst(n)' = IsFirst(n)
      /\ \A n : IsLast(n)' = IsLast(n) /\ Before(n)' = Before(n)
      /\ \A n : WritesToFile(n)' = WritesToFile(n)
  BY SameElements, SameTree DEF WritesToFile
<1>2. \A i : Begun(i) => Begun(i)'
  BY <1>1 DEF Begun, Procs
<1>3. IsElement(q) /\ ~IsFirst(q) => Begun(Before(q)) /\ Before(q) \in Procs
  BY <1>0, BeforeIs DEF Begun, Connected, Input, Procs
<1>4. x.inp # 0 => Begun(x.inp)
  BY <1>0, <1>3 DEF ConnectedInp, Connected, Input
<1>5. Input(q)'
  <2>1. PICK i, b : i = x.inp /\ b = Before(q) /\ b = Before(q)'
    BY <1>1
  <2>2. i # 0 => Begun(i)'
    BY <1>2, <1>4, <2>1
  <2>3. IsElement(q)' /\ ~IsFirst(q)' => ~Unborn(b)'
    BY <1>1, <1>3, <2>1 DEF Begun
  <2> QED BY <1>0, <2>1, <2>2, <2>3 DEF Input, Begun, Unborn
<1>6. ~Running(q, "start")'
  BY <1>0 DEF Running, Types, Record
<1>7. IsElement(q) /\ ~IsLast(q) => ConnectedOut(q) = q
  BY DEF ConnectedOut
<1>8. Output(q)'
  BY <1>0, <1>1, <1>6, <1>7 DEF Output
<1> QED BY <1>5, <1>8 DEF Connected

LEMMA StartConnected ==
    ASSUME Types, tree' = tree, NEW q \in Nodes, StartStep(q),
           \A r \in Procs : ~Unborn(r) => ~Unborn(r)',
           \A r \in Procs : Connected(r)
    PROVE  \A r \in Procs : Connected(r)'
<1>0. q \in Procs /\ tree \in Trees /\ Running(q, "start") /\ proc \in [Procs -> Record]
  BY DEF Procs, Types, StartStep, StartTool, StartSubshell
<1>1. ASSUME NEW x, proc' = [proc EXCEPT ![q] = x], Connected(q)'
      PROVE  \A r \in Procs : Connected(r)'
  BY <1>0, <1>1, SameConnected DEF Carries
<1>2. CASE StartTool(q)
  <2> DEFINE x == [proc[q] EXCEPT !.state = "tool", !.inp = ConnectedInp(q),
                                  !.out = ConnectedOut(q), !.held = ConnectedHeld(q)]
  <2>1. proc' = [proc EXCEPT ![q] = x]
    BY <1>2 DEF StartTool
  <2>2. x.state = "tool" /\ x.inp = ConnectedInp(q) /\ x.out = ConnectedOut(q)
    BY <1>0 DEF Record
  <2> HIDE DEF x
  <2>3. Connected(q)'
    BY <1>0, <2>1, <2>2, ConnectsPipes
  <2> QED BY <1>1, <2>1, <2>3
<1>3. CASE StartSubshell(q) /\ ~Exit(q, 1)
  <2> DEFINE redir == tree.prog[q]
             i == IF redir = "in" THEN 0 ELSE ConnectedInp(q)
             o == IF redir = "out" THEN 0 ELSE ConnectedOut(q)
             h == ConnectedHeld(q) \cup
                      (CASE redir = "in" -> Backup(q, <<ConnectedInp(q), "r">>)
                         [] redir = "out" -> Backup(q, <<ConnectedOut(q), "w">>)
                         [] OTHER -> {})
             x == [proc[q] EXCEPT !.ctl = "eval", !.at = Left(q),
                                  !.inp = i, !.out = o, !.held = h]
  <2>1. proc' = [proc EXCEPT ![q] = x] /\ Kind(q) = "sub"
    BY <1>3 DEF StartSubshell
  <2>2. i \in {0, ConnectedInp(q)} /\ (o = ConnectedOut(q) \/ WritesToFile(q))
    BY <2>1 DEF WritesToFile
  <2> HIDE DEF i, o, h
  <2>3. x.ctl = "eval" /\ x.inp = i /\ x.out = o
    BY <1>0 DEF Record
  <2> HIDE DEF x
  <2>4. Connected(q)'
    BY <1>0, <2>1, <2>2, <2>3, ConnectsPipes
  <2> QED BY <1>1, <2>1, <2>4
<1>4. CASE Exit(q, 1)
  <2>1. \A r \in Procs : Carries(r)
    BY <1>0, <1>4, ExitEnds DEF EndsNow, Untouched, Carries, Unborn, Running
  <2> QED BY <1>0, <2>1, SameConnected
<1> QED BY <1>2, <1>3, <1>4 DEF StartStep

(***************************************************************************)
(* Without faults every process that reads a pipe reads that of an element *)
(* which has begun, and this element writes there.                         *)
(***************************************************************************)
Streams == faults = 0 => \A p \in Procs : Connected(p)

LEMMA StreamsInit == Init => Streams
BY InitProc DEF Streams, Connected, Input, Output, Alive, Running, Started, Unborn, Init,
                Newborn, Procs, Nodes, Shell

LEMMA StreamsStep == Held /\ Told /\ Streams /\ [Next]_vars => Streams'
<1> SUFFICES ASSUME Held, Told, Streams, [Next]_vars, faults' = 0
             PROVE  \A p \in Procs : Connected(p)'
  BY DEF Streams, Procs, Nodes
<1>1. StepShapes /\ Types /\ tree \in Trees /\ \A p \in Procs : Place(p)
  BY StepsHaveShapes DEF Held, Types
<1>2. tree' = tree /\ faults = 0 /\ \A r \in Procs : ~Unborn(r) => ~Unborn(r)'
  BY <1>1, BornStays DEF StepShapes
<1>3. \A p \in Procs : Connected(p) /\ InPipe(p)
  BY <1>2 DEF Streams, Told
<1>4. ASSUME \A r \in Procs : Carries(r)
      PROVE  \A r \in Procs : Connected(r)'
  BY <1>1, <1>2, <1>3, <1>4, SameConnected
<1>5. CASE UNCHANGED vars
  BY <1>4, <1>5 DEF vars, Carries
<1>6. ASSUME NEW p \in Procs, ShellStep(p)
      PROVE  \A r \in Procs : Connected(r)'
  <2>1. CASE EvalFork(p)
    BY <1>1, <1>2, <1>3, <2>1, EvalForkConnected
  <2>2. CASE ForkElement(p)
    BY <1>1, <1>2, <1>3, <2>2, ForkElementConnected
  <2>3. CASE ~EvalFork(p) /\ ~ForkElement(p)
    <3>1. \A r \in Procs : Carries(r)
      BY <1>1, <1>6, <2>3, ListCarries, ValueCarries, WaitCarries DEF ShellStep
    <3> QED BY <1>4, <3>1
  <2> QED BY <2>1, <2>2, <2>3
<1>7. ASSUME NEW p \in Procs, FaultStep(p)
      PROVE  FALSE
  BY <1>1, <1>7 DEF FaultStep, EvalForkFails, ForkElementFails, WaitInterrupted, Fault, Types
<1>8. ASSUME NEW q \in Nodes, StartStep(q)
      PROVE  \A r \in Procs : Connected(r)'
  BY <1>1, <1>2, <1>3, <1>8, StartConnected
<1>9. ASSUME NEW q \in Nodes, ToolStep(q) \/ Writes(q)
      PROVE  \A r \in Procs : Connected(r)'
  BY <1>1, <1>4, <1>9, ToolCarries
<1> QED BY <1>5, <1>6, <1>7, <1>8, <1>9 DEF Next, Finished

THEOREM StreamsInvariant == Spec => []Streams
BY HeldInvariant, ToldInvariant, StreamsInit, StreamsStep, PTL DEF Spec

(***************************************************************************)
(* The end of file: a filter that ends with status 0 has read it.          *)
(***************************************************************************)
LEMMA FilterEnds ==
    ASSUME Types, [Next]_vars, NEW q \in Nodes, IsTool(q, "filter"),
           proc'[q].state = "zombie", proc'[q].val = 0
    PROVE  ReadsEof(q)
<1>0. q \in Procs /\ proc[q].state = "tool" /\ proc \in [Procs -> Record]
  BY DEF Procs, IsTool, Types
<1>1. ASSUME proc'[q] = proc[q]
      PROVE  FALSE
  BY <1>0, <1>1
<1>2. ASSUME NEW p \in Procs, p # q, ShellStep(p) \/ FaultStep(p)
      PROVE  FALSE
  <2>1. CASE EvalAndOr(p) \/ EvalPipe(p) \/ GoDown(p) \/ CloseEnds(p) \/ Return(p)
    BY <1>0, <1>1, <1>2, <2>1
       DEF EvalAndOr, EvalPipe, GoDown, CloseEnds, CloseEndsOf, Return, Exit
  <2>2. CASE EvalBuiltin(p) \/ EvalExit(p) \/ ReportStatus(p) \/ FaultStep(p)
    BY <1>0, <1>1, <1>2, <2>2 DEF EvalBuiltin, EvalExit, ReportStatus, Value, Exit,
       FaultStep, EvalForkFails, ForkElementFails, WaitInterrupted
  <2>3. CASE EvalFork(p) \/ ForkElement(p)
    <3>1. \E r \in Procs : \E h, c : Forked(p, r, h, c) /\ proc[p].state = "shell"
      BY <2>3 DEF EvalFork, ForkElement, Running, Types, Record, Procs, Shell
    <3>2. PICK r \in Procs : \E h, c : Makes(p, r, c, h)
      BY <3>1, ForkedMakes
    <3> QED BY <1>0, <1>1, <1>2, <3>2 DEF Makes, Untouched
  <2>4. CASE WaitOne(p) \/ WaitFirst(p) \/ WaitRest(p)
    <3>1. \A r \in Zombies(p) : r \in Procs /\ r # q
      BY <1>0 DEF Zombies, Children, Procs
    <3>2. ASSUME NEW r \in Zombies(p), NEW c, NEW v,
                 \/ proc' = [proc EXCEPT ![p].ctl = c, ![p].val = v, ![r].state = "gone"]
                 \/ proc' = [proc EXCEPT ![r].state = "gone"]
          PROVE  FALSE
      BY <1>0, <1>1, <1>2, <3>1, <3>2
    <3>3. proc' # [proc EXCEPT ![p].ctl = "value"]
      BY <1>0, <1>1, <1>2
    <3>4. ~WaitOne(p)
      BY <3>2 DEF WaitOne
    <3>5. ~WaitFirst(p)
      BY <3>2 DEF WaitFirst
    <3>6. ~WaitRest(p)
      BY <3>2, <3>3 DEF WaitRest
    <3> QED BY <2>4, <3>4, <3>5, <3>6
  <2> QED BY <1>2, <2>1, <2>2, <2>3, <2>4 DEF ShellStep
<1>3. ~ShellStep(q) /\ ~FaultStep(q)
  BY <1>0 DEF ShellStep, FaultStep, EvalAndOr, EvalBuiltin, EvalExit, EvalFork, EvalPipe, GoDown,
              ForkElement, CloseEnds, CloseEndsOf, WaitOne, ReportStatus, WaitFirst, WaitRest,
              Return, EvalForkFails, ForkElementFails, WaitInterrupted, Running
<1>4. ASSUME NEW r \in Nodes, r # q, StartStep(r) \/ ToolStep(r) \/ Writes(r)
      PROVE  FALSE
  BY <1>0, <1>1, <1>4 DEF StartStep, StartTool, StartSubshell, ToolStep, Ends, Copies, ReadsEof,
                         KilledBySigPipe, Writes, Exit
<1>5. CASE StartStep(q) \/ ToolStep(q) \/ Writes(q)
  <2>1. ~StartStep(q) /\ ~Ends(q) /\ ~Writes(q) /\ ~Copies(q)
    BY <1>0, <1>1 DEF StartStep, StartTool, StartSubshell, Running, Ends, Writes, Copies, IsTool
  <2>2. ~KilledBySigPipe(q)
    <3>1. ASSUME Exit(q, 1)
          PROVE  proc'[q].val = 1
      BY <1>0, <3>1 DEF Exit, Record
    <3> QED BY <3>1 DEF KilledBySigPipe
  <2> QED BY <1>5, <2>1, <2>2 DEF ToolStep
<1>6. CASE UNCHANGED vars
  BY <1>1, <1>6 DEF vars
<1> QED BY <1>1, <1>2, <1>3, <1>4, <1>5, <1>6 DEF Next, Finished

(***************************************************************************)
(* An element that no longer runs has nothing left that does.              *)
(***************************************************************************)
LEMMA ElementOver ==
    ASSUME Types, \A p \in Procs : OwnParent(p) /\ Family(p),
           NEW i \in Nodes, IsElement(i), Over(i)
    PROVE  AllOver(i)
<1>0. tree \in Trees /\ i \in Procs /\ Kind(i) \in {"cmd", "sub"}
  BY ElementFacts DEF Types, Procs
<1>1. Children(i) = {}
  BY <1>0 DEF Family, Over
<1>2. Left(i) # 0 => AllOver(Left(i))
  <2> SUFFICES ASSUME Left(i) # 0 PROVE AllOver(Left(i))
    OBVIOUS
  <2>1. Kind(i) = "sub" /\ Left(i) \in Nodes
    BY <1>0, TreeFacts
  <2>2. level[Left(i)] = i
    BY <1>0, <2>1, LevelOfChild
  <2> QED BY <1>0, <1>1, <2>1, <2>2, ReturnsOver
<1>3. Right(i) = 0 /\ Below(0) = {}
  BY <1>0, TreeFacts, BelowIs
<1>4. \A m \in Below(i) : m # i => m \in Below(Left(i)) /\ Left(i) # 0
  BY <1>0, <1>3, BelowFacts
<1> QED BY <1>2, <1>4 DEF AllOver

(***************************************************************************)
(* Pipes (add_pipe, exec_piped_cmd, exec_last_piped_cmd): a filter reads   *)
(* the end of file only when the element before it is over, with all that  *)
(* runs inside of it.                                                      *)
(***************************************************************************)
THEOREM NoEarlyEofCorrect == Spec => NoEarlyEof
<1>1. ASSUME Held, Kin, Streams, [Next]_vars, NEW q \in Nodes, IsTool(q, "filter"),
             proc[q].inp # 0, proc'[q].state = "zombie", proc'[q].val = 0,
             faults = 0, ~WritesToFile(proc[q].inp)
      PROVE  /\ proc[proc[q].inp].state # "unborn"
             /\ \A r \in Below(proc[q].inp) : Over(r)
  <2> DEFINE i == proc[q].inp
  <2>1. Types /\ q \in Procs /\ Alive(q)
    BY <1>1 DEF Held, Procs, Alive, IsTool
  <2>2. Begun(i) /\ i \in Nodes /\ i \in Procs
    BY <1>1, <2>1 DEF Streams, Connected, Input, Begun, Procs
  <2>3. Writers(i) = {}
    BY <1>1, <2>1, FilterEnds DEF ReadsEof
  <2>4. Connected(i) /\ i \notin Writers(i)
    BY <1>1, <2>2, <2>3 DEF Streams
  <2>5. ~Alive(i)
    BY <1>1, <2>2, <2>4 DEF Connected, Output, Begun, Writers, Alive, Running, Started
  <2>6. Over(i)
    BY <2>1, <2>2, <2>5 DEF Over, Alive, Types, Record
  <2>7. AllOver(i)
    BY <1>1, <2>1, <2>2, <2>6, ElementOver DEF Kin, Begun
  <2> QED BY <2>2, <2>7 DEF Begun, Unborn, AllOver
<1>2. Held /\ Kin /\ Streams /\ [Next]_vars =>
        [\A q \in Nodes :
            /\ IsTool(q, "filter") /\ proc[q].inp # 0
            /\ proc'[q].state = "zombie" /\ proc'[q].val = 0
            /\ faults = 0 /\ ~WritesToFile(proc[q].inp)
            => /\ proc[proc[q].inp].state # "unborn"
               /\ \A r \in Below(proc[q].inp) : Over(r)]_vars
  BY <1>1
<1> QED BY <1>2, HeldInvariant, KinInvariant, StreamsInvariant, PTL DEF Spec, NoEarlyEof

=============================================================================
