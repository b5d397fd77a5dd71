-------------------------------- MODULE AppProofs --------------------------------
(***************************************************************************)
(* What holds of the apps' memory, from the process table to the rows      *)
(* drawn.                                                                  *)
(*                                                                         *)
(* ProcessScan: whom a scan puts memory down to and which rows it answers  *)
(* with, for every process table, any number of hops and any number of     *)
(* processes that exit meanwhile.  The first part is about the process     *)
(* table alone: the chain of responsible processes, cycles and all, finds  *)
(* the app it leads to within as many processes as there are, so the owner *)
(* of a process that is in no app is the owner of the process responsible  *)
(* for it.  The second part is about the scan, the third about its sums    *)
(* and the sorted rows.                                                    *)
(*                                                                         *)
(* AppRows: where a growth drawn is from and which rows are cut, for any   *)
(* number of apps and any footprints.  It rests on what a stable sort      *)
(* does: each row gets the place of as many rows as go before it.          *)
(***************************************************************************)
EXTENDS ProcessScan, AppRows, SumProofs, SequenceTheorems

--------------------------------------------------------------------------------
(* The chain of responsible processes *)

Known == Pids \union {0}

\* The n processes of a chain, from those of all chains a process shorter.
Look(m, shorter, n) ==
  [pid \in Known |->
     IF n = 0 \/ pid = 0 THEN NoApp
     ELSE IF m.bundle[pid] \in Apps THEN m.bundle[pid]
     ELSE shorter[n - 1][m.responsible[pid]]]

Chain(m) == CHOOSE f : f = [n \in Nat |-> Look(m, f, n)]

\* The chains of at most n processes.
Chained(m, f, n) == \A k \in 0 .. n : f[k] = Look(m, f, k)

\* A longer chain looks at the one before it alone.
LEMMA LookBack ==
  ASSUME NEW m, NEW f, NEW g, NEW n \in Nat, n # 0 => f[n - 1] = g[n - 1]
  PROVE  Look(m, f, n) = Look(m, g, n)
<1>1. CASE n = 0
  BY <1>1 DEF Look
<1>2. CASE n # 0
  BY <1>2 DEF Look
<1> QED
  BY <1>1, <1>2

\* There are chains of any length.
LEMMA ChainsExist == ASSUME NEW m, NEW n \in Nat PROVE \E f : Chained(m, f, n)
<1> DEFINE I == {k \in Nat : \E f : Chained(m, f, k)}
<1>1. 0 \in I
  <2> DEFINE f == [k \in {0} |-> Look(m, <<>>, 0)]
  <2>1. f[0] = Look(m, <<>>, 0)
    OBVIOUS
  <2> HIDE DEF f
  <2>2. Look(m, <<>>, 0) = Look(m, f, 0)
    BY LookBack
  <2>3. Chained(m, f, 0)
    BY <2>1, <2>2 DEF Chained
  <2> QED
    BY <2>3
<1>2. ASSUME NEW k \in Nat, k \in I PROVE k + 1 \in I
  <2>1. PICK f : Chained(m, f, k)
    BY <1>2
  <2> DEFINE g == [j \in 0 .. k + 1 |-> IF j = k + 1 THEN Look(m, f, k + 1) ELSE f[j]]
  <2>2. g[k + 1] = Look(m, f, k + 1) /\ \A j \in 0 .. k : g[j] = f[j]
    OBVIOUS
  <2> HIDE DEF g
  <2>3. ASSUME NEW j \in 0 .. k PROVE g[j] = Look(m, g, j)
    <3>1. j \in Nat /\ (j # 0 => f[j - 1] = g[j - 1])
      BY <2>2
    <3>2. Look(m, f, j) = Look(m, g, j)
      BY <3>1, LookBack
    <3> QED
      BY <2>1, <2>2, <3>2 DEF Chained
  <2>4. g[k + 1] = Look(m, g, k + 1)
    <3>1. k + 1 \in Nat /\ f[(k + 1) - 1] = g[(k + 1) - 1]
      BY <2>2
    <3>2. Look(m, f, k + 1) = Look(m, g, k + 1)
      BY <3>1, LookBack
    <3> QED
      BY <2>2, <3>2
  <2>5. Chained(m, g, k + 1)
    BY <2>3, <2>4 DEF Chained
  <2> QED
    BY <2>5
<1>3. Nat \subseteq I
  <2> HIDE DEF I
  <2> QED
    BY <1>1, <1>2, NumbersByInduction
<1> QED
  BY <1>3

\* And no two that differ.
LEMMA ChainsAgree ==
  ASSUME NEW m, NEW n \in Nat, NEW f, NEW g, Chained(m, f, n), Chained(m, g, n)
  PROVE  f[n] = g[n]
<1> DEFINE I == {k \in Nat : k <= n => f[k] = g[k]}
<1>1. 0 \in I
  <2>1. Look(m, f, 0) = Look(m, g, 0)
    BY LookBack
  <2> QED
    BY <2>1 DEF Chained
<1>2. ASSUME NEW k \in Nat, k \in I PROVE k + 1 \in I
  <2> SUFFICES ASSUME k + 1 <= n PROVE f[k + 1] = g[k + 1]
    OBVIOUS
  <2>1. k + 1 \in Nat /\ (k + 1) - 1 = k /\ f[k] = g[k] /\ k + 1 \in 0 .. n
    BY <1>2
  <2>2. Look(m, f, k + 1) = Look(m, g, k + 1)
    BY <2>1, LookBack
  <2> QED
    BY <2>1, <2>2 DEF Chained
<1>3. Nat \subseteq I
  <2> HIDE DEF I
  <2> QED
    BY <1>1, <1>2, NumbersByInduction
<1> QED
  BY <1>3

\* So the chain is what its definition says.
LEMMA ChainStep == ASSUME NEW m, NEW n \in Nat PROVE Chain(m)[n] = Look(m, Chain(m), n)
<1> DEFINE Some(k) == CHOOSE f : Chained(m, f, k)
           c == [k \in Nat |-> Some(k)[k]]
<1>1. \A k \in Nat : Chained(m, Some(k), k)
  BY ChainsExist
<1> HIDE DEF Some
<1>2. ASSUME NEW k \in Nat PROVE c[k] = Look(m, c, k)
  <2>1. c[k] = Look(m, Some(k), k)
    BY <1>1 DEF Chained
  <2>2. ASSUME k # 0 PROVE Some(k)[k - 1] = c[k - 1]
    <3>1. k - 1 \in Nat /\ 0 .. k - 1 \subseteq 0 .. k
      BY <2>2
    <3>2. Chained(m, Some(k), k - 1) /\ Chained(m, Some(k - 1), k - 1)
      BY <1>1, <3>1 DEF Chained
    <3>3. Some(k)[k - 1] = Some(k - 1)[k - 1]
      BY <3>1, <3>2, ChainsAgree
    <3> QED
      BY <3>1, <3>3
  <2> HIDE DEF c
  <2>3. Look(m, Some(k), k) = Look(m, c, k)
    BY <2>2, LookBack
  <2> QED
    BY <2>1, <2>3
<1>3. c = [k \in Nat |-> Look(m, c, k)]
  BY <1>2
<1> HIDE DEF c
<1>4. Chain(m) = [k \in Nat |-> Look(m, Chain(m), k)]
  BY <1>3 DEF Chain
<1> QED
  BY <1>4


\* What a chain of n processes says of its first.
LEMMA ChainAt ==
  ASSUME NEW m, NEW n \in Nat, NEW p \in Known
  PROVE  Chain(m)[n][p] =
           IF n = 0 \/ p = 0 THEN NoApp
           ELSE IF m.bundle[p] \in Apps THEN m.bundle[p]
           ELSE Chain(m)[n - 1][m.responsible[p]]
<1>1. Chain(m)[n] = Look(m, Chain(m), n)
  BY ChainStep
<1> DEFINE c == Chain(m)
<1> HIDE DEF c
<1>2. Look(m, c, n)[p] =
           IF n = 0 \/ p = 0 THEN NoApp
           ELSE IF m.bundle[p] \in Apps THEN m.bundle[p]
           ELSE c[n - 1][m.responsible[p]]
  BY DEF Look
<1> QED
  BY <1>1, <1>2 DEF c

\* A process table's parts.
LEMMA Tables ==
  ASSUME NEW m \in Machine
  PROVE  /\ m.listed \subseteq Known
         /\ \A p \in Pids : /\ m.bundle[p] \in Apps \union Agents \union {NoApp}
                            /\ m.responsible[p] \in Known
                            /\ m.footprint[p] \in Nat
BY DEF Machine, Known

\* A chain finds an app or none.
LEMMA ChainType ==
  ASSUME NEW m \in Machine, NEW n \in Nat
  PROVE  \A p \in Known : Chain(m)[n][p] \in Apps \union {NoApp}
<1> DEFINE I == {k \in Nat : \A p \in Known : Chain(m)[k][p] \in Apps \union {NoApp}}
<1>1. 0 \in I
  BY ChainAt
<1>2. ASSUME NEW k \in Nat, k \in I PROVE k + 1 \in I
  <2>1. ASSUME NEW p \in Known PROVE Chain(m)[k + 1][p] \in Apps \union {NoApp}
    <3>1. k + 1 \in Nat /\ k + 1 # 0 /\ (k + 1) - 1 = k
      OBVIOUS
    <3>2. p # 0 => Chain(m)[k][m.responsible[p]] \in Apps \union {NoApp}
      BY <1>2, Tables DEF Known
    <3>3. Chain(m)[k + 1][p] =
            IF p = 0 THEN NoApp
            ELSE IF m.bundle[p] \in Apps THEN m.bundle[p]
            ELSE Chain(m)[k][m.responsible[p]]
      BY <3>1, ChainAt
    <3> QED
      BY <3>2, <3>3
  <2> QED
    BY <2>1
<1>3. Nat \subseteq I
  <2> HIDE DEF I
  <2> QED
    BY <1>1, <1>2, NumbersByInduction
<1> QED
  BY <1>3

\* What one more process makes of a chain.
LEMMA OneFurther ==
  ASSUME NEW m, NEW n \in Nat, NEW p \in Known
  PROVE  Chain(m)[n + 1][p] =
           IF p = 0 THEN NoApp
           ELSE IF m.bundle[p] \in Apps THEN m.bundle[p]
           ELSE Chain(m)[n][m.responsible[p]]
<1>1. n + 1 \in Nat /\ n + 1 # 0 /\ (n + 1) - 1 = n
  OBVIOUS
<1> QED
  BY <1>1, ChainAt

\* What a chain found, a longer one finds.
LEMMA FoundStays ==
  ASSUME NEW m \in Machine, NEW n \in Nat
  PROVE  \A p \in Known : Chain(m)[n][p] # NoApp => Chain(m)[n + 1][p] = Chain(m)[n][p]
<1> DEFINE I == {k \in Nat : \A p \in Known :
                   Chain(m)[k][p] # NoApp => Chain(m)[k + 1][p] = Chain(m)[k][p]}
<1>1. 0 \in I
  BY ChainAt
<1>2. ASSUME NEW k \in Nat, k \in I PROVE k + 1 \in I
  <2>1. ASSUME NEW p \in Known, Chain(m)[k + 1][p] # NoApp
        PROVE  Chain(m)[(k + 1) + 1][p] = Chain(m)[k + 1][p]
    <3>1. Chain(m)[k + 1][p] =
            IF p = 0 THEN NoApp
            ELSE IF m.bundle[p] \in Apps THEN m.bundle[p]
            ELSE Chain(m)[k][m.responsible[p]]
      BY OneFurther
    <3>2. Chain(m)[(k + 1) + 1][p] =
            IF p = 0 THEN NoApp
            ELSE IF m.bundle[p] \in Apps THEN m.bundle[p]
            ELSE Chain(m)[k + 1][m.responsible[p]]
      BY OneFurther
    <3>3. ASSUME p # 0, m.bundle[p] \notin Apps
          PROVE  Chain(m)[k + 1][m.responsible[p]] = Chain(m)[k][m.responsible[p]]
      <4>1. m.responsible[p] \in Known
        BY <3>3, Tables DEF Known
      <4> QED
        BY <1>2, <2>1, <3>1, <3>3, <4>1
    <3> QED
      BY <3>1, <3>2, <3>3
  <2> QED
    BY <2>1
<1>3. Nat \subseteq I
  <2> HIDE DEF I
  <2> QED
    BY <1>1, <1>2, NumbersByInduction
<1> QED
  BY <1>3

\* The processes that reach an app in n steps.
Reach(m, n) == {p \in Pids : Chain(m)[n][p] # NoApp}

\* Each step reaches a process more, or none will ever be.
LEMMA ReachGrows ==
  ASSUME NEW m \in Machine, NEW n \in Nat
  PROVE  Reach(m, n + 1) = Reach(m, n) \/ Cardinality(Reach(m, n)) >= n
<1> DEFINE I == {k \in Nat : Reach(m, k + 1) = Reach(m, k) \/ Cardinality(Reach(m, k)) >= k}
<1>1. ASSUME NEW k \in Nat
      PROVE  /\ IsFiniteSet(Reach(m, k)) /\ Cardinality(Reach(m, k)) \in Nat
             /\ Reach(m, k) \subseteq Reach(m, k + 1)
  <2>1. Reach(m, k) \in SUBSET Pids
    BY DEF Reach
  <2>2. IsFiniteSet(Reach(m, k)) /\ Cardinality(Reach(m, k)) \in Nat
    BY <2>1, FS_Subset, FS_CardinalityType, ConstantsAssumption
  <2>3. Reach(m, k) \subseteq Reach(m, k + 1)
    BY FoundStays DEF Reach, Known
  <2> QED
    BY <2>2, <2>3
<1>2. 0 \in I
  BY <1>1
<1>3. ASSUME NEW k \in Nat, k \in I PROVE k + 1 \in I
  <2>1. CASE Reach(m, k + 1) = Reach(m, k)
    <3>1. ASSUME NEW p \in Reach(m, (k + 1) + 1) PROVE p \in Reach(m, k + 1)
      <4>1. p \in Pids /\ p \in Known /\ p # 0 /\ m.responsible[p] \in Known
        BY Tables, ConstantsAssumption DEF Reach, Known
      <4>2. Chain(m)[(k + 1) + 1][p] =
              IF m.bundle[p] \in Apps THEN m.bundle[p]
              ELSE Chain(m)[k + 1][m.responsible[p]]
        BY <4>1, OneFurther
      <4>3. Chain(m)[k + 1][p] =
              IF m.bundle[p] \in Apps THEN m.bundle[p]
              ELSE Chain(m)[k][m.responsible[p]]
        BY <4>1, OneFurther
      <4>4. Chain(m)[(k + 1) + 1][p] # NoApp
        BY <3>1 DEF Reach
      <4>5. CASE m.bundle[p] \in Apps
        BY <4>1, <4>2, <4>3, <4>4, <4>5 DEF Reach
      <4>6. CASE m.bundle[p] \notin Apps
        <5>1. Chain(m)[k + 1][m.responsible[p]] # NoApp
          BY <4>2, <4>4, <4>6
        <5>2. m.responsible[p] # 0
          BY <4>1, <5>1, OneFurther
        <5>3. m.responsible[p] \in Reach(m, k + 1)
          BY <4>1, <5>1, <5>2 DEF Reach, Known
        <5>4. Chain(m)[k][m.responsible[p]] # NoApp
          BY <2>1, <5>3 DEF Reach
        <5> QED
          BY <4>1, <4>3, <4>6, <5>4 DEF Reach
      <4> QED
        BY <4>5, <4>6
    <3>2. Reach(m, k + 1) \subseteq Reach(m, (k + 1) + 1)
      BY <1>1
    <3> QED
      BY <3>1, <3>2
  <2>2. CASE Reach(m, k + 1) # Reach(m, k) /\ Cardinality(Reach(m, k)) >= k
    <3>1. /\ IsFiniteSet(Reach(m, k + 1)) /\ Reach(m, k) \in SUBSET Reach(m, k + 1)
          /\ Cardinality(Reach(m, k)) \in Nat /\ Cardinality(Reach(m, k + 1)) \in Nat
      BY <1>1
    <3>2. /\ Cardinality(Reach(m, k)) <= Cardinality(Reach(m, k + 1))
          /\ Cardinality(Reach(m, k)) # Cardinality(Reach(m, k + 1))
      BY <2>2, <3>1, FS_Subset
    <3>3. Cardinality(Reach(m, k + 1)) >= k + 1
      BY <2>2, <3>1, <3>2
    <3> QED
      BY <3>3
  <2> QED
    BY <1>3, <2>1, <2>2
<1>4. Nat \subseteq I
  <2> HIDE DEF I
  <2> QED
    BY <1>2, <1>3, NumbersByInduction
<1> QED
  BY <1>4


\* The owner of a process in no app is the owner of the one responsible for it, however
\* long the chain is: the processes there are suffice to look at.
LEMMA OwnerIsResponsible ==
  ASSUME machine \in Machine
  PROVE  /\ Owner(0) = NoApp
         /\ \A p \in Pids :
              /\ Owner(p) \in Apps \union {NoApp}
              /\ machine.bundle[p] \in Apps => Owner(p) = machine.bundle[p]
              /\ machine.bundle[p] \notin Apps => Owner(p) = Owner(machine.responsible[p])
<1> DEFINE n == Cardinality(Pids)
           c == Chain(machine)
<1>1. n \in Nat
  BY FS_CardinalityType, ConstantsAssumption
<1>2. OwnerWithin = c
  BY DEF OwnerWithin, Chain, Look, Known
<1>3. \A p \in Known : Owner(p) = c[n][p]
  BY <1>2 DEF Owner
<1>4. \A p \in Known : c[n + 1][p] = c[n][p]
  <2>1. Reach(machine, n + 1) = Reach(machine, n)
    <3>1. CASE Cardinality(Reach(machine, n)) >= n
      <4>1. Reach(machine, n) \in SUBSET Pids /\ Reach(machine, n + 1) \in SUBSET Pids
        BY DEF Reach
      <4>2. Cardinality(Reach(machine, n)) <= n /\ Cardinality(Reach(machine, n)) \in Nat
        BY <4>1, FS_Subset, FS_CardinalityType, ConstantsAssumption
      <4>3. Cardinality(Reach(machine, n)) = n
        BY <1>1, <3>1, <4>2
      <4>4. Reach(machine, n) = Pids
        BY <4>1, <4>3, FS_Subset, ConstantsAssumption
      <4>5. Reach(machine, n) \subseteq Reach(machine, n + 1)
        BY <1>1, FoundStays DEF Reach, Known
      <4> QED
        BY <4>1, <4>4, <4>5
    <3> QED
      BY <1>1, <3>1, ReachGrows
  <2> SUFFICES ASSUME NEW p \in Known PROVE c[n + 1][p] = c[n][p]
    OBVIOUS
  <2>2. CASE p = 0
    BY <1>1, <2>2, ChainAt, OneFurther
  <2>3. CASE p \in Pids
    <3>1. c[n][p] = NoApp => c[n + 1][p] = NoApp
      BY <2>1, <2>3 DEF Reach
    <3> QED
      BY <1>1, <3>1, FoundStays
  <2> QED
    BY <2>2, <2>3 DEF Known
<1>5. ASSUME NEW p \in Pids
      PROVE  /\ p \in Known /\ machine.responsible[p] \in Known
             /\ c[n][p] \in Apps \union {NoApp}
             /\ c[n][p] = IF machine.bundle[p] \in Apps THEN machine.bundle[p]
                          ELSE c[n][machine.responsible[p]]
  <2>1. p \in Known /\ p # 0 /\ machine.responsible[p] \in Known
    BY Tables, ConstantsAssumption DEF Known
  <2>2. c[n][p] \in Apps \union {NoApp}
    BY <1>1, <2>1, ChainType
  <2>3. c[n + 1][p] = IF machine.bundle[p] \in Apps THEN machine.bundle[p]
                      ELSE c[n][machine.responsible[p]]
    BY <1>1, <2>1, OneFurther
  <2> QED
    BY <1>4, <2>1, <2>2, <2>3
<1>6. Owner(0) = NoApp
  <2>1. 0 \in Known /\ c[n][0] = NoApp
    BY <1>1, ChainAt DEF Known
  <2> QED
    BY <1>3, <2>1
<1> HIDE DEF n, c
<1> QED
  BY <1>3, <1>5, <1>6

--------------------------------------------------------------------------------
(* The inductive invariant of a scan *)

ScanTypes ==
  /\ machine \in Machine
  /\ exited \subseteq Pids
  /\ todo \subseteq machine.listed
  /\ walk \in [pid: Known, current: Known, last: Known, visited: Seq(Pids), bytes: Nat]
  /\ walk # NoWalk => walk.pid \in Pids /\ walk.current \in Pids
  /\ bundle_memo \in [Pids -> Apps \union {NoApp, Unknown}]
  /\ records \subseteq [pid: Pids, app: Apps, bytes: Nat]

\* An app that is remembered is the owner, and none was found only for a process that is
\* in none, or has exited.
MemoHolds ==
  \A p \in Pids :
    /\ bundle_memo[p] \in Apps => bundle_memo[p] = Owner(p)
    /\ bundle_memo[p] = NoApp => p \in exited \/ machine.bundle[p] \notin Apps

\* The processes a walk has passed are in no app and have the owner of the one it looks at
\* next; the first is the one it is for.
WalkHolds ==
  walk # NoWalk =>
    /\ \A p \in ToSet(walk.visited) :
         machine.bundle[p] \notin Apps /\ Owner(p) = Owner(walk.current)
    /\ IF walk.visited = <<>> THEN walk.current = walk.pid
       ELSE walk.pid \in ToSet(walk.visited)

ScanInv ==
  ScanTypes /\ MemoHolds /\ WalkHolds /\ NeverAnotherApp /\ AppsOwnProcessIsCounted

\* The process a walk is for has the owner of the one it looks at next.
LEMMA OwnerOfWalk ==
  ASSUME WalkHolds, walk # NoWalk
  PROVE  Owner(walk.pid) = Owner(walk.current)
<1>1. CASE walk.visited = <<>>
  BY <1>1 DEF WalkHolds
<1>2. CASE walk.visited # <<>>
  BY <1>2 DEF WalkHolds
<1> QED
  BY <1>1, <1>2

\* The set of a sequence that got longer.
LEMMA AppendedSet ==
  ASSUME NEW S, NEW s \in Seq(S), NEW x \in S
  PROVE  /\ Append(s, x) \in Seq(S) /\ Append(s, x) # <<>>
         /\ ToSet(Append(s, x)) = ToSet(s) \union {x}
<1> DEFINE t == Append(s, x)
<1>1. /\ t \in Seq(S) /\ Len(t) = Len(s) + 1 /\ t[Len(s) + 1] = x
      /\ \A i \in 1 .. Len(s) : t[i] = s[i]
  BY AppendProperties
<1>2. /\ Len(s) \in Nat /\ DOMAIN s = 1 .. Len(s) /\ DOMAIN t = 1 .. Len(t)
  BY <1>1, LenProperties
<1> HIDE DEF t
<1>3. ToSet(t) = ToSet(s) \union {x}
  BY <1>1, <1>2 DEF ToSet
<1>4. t # <<>>
  BY <1>1, <1>2, EmptySeq
<1> QED
  BY <1>1, <1>3, <1>4 DEF t

\* A walk's visited processes are processes, and there are some once it took a hop.
LEMMA VisitedSet ==
  ASSUME NEW s \in Seq(Pids)
  PROVE  ToSet(s) \subseteq Pids /\ (s = <<>> <=> Len(s) = 0) /\ ToSet(<<>>) = {}
BY ElementOfSeq, LenProperties, EmptySeq DEF ToSet


\* The kernel's table does not change during a scan, nor does an owner.
LEMMA OwnerKept == ASSUME machine' = machine PROVE \A p : Owner(p)' = Owner(p)
<1>1. OwnerWithin = Chain(machine)
  BY DEF OwnerWithin, Chain, Look, Known
<1>2. OwnerWithin' = Chain(machine')
  BY DEF OwnerWithin, Chain, Look, Known
<1>3. Chain(machine') = Chain(machine)
  OBVIOUS
<1> QED
  BY <1>1, <1>2, <1>3 DEF Owner

--------------------------------------------------------------------------------
(* Each step of a scan *)

\* The end of a walk: what it found is the owner's, or the processes it passed and the
\* one it was for have none to be lost.
LEMMA ResolveKeepsInv ==
  ASSUME ScanInv, walk # NoWalk, NEW passed \in SUBSET Pids, NEW app \in Apps \union {NoApp},
         Resolve(passed, app), UNCHANGED <<machine, exited, todo>>,
         app # NoApp => \A p \in passed \union {walk.pid} : Owner(p) = app,
         app = NoApp => \A p \in passed \union {walk.pid} :
                          p \in exited \/ machine.bundle[p] \notin Apps
  PROVE  ScanInv'
<1>1. /\ bundle_memo' = [p \in Pids |-> IF p \in passed THEN app ELSE bundle_memo[p]]
      /\ records' = IF app = NoApp THEN records
                    ELSE records \union {[pid |-> walk.pid, app |-> app, bytes |-> walk.bytes]}
      /\ walk' = NoWalk
  BY DEF Resolve
<1>2. /\ NoApp \notin Apps /\ Unknown \notin Apps /\ NoApp # Unknown
  BY ConstantsAssumption DEF NoApp, Unknown
<1>3. \A p : Owner(p)' = Owner(p)
  BY OwnerKept
<1>4. walk.pid \in Pids /\ walk.bytes \in Nat /\ ScanTypes
  BY DEF ScanInv, ScanTypes
<1>5. ScanTypes'
  <2>1. records' \subseteq [pid: Pids, app: Apps, bytes: Nat]
    BY <1>1, <1>4 DEF ScanTypes
  <2>2. bundle_memo' \in [Pids -> Apps \union {NoApp, Unknown}]
    BY <1>1, <1>4 DEF ScanTypes
  <2>3. NoWalk \in [pid: Known, current: Known, last: Known, visited: Seq(Pids), bytes: Nat]
    BY EmptySeq DEF NoWalk, Known
  <2> QED
    BY <1>1, <1>4, <2>1, <2>2, <2>3 DEF ScanTypes
<1>6. MemoHolds'
  <2> SUFFICES ASSUME NEW p \in Pids
               PROVE  /\ bundle_memo'[p] \in Apps => bundle_memo'[p] = Owner(p)
                      /\ bundle_memo'[p] = NoApp => p \in exited \/ machine.bundle[p] \notin Apps
    BY <1>3 DEF MemoHolds
  <2>1. bundle_memo'[p] = IF p \in passed THEN app ELSE bundle_memo[p]
    BY <1>1
  <2>2. /\ bundle_memo[p] \in Apps => bundle_memo[p] = Owner(p)
        /\ bundle_memo[p] = NoApp => p \in exited \/ machine.bundle[p] \notin Apps
    BY DEF ScanInv, MemoHolds
  <2> QED
    BY <1>2, <2>1, <2>2
<1>7. WalkHolds'
  BY <1>1 DEF WalkHolds
<1>8. NeverAnotherApp'
  <2> SUFFICES ASSUME NEW r \in records' PROVE r.app = Owner(r.pid)
    BY <1>3 DEF NeverAnotherApp
  <2>1. CASE r \in records
    BY <2>1 DEF ScanInv, NeverAnotherApp
  <2>2. CASE r \notin records
    BY <1>1, <2>2
  <2> QED
    BY <2>1, <2>2
<1>9. AppsOwnProcessIsCounted'
  <2> SUFFICES ASSUME NEW p \in Countable \ (todo \union exited), machine.bundle[p] \in Apps
               PROVE  \E r \in records' : r.pid = p
    BY DEF AppsOwnProcessIsCounted, Countable
  <2>1. CASE p = walk.pid
    <3>1. app # NoApp
      BY <2>1
    <3> DEFINE r == [pid |-> walk.pid, app |-> app, bytes |-> walk.bytes]
    <3>2. r \in records' /\ r.pid = p
      BY <1>1, <2>1, <3>1
    <3> QED
      BY <3>2
  <2>2. CASE p # walk.pid
    BY <1>1, <2>2 DEF ScanInv, AppsOwnProcessIsCounted
  <2> QED
    BY <2>1, <2>2
<1> QED
  BY <1>5, <1>6, <1>7, <1>8, <1>9 DEF ScanInv

\* What holds of the processes a walk has passed.
LEMMA PassedProcesses ==
  ASSUME ScanInv, walk # NoWalk
  PROVE  /\ Passed \subseteq Pids /\ walk.pid \in Pids /\ walk.current \in Pids
         /\ walk.visited \in Seq(Pids)
         /\ \A p \in Passed : machine.bundle[p] \notin Apps /\ Owner(p) = Owner(walk.current)
         /\ walk.pid \notin Passed => walk.pid = walk.current /\ Len(walk.visited) = 0
<1>1. walk.pid \in Pids /\ walk.current \in Pids /\ walk.visited \in Seq(Pids)
  BY DEF ScanInv, ScanTypes
<1> DEFINE s == walk.visited
<1>2. s \in Seq(Pids)
  BY <1>1
<1> HIDE DEF s
<1>3. ToSet(s) \subseteq Pids /\ (s = <<>> <=> Len(s) = 0)
  BY <1>2, VisitedSet
<1>4. /\ \A p \in ToSet(s) : machine.bundle[p] \notin Apps /\ Owner(p) = Owner(walk.current)
      /\ walk.pid \notin ToSet(s) => walk.pid = walk.current /\ s = <<>>
  BY DEF ScanInv, WalkHolds, s
<1> QED
  BY <1>1, <1>3, <1>4 DEF Passed, s

\* Out of hops: what was passed is remembered as no app's, and it is in none.
LEMMA GiveUpKeepsInv == ASSUME ScanInv, GiveUp PROVE ScanInv'
<1>1. /\ walk # NoWalk /\ Len(walk.visited) = RESPONSIBILITY_MAX_HOPS
      /\ Resolve(Passed, NoApp) /\ UNCHANGED <<machine, exited, todo>>
  BY DEF GiveUp, OutOfHops
<1>2. RESPONSIBILITY_MAX_HOPS # 0
  BY ConstantsAssumption
<1>3. \A p \in Passed \union {walk.pid} : machine.bundle[p] \notin Apps
  BY <1>1, <1>2, PassedProcesses
<1>4. Passed \in SUBSET Pids
  BY <1>1, PassedProcesses
<1> QED
  BY <1>1, <1>3, <1>4, ResolveKeepsInv

\* A memo entry settles the walk.
LEMMA RecallKeepsInv == ASSUME ScanInv, Recall PROVE ScanInv'
<1> DEFINE app == bundle_memo[walk.current]
<1>1. /\ walk # NoWalk /\ app # Unknown
      /\ Resolve(Passed, app) /\ UNCHANGED <<machine, exited, todo>>
  BY DEF Recall
<1>2. /\ Passed \in SUBSET Pids /\ walk.current \in Pids
      /\ \A p \in Passed : machine.bundle[p] \notin Apps /\ Owner(p) = Owner(walk.current)
      /\ walk.pid \notin Passed => walk.pid = walk.current
  BY <1>1, PassedProcesses
<1>3. /\ app \in Apps \union {NoApp}
      /\ app \in Apps => app = Owner(walk.current)
      /\ app = NoApp => walk.current \in exited \/ machine.bundle[walk.current] \notin Apps
  BY <1>1, <1>2 DEF ScanInv, ScanTypes, MemoHolds
<1> HIDE DEF app
<1>4. app # NoApp => \A p \in Passed \union {walk.pid} : Owner(p) = app
  BY <1>2, <1>3
<1>5. app = NoApp => \A p \in Passed \union {walk.pid} :
                       p \in exited \/ machine.bundle[p] \notin Apps
  BY <1>2, <1>3
<1> QED
  BY <1>1, <1>2, <1>3, <1>4, <1>5, ResolveKeepsInv


\* A process that has exited is in no bundle and nobody is responsible for it, so a walk
\* that goes on has learnt the truth.
LEMMA HopKeepsInv == ASSUME ScanInv, Hop PROVE ScanInv'
<1> DEFINE current == walk.current
           bundle == ExecBundle(current)
           responsible == ResponsiblePid(current)
<1>1. /\ walk # NoWalk /\ bundle_memo[current] = Unknown /\ UNCHANGED <<machine, exited, todo>>
      /\ IF bundle \in Apps THEN Resolve(Passed \union {current}, bundle)
         ELSE IF responsible \in {0, current, walk.last}
         THEN Resolve(Passed \union {current}, NoApp)
         ELSE /\ walk' = [walk EXCEPT !.visited = Visited(current),
                                      !.last = current, !.current = responsible]
              /\ UNCHANGED <<bundle_memo, records>>
  BY DEF Hop, IsUserFacing
<1>2. /\ Passed \in SUBSET Pids /\ walk.pid \in Pids /\ current \in Pids
      /\ walk.visited \in Seq(Pids)
      /\ \A p \in Passed : machine.bundle[p] \notin Apps /\ Owner(p) = Owner(current)
      /\ walk.pid \notin Passed => walk.pid = current
  BY <1>1, PassedProcesses
<1>3. /\ NoApp \notin Apps /\ Passed \union {current} \in SUBSET Pids
  BY <1>2, ConstantsAssumption
<1>4. machine \in Machine /\ ScanTypes
  BY DEF ScanInv, ScanTypes
<1>5. /\ bundle \in Apps => current \notin exited /\ bundle = machine.bundle[current]
      /\ bundle \notin Apps => current \in exited \/ machine.bundle[current] \notin Apps
      /\ responsible # 0 => current \notin exited /\ responsible = machine.responsible[current]
  BY <1>3 DEF ExecBundle, ResponsiblePid
<1>6. /\ machine.bundle[current] \in Apps => Owner(current) = machine.bundle[current]
      /\ machine.bundle[current] \notin Apps => Owner(current) = Owner(machine.responsible[current])
      /\ machine.responsible[current] \in Known
  BY <1>2, <1>4, OwnerIsResponsible, Tables
<1> HIDE DEF current, bundle, responsible
<1>7. CASE bundle \in Apps
  <2>1. \A p \in (Passed \union {current}) \union {walk.pid} : Owner(p) = bundle
    BY <1>2, <1>5, <1>6, <1>7
  <2> QED
    BY <1>1, <1>3, <1>7, <2>1, ResolveKeepsInv
<1>8. CASE bundle \notin Apps /\ responsible \in {0, current, walk.last}
  <2>1. \A p \in (Passed \union {current}) \union {walk.pid} :
          p \in exited \/ machine.bundle[p] \notin Apps
    BY <1>2, <1>5, <1>8
  <2> QED
    BY <1>1, <1>3, <1>8, <2>1, ResolveKeepsInv
<1>9. CASE bundle \notin Apps /\ responsible \notin {0, current, walk.last}
  <2>1. /\ responsible = machine.responsible[current] /\ responsible \in Pids
        /\ machine.bundle[current] \notin Apps /\ Owner(current) = Owner(responsible)
    BY <1>5, <1>6, <1>9 DEF Known
  <2> DEFINE s == walk.visited
             t == Append(s, current)
  <2>2. /\ t \in Seq(Pids) /\ t # <<>> /\ ToSet(t) = Passed \union {current}
    BY <1>2, AppendedSet DEF Passed
  <2>3. walk' = [walk EXCEPT !.visited = t, !.last = current, !.current = responsible]
    BY <1>1, <1>9 DEF Visited
  <2> HIDE DEF t
  <2>4. walk \in [pid: Known, current: Known, last: Known, visited: Seq(Pids), bytes: Nat]
    BY <1>4 DEF ScanTypes
  <2>5. /\ walk'.pid = walk.pid /\ walk'.current = responsible /\ walk'.visited = t
        /\ walk' \in [pid: Known, current: Known, last: Known, visited: Seq(Pids), bytes: Nat]
    BY <1>2, <2>1, <2>2, <2>3, <2>4 DEF Known
  <2>6. \A p : Owner(p)' = Owner(p)
    BY <1>1, OwnerKept
  <2>7. UNCHANGED <<machine, exited, todo, bundle_memo, records>>
    BY <1>1, <1>9
  <2>8. ScanTypes'
    BY <1>2, <1>4, <2>1, <2>5, <2>7 DEF ScanTypes
  <2>9. MemoHolds'
    BY <2>6, <2>7 DEF ScanInv, MemoHolds
  <2>10. WalkHolds'
    <3>1. PICK next \in Pids : next = responsible
      BY <2>1
    <3>2. \A p \in ToSet(t) : machine.bundle[p] \notin Apps /\ Owner(p) = Owner(next)
      BY <1>2, <2>1, <2>2, <3>1
    <3>3. walk'.current = next /\ walk'.visited = t /\ walk'.pid = walk.pid
      BY <2>5, <3>1
    <3>4. \A p \in ToSet(t) : machine'.bundle[p] \notin Apps /\ Owner(p)' = Owner(next)'
      BY <2>6, <2>7, <3>2
    <3>5. walk.pid \in ToSet(t)
      BY <1>2, <2>2
    <3>6. \A p \in ToSet(walk'.visited) :
            machine'.bundle[p] \notin Apps /\ Owner(p)' = Owner(walk.current)'
      BY <3>3, <3>4 DEF Owner
    <3> QED
      BY <2>2, <3>3, <3>5, <3>6 DEF WalkHolds
  <2>11. NeverAnotherApp' /\ AppsOwnProcessIsCounted'
    BY <2>5, <2>6, <2>7 DEF ScanInv, NeverAnotherApp, AppsOwnProcessIsCounted, Countable
  <2> QED
    BY <2>8, <2>9, <2>10, <2>11 DEF ScanInv
<1> QED
  BY <1>7, <1>8, <1>9

\* A process is taken: it is skipped, and then not countable, or its walk begins.
LEMMA TakenKeepsInv ==
  ASSUME ScanInv, NEW pid \in todo, Skip(pid) \/ Begin(pid)
  PROVE  ScanInv'
<1>1. /\ todo' = todo \ {pid} /\ UNCHANGED <<machine, exited, bundle_memo, records>>
      /\ walk = NoWalk
  BY DEF Skip, Begin, Scanning
<1>2. \A p : Owner(p)' = Owner(p)
  BY <1>1, OwnerKept
<1>3. ScanTypes /\ machine \in Machine /\ pid \in Known
  BY Tables DEF ScanInv, ScanTypes
<1>4. MemoHolds' /\ NeverAnotherApp'
  BY <1>1, <1>2 DEF ScanInv, MemoHolds, NeverAnotherApp
<1>5. \A p \in Countable \ (todo \union exited) :
        machine.bundle[p] \in Apps => \E r \in records : r.pid = p
  <2>1. \A p \in Countable : p # 0
    BY DEF Countable
  <2>2. walk.pid = 0
    BY <1>1 DEF NoWalk
  <2> QED
    BY <2>1, <2>2 DEF ScanInv, AppsOwnProcessIsCounted
<1>6. CASE Skip(pid)
  <2>1. walk' = walk
    BY <1>6 DEF Skip
  <2>2. pid \in Countable => pid \in exited
    <3> SUFFICES ASSUME pid \in Countable PROVE pid \in exited
      OBVIOUS
    <3>1. pid \in Pids /\ ~ShouldSkip(pid) /\ machine.footprint[pid] > 0
      BY <1>3 DEF Countable, ShouldSkip, Known
    <3>2. ReadPhysFootprint(pid) = 0
      BY <1>6, <3>1 DEF Skip
    <3> QED
      BY <1>3, <3>1, <3>2, Tables DEF ReadPhysFootprint
  <2>3. AppsOwnProcessIsCounted'
    BY <1>1, <1>5, <2>2 DEF AppsOwnProcessIsCounted, Countable
  <2>4. ScanTypes' /\ WalkHolds'
    BY <1>1, <1>3, <2>1 DEF ScanTypes, WalkHolds
  <2> QED
    BY <1>4, <2>3, <2>4 DEF ScanInv
<1>7. CASE Begin(pid)
  <2> DEFINE bytes == ReadPhysFootprint(pid)
  <2>1. /\ walk' = [pid |-> pid, current |-> pid, last |-> 0, visited |-> <<>>, bytes |-> bytes]
        /\ pid \in Pids
    BY <1>3, <1>7 DEF Begin, ShouldSkip, Known
  <2>2. bytes \in Nat
    BY <1>3, <2>1, Tables DEF ReadPhysFootprint
  <2> HIDE DEF bytes
  <2>3. ScanTypes'
    <3>1. walk' \in [pid: Known, current: Known, last: Known, visited: Seq(Pids), bytes: Nat]
      BY <2>1, <2>2, EmptySeq DEF Known
    <3> QED
      BY <1>1, <1>3, <2>1, <3>1 DEF ScanTypes
  <2>4. WalkHolds'
    <3>1. ToSet(walk'.visited) = {}
      <4>1. walk'.visited = <<>>
        BY <2>1
      <4> QED
        BY <4>1, EmptySeq DEF ToSet
    <3> QED
      BY <2>1, <3>1 DEF WalkHolds
  <2>5. AppsOwnProcessIsCounted'
    BY <1>1, <1>5, <2>1 DEF AppsOwnProcessIsCounted, Countable
  <2> QED
    BY <1>4, <2>3, <2>4, <2>5 DEF ScanInv
<1> QED
  BY <1>6, <1>7

\* A process that exits takes nothing back.
LEMMA RestKeepsInv ==
  ASSUME ScanInv, UNCHANGED <<machine, todo, walk, bundle_memo, records>>,
         exited \subseteq exited', exited' \subseteq Pids
  PROVE  ScanInv'
<1>1. \A p : Owner(p)' = Owner(p)
  BY OwnerKept
<1>2. ScanTypes'
  BY DEF ScanInv, ScanTypes
<1>3. MemoHolds'
  BY <1>1 DEF ScanInv, MemoHolds
<1>4. WalkHolds'
  BY <1>1 DEF ScanInv, WalkHolds
<1>5. NeverAnotherApp'
  BY <1>1 DEF ScanInv, NeverAnotherApp
<1>6. AppsOwnProcessIsCounted'
  BY DEF ScanInv, AppsOwnProcessIsCounted, Countable
<1> QED
  BY <1>2, <1>3, <1>4, <1>5, <1>6 DEF ScanInv

\* Every step.
LEMMA ScanKeepsInv == ScanInv /\ [Next]_vars => ScanInv'
<1> SUFFICES ASSUME ScanInv, [Next]_vars PROVE ScanInv'
  OBVIOUS
<1>1. exited \subseteq Pids
  BY DEF ScanInv, ScanTypes
<1>2. ASSUME NEW pid \in todo, Skip(pid) \/ Begin(pid) PROVE ScanInv'
  BY <1>2, TakenKeepsInv
<1>3. CASE Recall \/ Hop \/ GiveUp
  BY <1>3, RecallKeepsInv, HopKeepsInv, GiveUpKeepsInv
<1>4. CASE Finish \/ UNCHANGED vars
  <2>1. UNCHANGED <<machine, exited, todo, walk, bundle_memo, records>>
    BY <1>4 DEF Finish, vars
  <2> QED
    BY <1>1, <2>1, RestKeepsInv
<1>5. ASSUME NEW pid \in Pids, Exits(pid) PROVE ScanInv'
  <2>1. /\ UNCHANGED <<machine, todo, walk, bundle_memo, records>>
        /\ exited \subseteq exited' /\ exited' \subseteq Pids
    BY <1>1, <1>5 DEF Exits
  <2> QED
    BY <2>1, RestKeepsInv
<1>6. \/ \E pid \in todo : Skip(pid) \/ Begin(pid)
      \/ Recall \/ Hop \/ GiveUp
      \/ Finish \/ UNCHANGED vars
      \/ \E pid \in Pids : Exits(pid)
  BY DEF Next, Step
<1> QED
  BY <1>2, <1>3, <1>4, <1>5, <1>6, Zenon

\* A scan begins with everything to do.
LEMMA InitScan == Init => ScanInv
<1> SUFFICES ASSUME Init PROVE ScanInv
  OBVIOUS
<1>1. /\ machine \in Machine /\ exited = {} /\ todo = machine.listed /\ walk = NoWalk
      /\ bundle_memo = [p \in Pids |-> Unknown] /\ records = {}
  BY ConstantsAssumption DEF Init
<1>2. NoApp \notin Apps /\ Unknown \notin Apps /\ NoApp # Unknown
  BY ConstantsAssumption DEF NoApp, Unknown
<1>3. ScanTypes
  BY <1>1, EmptySeq DEF ScanTypes, NoWalk, Known
<1>4. MemoHolds /\ WalkHolds /\ NeverAnotherApp /\ AppsOwnProcessIsCounted
  BY <1>1, <1>2 DEF MemoHolds, WalkHolds, NeverAnotherApp, AppsOwnProcessIsCounted, Countable
<1> QED
  BY <1>3, <1>4 DEF ScanInv

\* So it always holds.
LEMMA ScanInvariance == Spec => []ScanInv
BY InitScan, ScanKeepsInv, PTL DEF Spec

--------------------------------------------------------------------------------
(* What a scan adds up when no process exits and none is out of a walk's reach *)

\* A record is of a process that counts, with its footprint; so will be the walk's.
RecordsHold == \A r \in records : r.pid \in Countable /\ r.bytes = machine.footprint[r.pid]

WalkReads ==
  walk # NoWalk =>
    /\ walk.pid \in Countable /\ walk.bytes = machine.footprint[walk.pid]
    /\ Len(walk.visited) <= RESPONSIBILITY_MAX_HOPS

\* The walk is along the chain, and what lies within its reach of the process it is for
\* lies within the hops left of the one it looks at next.
WalkIsChain ==
  exited = {} /\ walk # NoWalk =>
    /\ Chain(machine)[RESPONSIBILITY_MAX_HOPS][walk.pid]
         = Chain(machine)[RESPONSIBILITY_MAX_HOPS - Len(walk.visited)][walk.current]
    /\ IF walk.visited = <<>> THEN walk.last = 0
       ELSE /\ walk.last \in Pids /\ machine.bundle[walk.last] \notin Apps
            /\ machine.responsible[walk.last] = walk.current

Undisturbed == exited = {} /\ WithinReach

\* No app was found only where there is none, and every process with an app is counted.
NoneIsNone == Undisturbed => \A p \in Pids : bundle_memo[p] = NoApp => Owner(p) = NoApp

AllCounted ==
  Undisturbed => \A p \in Countable \ todo :
    walk.pid # p /\ Owner(p) # NoApp => \E r \in records : r.pid = p

TallyInv == RecordsHold /\ WalkReads /\ WalkIsChain /\ NoneIsNone /\ AllCounted

\* The owner within n processes is what the chain of n finds, before and after a step.
LEMMA OwnerInChain ==
  /\ OwnerWithin = Chain(machine)
  /\ OwnerWithin' = Chain(machine')
BY DEF OwnerWithin, Chain, Look, Known

\* The table does not change, so neither does who is within reach.
LEMMA ReachKept == ASSUME machine' = machine PROVE WithinReach' <=> WithinReach
<1>1. OwnerWithin' = OwnerWithin
  BY OwnerInChain
<1>2. \A p : Owner(p)' = Owner(p)
  BY OwnerKept
<1> QED
  BY <1>1, <1>2 DEF WithinReach

\* Two processes responsible for one another, or one for itself, lead to no app.
LEMMA RingHasNone ==
  ASSUME NEW m \in Machine, NEW p \in Pids, NEW q \in Pids,
         m.bundle[p] \notin Apps, m.bundle[q] \notin Apps,
         m.responsible[p] = q, m.responsible[q] = p, NEW n \in Nat
  PROVE  Chain(m)[n][p] = NoApp /\ Chain(m)[n][q] = NoApp
<1> DEFINE I == {k \in Nat : Chain(m)[k][p] = NoApp /\ Chain(m)[k][q] = NoApp}
<1>1. p \in Known /\ q \in Known /\ p # 0 /\ q # 0
  BY ConstantsAssumption DEF Known
<1>2. 0 \in I
  BY <1>1, ChainAt
<1>3. ASSUME NEW k \in Nat, k \in I PROVE k + 1 \in I
  <2>1. Chain(m)[k + 1][p] = Chain(m)[k][q] /\ Chain(m)[k + 1][q] = Chain(m)[k][p]
    BY <1>1, OneFurther
  <2> QED
    BY <1>3, <2>1
<1>4. Nat \subseteq I
  <2> HIDE DEF I
  <2> QED
    BY <1>2, <1>3, NumbersByInduction
<1> QED
  BY <1>4

\* The end of a walk leaves the tally right, when it found no app only for processes that
\* have none.
LEMMA ResolveKeepsTally ==
  ASSUME ScanInv, TallyInv, walk # NoWalk, NEW passed \in SUBSET Pids,
         NEW app \in Apps \union {NoApp},
         Resolve(passed, app), UNCHANGED <<machine, exited, todo>>,
         app = NoApp /\ Undisturbed => \A p \in passed \union {walk.pid} : Owner(p) = NoApp
  PROVE  TallyInv'
<1>1. /\ bundle_memo' = [p \in Pids |-> IF p \in passed THEN app ELSE bundle_memo[p]]
      /\ records' = IF app = NoApp THEN records
                    ELSE records \union {[pid |-> walk.pid, app |-> app, bytes |-> walk.bytes]}
      /\ walk' = NoWalk
  BY DEF Resolve
<1>2. (\A p : Owner(p)' = Owner(p)) /\ (Undisturbed' <=> Undisturbed)
  BY OwnerKept, ReachKept DEF Undisturbed
<1>3. Countable' = Countable
  BY DEF Countable
<1>4. RecordsHold'
  <2> SUFFICES ASSUME NEW r \in records'
               PROVE  r.pid \in Countable /\ r.bytes = machine.footprint[r.pid]
    BY <1>3 DEF RecordsHold
  <2>1. CASE r \in records
    BY <2>1 DEF TallyInv, RecordsHold
  <2>2. CASE r \notin records
    <3>1. r = [pid |-> walk.pid, app |-> app, bytes |-> walk.bytes]
      BY <1>1, <2>2
    <3> QED
      BY <3>1 DEF TallyInv, WalkReads
  <2> QED
    BY <2>1, <2>2
<1>5. WalkReads' /\ WalkIsChain'
  BY <1>1 DEF WalkReads, WalkIsChain
<1>6. NoneIsNone'
  <2> SUFFICES ASSUME Undisturbed, NEW p \in Pids, bundle_memo'[p] = NoApp
               PROVE  Owner(p) = NoApp
    BY <1>2 DEF NoneIsNone
  <2>1. bundle_memo'[p] = IF p \in passed THEN app ELSE bundle_memo[p]
    BY <1>1
  <2> QED
    BY <2>1 DEF TallyInv, NoneIsNone
<1>7. AllCounted'
  <2> SUFFICES ASSUME Undisturbed, NEW p \in Countable \ todo, Owner(p) # NoApp
               PROVE  \E r \in records' : r.pid = p
    BY <1>2, <1>3 DEF AllCounted
  <2>1. CASE p = walk.pid
    <3>1. app # NoApp
      BY <2>1
    <3> DEFINE r == [pid |-> walk.pid, app |-> app, bytes |-> walk.bytes]
    <3>2. r \in records' /\ r.pid = p
      BY <1>1, <2>1, <3>1
    <3> QED
      BY <3>2
  <2>2. CASE p # walk.pid
    <3>1. PICK r \in records : r.pid = p
      BY <2>2 DEF TallyInv, AllCounted
    <3>2. r \in records'
      BY <1>1, <3>1
    <3> QED
      BY <3>1, <3>2
  <2> QED
    BY <2>1, <2>2
<1> QED
  BY <1>4, <1>5, <1>6, <1>7 DEF TallyInv

\* The processes of a table are where a chain may be looked along from.
LEMMA HopsAreNumbers ==
  /\ RESPONSIBILITY_MAX_HOPS \in Nat /\ RESPONSIBILITY_MAX_HOPS # 0
  /\ Pids \subseteq Known
BY ConstantsAssumption DEF Known

\* What is within reach of a process is its owner.
LEMMA ReachIsOwner ==
  ASSUME Undisturbed, NEW p \in Pids
  PROVE  Chain(machine)[RESPONSIBILITY_MAX_HOPS][p] = Owner(p)
BY OwnerInChain DEF Undisturbed, WithinReach

\* A walk that runs out of hops was for a process without an owner.
LEMMA GiveUpKeepsTally == ASSUME ScanInv, TallyInv, GiveUp PROVE TallyInv'
<1>1. /\ walk # NoWalk /\ Len(walk.visited) = RESPONSIBILITY_MAX_HOPS
      /\ Resolve(Passed, NoApp) /\ UNCHANGED <<machine, exited, todo>>
  BY DEF GiveUp, OutOfHops
<1>2. /\ Passed \in SUBSET Pids /\ walk.pid \in Pids /\ walk.current \in Pids
      /\ \A p \in Passed : Owner(p) = Owner(walk.current)
  BY <1>1, PassedProcesses
<1>3. ASSUME Undisturbed, NEW p \in Passed \union {walk.pid} PROVE Owner(p) = NoApp
  <2> DEFINE c == Chain(machine)
             H == RESPONSIBILITY_MAX_HOPS
  <2>1. c[H][walk.pid] = c[H - Len(walk.visited)][walk.current]
    BY <1>1, <1>3 DEF TallyInv, WalkIsChain, Undisturbed
  <2>2. H - Len(walk.visited) = 0
    BY <1>1, HopsAreNumbers
  <2>3. c[0][walk.current] = NoApp
    BY <1>2, ChainAt, HopsAreNumbers
  <2>4. Owner(walk.pid) = NoApp
    BY <1>2, <1>3, <2>1, <2>2, <2>3, ReachIsOwner
  <2>5. Owner(walk.pid) = Owner(walk.current)
    BY <1>1, OwnerOfWalk DEF ScanInv
  <2> QED
    BY <1>2, <2>4, <2>5
<1> QED
  BY <1>1, <1>2, <1>3, ResolveKeepsTally

\* A memo entry of no app is right.
LEMMA RecallKeepsTally == ASSUME ScanInv, TallyInv, Recall PROVE TallyInv'
<1> DEFINE app == bundle_memo[walk.current]
<1>1. /\ walk # NoWalk /\ app # Unknown
      /\ Resolve(Passed, app) /\ UNCHANGED <<machine, exited, todo>>
  BY DEF Recall
<1>2. /\ Passed \in SUBSET Pids /\ walk.pid \in Pids /\ walk.current \in Pids
      /\ \A p \in Passed : Owner(p) = Owner(walk.current)
  BY <1>1, PassedProcesses
<1>3. app \in Apps \union {NoApp}
  BY <1>1, <1>2 DEF ScanInv, ScanTypes
<1>4. app = NoApp /\ Undisturbed => Owner(walk.current) = NoApp
  BY <1>2 DEF TallyInv, NoneIsNone
<1>5. Owner(walk.pid) = Owner(walk.current)
  BY <1>1, OwnerOfWalk DEF ScanInv
<1> HIDE DEF app
<1> QED
  BY <1>1, <1>2, <1>3, <1>4, <1>5, ResolveKeepsTally

\* Where a walk ends for want of anybody new who is responsible, there is no app.
LEMMA EndHasNone ==
  ASSUME ScanInv, TallyInv, walk # NoWalk, Undisturbed,
         machine.bundle[walk.current] \notin Apps,
         machine.responsible[walk.current] \in {0, walk.current, walk.last}
  PROVE  Owner(walk.current) = NoApp
<1> DEFINE p == walk.current
           q == machine.responsible[p]
<1>1. /\ machine \in Machine /\ p \in Pids
  BY DEF ScanInv, ScanTypes
<1>2. Owner(p) = Owner(q) /\ Owner(0) = NoApp
  BY <1>1, OwnerIsResponsible
<1>3. CASE q = 0
  BY <1>2, <1>3
<1>4. CASE q # 0 /\ q = p
  <2>1. Chain(machine)[RESPONSIBILITY_MAX_HOPS][p] = NoApp
    BY <1>1, <1>4, RingHasNone, HopsAreNumbers
  <2> QED
    BY <1>1, <2>1, ReachIsOwner
<1>5. CASE q # 0 /\ q = walk.last
  <2>1. q \in Pids /\ machine.bundle[q] \notin Apps /\ machine.responsible[q] = p
    BY <1>5 DEF TallyInv, WalkIsChain, Undisturbed
  <2>2. Chain(machine)[RESPONSIBILITY_MAX_HOPS][p] = NoApp
    BY <1>1, <2>1, RingHasNone, HopsAreNumbers
  <2> QED
    BY <1>1, <2>2, ReachIsOwner
<1> QED
  BY <1>3, <1>4, <1>5

\* A hop takes one process off the hops that are left.
LEMMA HopKeepsTally == ASSUME ScanInv, TallyInv, Hop PROVE TallyInv'
<1> DEFINE current == walk.current
           bundle == ExecBundle(current)
           responsible == ResponsiblePid(current)
           s == walk.visited
           H == RESPONSIBILITY_MAX_HOPS
<1>1. /\ walk # NoWalk /\ Len(s) # H /\ UNCHANGED <<machine, exited, todo>>
      /\ IF bundle \in Apps THEN Resolve(Passed \union {current}, bundle)
         ELSE IF responsible \in {0, current, walk.last}
         THEN Resolve(Passed \union {current}, NoApp)
         ELSE /\ walk' = [walk EXCEPT !.visited = Visited(current),
                                      !.last = current, !.current = responsible]
              /\ UNCHANGED <<bundle_memo, records>>
  BY DEF Hop, IsUserFacing, OutOfHops
<1>2. /\ Passed \in SUBSET Pids /\ walk.pid \in Pids /\ current \in Pids
      /\ s \in Seq(Pids)
      /\ \A p \in Passed : machine.bundle[p] \notin Apps /\ Owner(p) = Owner(current)
  BY <1>1, PassedProcesses
<1>3. /\ NoApp \notin Apps /\ Passed \union {current} \in SUBSET Pids
  BY <1>2, ConstantsAssumption
<1>4. /\ Undisturbed => exited = {}
      /\ exited = {} => bundle = machine.bundle[current]
                        /\ responsible = machine.responsible[current]
  BY DEF Undisturbed, ExecBundle, ResponsiblePid
<1>5. Owner(walk.pid) = Owner(current)
  BY <1>1, OwnerOfWalk DEF ScanInv
<1>6. machine.responsible[current] \in Known /\ machine \in Machine
  BY <1>2, Tables DEF ScanInv, ScanTypes
<1> HIDE DEF bundle, responsible
<1>7. CASE bundle \in Apps
  BY <1>1, <1>3, <1>7, ResolveKeepsTally
<1>8. CASE bundle \notin Apps /\ responsible \in {0, current, walk.last}
  <2>1. Undisturbed => Owner(current) = NoApp
    BY <1>1, <1>4, <1>8, EndHasNone
  <2>2. NoApp = NoApp /\ Undisturbed =>
          \A p \in (Passed \union {current}) \union {walk.pid} : Owner(p) = NoApp
    BY <1>2, <1>5, <2>1
  <2> QED
    BY <1>1, <1>3, <1>8, <2>2, ResolveKeepsTally
<1>9. CASE bundle \notin Apps /\ responsible \notin {0, current, walk.last}
  <2> DEFINE t == Append(s, current)
             c == Chain(machine)
  <2>1. /\ t \in Seq(Pids) /\ t # <<>> /\ Len(t) = Len(s) + 1 /\ Len(s) \in Nat
    BY <1>2, AppendedSet, AppendProperties, LenProperties
  <2>2. walk' = [walk EXCEPT !.visited = t, !.last = current, !.current = responsible]
    BY <1>1, <1>9 DEF Visited
  <2> HIDE DEF t
  <2>3. walk \in [pid: Known, current: Known, last: Known, visited: Seq(Pids), bytes: Nat]
    BY DEF ScanInv, ScanTypes
  <2>4. /\ walk'.pid = walk.pid /\ walk'.current = responsible /\ walk'.visited = t
        /\ walk'.last = current /\ walk'.bytes = walk.bytes
    BY <2>2, <2>3
  <2>5. (\A p : Owner(p)' = Owner(p)) /\ (Undisturbed' <=> Undisturbed) /\ Countable' = Countable
    BY <1>1, OwnerKept, ReachKept DEF Undisturbed, Countable
  <2>6. UNCHANGED <<machine, exited, todo, bundle_memo, records>>
    BY <1>1, <1>9
  <2>7. RecordsHold' /\ NoneIsNone'
    BY <2>5, <2>6 DEF TallyInv, RecordsHold, NoneIsNone
  <2>8. AllCounted'
    BY <2>4, <2>5, <2>6 DEF TallyInv, AllCounted
  <2>9. Len(s) < H /\ H \in Nat
    BY <1>1, <2>1, HopsAreNumbers DEF TallyInv, WalkReads
  <2>10. WalkReads'
    <3>1. Len(t) <= H
      BY <2>1, <2>9
    <3> QED
      BY <1>1, <2>4, <2>5, <2>6, <3>1 DEF TallyInv, WalkReads
  <2>11. ASSUME exited = {}
         PROVE  /\ c[H][walk.pid] = c[H - Len(t)][responsible]
                /\ machine.bundle[current] \notin Apps
                /\ machine.responsible[current] = responsible
    <3>1. c[H][walk.pid] = c[H - Len(s)][current]
      BY <1>1, <2>11 DEF TallyInv, WalkIsChain
    <3>2. H - Len(s) \in Nat /\ H - Len(s) # 0 /\ (H - Len(s)) - 1 = H - Len(t)
      BY <2>1, <2>9
    <3>3. machine.bundle[current] \notin Apps /\ machine.responsible[current] = responsible
      BY <1>4, <1>9, <2>11
    <3>4. current # 0 /\ current \in Known
      BY <1>2, ConstantsAssumption DEF Known
    <3>5. c[H - Len(s)][current] = c[(H - Len(s)) - 1][machine.responsible[current]]
      BY <3>2, <3>3, <3>4, ChainAt
    <3> QED
      BY <3>1, <3>2, <3>3, <3>5
  <2>12. WalkIsChain'
    <3> SUFFICES ASSUME exited' = {}
                 PROVE  /\ Chain(machine')[H][walk'.pid] = Chain(machine')[H - Len(walk'.visited)][walk'.current]
                        /\ IF walk'.visited = <<>> THEN walk'.last = 0
                           ELSE /\ walk'.last \in Pids /\ machine'.bundle[walk'.last] \notin Apps
                                /\ machine'.responsible[walk'.last] = walk'.current
      BY DEF WalkIsChain
    <3> QED
      BY <1>2, <2>1, <2>4, <2>6, <2>11
  <2> QED
    BY <2>7, <2>8, <2>10, <2>12 DEF TallyInv
<1> QED
  BY <1>7, <1>8, <1>9

\* A process is taken: it does not count, or its walk begins where it is.
LEMMA TakenKeepsTally ==
  ASSUME ScanInv, TallyInv, NEW pid \in todo, Skip(pid) \/ Begin(pid)
  PROVE  TallyInv'
<1>1. /\ todo' = todo \ {pid} /\ UNCHANGED <<machine, exited, bundle_memo, records>>
      /\ walk = NoWalk
  BY DEF Skip, Begin, Scanning
<1>2. (\A p : Owner(p)' = Owner(p)) /\ (Undisturbed' <=> Undisturbed) /\ Countable' = Countable
  BY <1>1, OwnerKept, ReachKept DEF Undisturbed, Countable
<1>3. pid \in Known /\ pid \in machine.listed /\ machine \in Machine
  BY Tables DEF ScanInv, ScanTypes
<1>4. RecordsHold' /\ NoneIsNone'
  BY <1>1, <1>2 DEF TallyInv, RecordsHold, NoneIsNone
<1>5. Undisturbed => \A p \in Countable \ todo : Owner(p) # NoApp => \E r \in records : r.pid = p
  <2>1. \A p \in Countable : p # 0
    BY DEF Countable
  <2>2. walk.pid = 0
    BY <1>1 DEF NoWalk
  <2> QED
    BY <2>1, <2>2 DEF TallyInv, AllCounted
<1>6. CASE Skip(pid)
  <2>1. walk' = walk
    BY <1>6 DEF Skip
  <2>2. Undisturbed => pid \notin Countable
    <3> SUFFICES ASSUME exited = {}, pid \in Countable PROVE FALSE
      BY DEF Undisturbed
    <3>1. pid \in Pids /\ ~ShouldSkip(pid) /\ machine.footprint[pid] > 0
      BY <1>3 DEF Countable, ShouldSkip, Known
    <3>2. ReadPhysFootprint(pid) = 0
      BY <1>6, <3>1 DEF Skip
    <3> QED
      BY <1>3, <3>1, <3>2, Tables DEF ReadPhysFootprint
  <2>3. AllCounted'
    BY <1>1, <1>2, <1>5, <2>2 DEF AllCounted
  <2>4. WalkReads' /\ WalkIsChain'
    BY <1>1, <2>1 DEF WalkReads, WalkIsChain
  <2> QED
    BY <1>4, <2>3, <2>4 DEF TallyInv
<1>7. CASE Begin(pid)
  <2> DEFINE bytes == ReadPhysFootprint(pid)
  <2>1. /\ walk' = [pid |-> pid, current |-> pid, last |-> 0, visited |-> <<>>, bytes |-> bytes]
        /\ pid \in Pids /\ ~ShouldSkip(pid) /\ bytes > 0
    BY <1>3, <1>7 DEF Begin, ShouldSkip, Known
  <2>2. bytes = machine.footprint[pid]
    BY <2>1 DEF ReadPhysFootprint
  <2> HIDE DEF bytes
  <2>3. pid \in Countable
    BY <1>3, <2>1, <2>2 DEF Countable, ShouldSkip
  <2>4. /\ walk'.pid = pid /\ walk'.current = pid /\ walk'.last = 0 /\ walk'.visited = <<>>
        /\ walk'.bytes = bytes
    BY <2>1
  <2>5. Len(walk'.visited) = 0 /\ RESPONSIBILITY_MAX_HOPS - Len(walk'.visited) = RESPONSIBILITY_MAX_HOPS
    BY <2>4, EmptySeq, HopsAreNumbers
  <2>6. WalkReads'
    BY <1>1, <1>2, <2>2, <2>3, <2>4, <2>5, HopsAreNumbers DEF WalkReads
  <2>7. WalkIsChain'
    BY <2>4, <2>5 DEF WalkIsChain
  <2>8. AllCounted'
    BY <1>1, <1>2, <1>5, <2>4 DEF AllCounted
  <2> QED
    BY <1>4, <2>6, <2>7, <2>8 DEF TallyInv
<1> QED
  BY <1>6, <1>7

\* What exits is no longer asked about.
LEMMA RestKeepsTally ==
  ASSUME TallyInv, UNCHANGED <<machine, todo, walk, bundle_memo, records>>,
         exited \subseteq exited'
  PROVE  TallyInv'
<1>1. (\A p : Owner(p)' = Owner(p)) /\ (Undisturbed' => Undisturbed) /\ Countable' = Countable
  BY OwnerKept, ReachKept DEF Undisturbed, Countable
<1>2. RecordsHold' /\ WalkReads'
  BY <1>1 DEF TallyInv, RecordsHold, WalkReads
<1>3. WalkIsChain'
  BY DEF TallyInv, WalkIsChain
<1>4. NoneIsNone' /\ AllCounted'
  BY <1>1 DEF TallyInv, NoneIsNone, AllCounted
<1> QED
  BY <1>2, <1>3, <1>4 DEF TallyInv

\* Every step.
LEMMA TallyIsKept == ScanInv /\ TallyInv /\ [Next]_vars => TallyInv'
<1> SUFFICES ASSUME ScanInv, TallyInv, [Next]_vars PROVE TallyInv'
  OBVIOUS
<1>1. ASSUME NEW pid \in todo, Skip(pid) \/ Begin(pid) PROVE TallyInv'
  BY <1>1, TakenKeepsTally
<1>2. CASE Recall \/ Hop \/ GiveUp
  BY <1>2, RecallKeepsTally, HopKeepsTally, GiveUpKeepsTally
<1>3. CASE Finish \/ UNCHANGED vars
  <2>1. UNCHANGED <<machine, exited, todo, walk, bundle_memo, records>>
    BY <1>3 DEF Finish, vars
  <2> QED
    BY <2>1, RestKeepsTally
<1>4. ASSUME NEW pid \in Pids, Exits(pid) PROVE TallyInv'
  <2>1. /\ UNCHANGED <<machine, todo, walk, bundle_memo, records>>
        /\ exited \subseteq exited'
    BY <1>4 DEF Exits
  <2> QED
    BY <2>1, RestKeepsTally
<1>5. \/ \E pid \in todo : Skip(pid) \/ Begin(pid)
      \/ Recall \/ Hop \/ GiveUp
      \/ Finish \/ UNCHANGED vars
      \/ \E pid \in Pids : Exits(pid)
  BY DEF Next, Step
<1> QED
  BY <1>1, <1>2, <1>3, <1>4, <1>5, Zenon

\* Nothing is counted at first.
LEMMA InitTally == Init => TallyInv
<1> SUFFICES ASSUME Init PROVE TallyInv
  OBVIOUS
<1>1. /\ todo = machine.listed /\ walk = NoWalk
      /\ bundle_memo = [p \in Pids |-> Unknown] /\ records = {}
  BY DEF Init
<1>2. NoApp # Unknown
  BY DEF NoApp, Unknown
<1> QED
  BY <1>1, <1>2 DEF TallyInv, RecordsHold, WalkReads, WalkIsChain, NoneIsNone, AllCounted, Countable

--------------------------------------------------------------------------------
(* The rows of an answer *)

ResultType ==
  /\ result \in [status: {"pending", "err", "ok"}, rows: Seq([app: Apps, bytes: Nat])]
  /\ Len(result.rows) <= TopN

ResultInv == ResultType /\ RowsAreTheHeaviestApps

\* There is one record for a process, so there are finitely many.
LEMMA RecordsOfProcesses ==
  ASSUME ScanInv, TallyInv
  PROVE  /\ IsFiniteSet(records)
         /\ \A r \in records : r.pid \in Pids /\ r.app = Owner(r.pid) /\ r.app \in Apps
                               /\ r.bytes \in Nat
         /\ \A q, r \in records : q.pid = r.pid => q = r
<1>1. records \subseteq [pid: Pids, app: Apps, bytes: Nat]
  BY DEF ScanInv, ScanTypes
<1>2. \A r \in records : r.app = Owner(r.pid) /\ r.bytes = machine.footprint[r.pid]
  BY DEF ScanInv, NeverAnotherApp, TallyInv, RecordsHold
<1>3. ASSUME NEW q \in records, NEW r \in records, q.pid = r.pid PROVE q = r
  <2>1. q.app = r.app /\ q.bytes = r.bytes
    BY <1>2, <1>3
  <2> QED
    BY <1>1, <1>3, <2>1
<1> DEFINE h == [r \in records |-> r.pid]
<1>4. h \in Injection(records, Pids)
  BY <1>1, <1>3 DEF Injection, IsInjective
<1>5. IsFiniteSet(records)
  <2> HIDE DEF h
  <2> QED
    BY <1>4, FS_Injection, ConstantsAssumption
<1> QED
  BY <1>1, <1>2, <1>3, <1>5

\* An app's total is a number.
LEMMA TotalType ==
  ASSUME ScanInv, TallyInv, NEW a
  PROVE  Total(a) \in Nat
<1> DEFINE T == {r \in records : r.app = a}
           g == [r \in records |-> r.bytes]
<1>1. IsFiniteSet(T)
  BY RecordsOfProcesses, FS_Subset
<1>2. \A r \in T : g[r] \in Nat
  BY RecordsOfProcesses
<1>3. SumFunctionOnSet(g, T) \in Nat
  <2> HIDE DEF g, T
  <2> QED
    BY <1>1, <1>2, SumType
<1> QED
  BY <1>3 DEF Total

\* When all are counted, an app's records add up to the memory of its processes.
LEMMA TotalIsOwners ==
  ASSUME ScanInv, TallyInv, Undisturbed, todo = {}, walk = NoWalk, NEW a \in Apps
  PROVE  /\ Total(a) = OwnerTotal(a)
         /\ OwnerTotal(a) > 0 => \E r \in records : r.app = a
<1> DEFINE S == {p \in Countable : Owner(p) = a}
           T == {r \in records : r.app = a}
           f == machine.footprint
           g == [r \in records |-> r.bytes]
           h == [r \in T |-> r.pid]
<1>1. Countable \subseteq Pids /\ a # NoApp
  <2>1. machine.listed \subseteq Known
    BY Tables DEF ScanInv, ScanTypes
  <2> QED
    BY <2>1, ConstantsAssumption DEF Countable, Known
<1>2. IsFiniteSet(S) /\ IsFiniteSet(T)
  BY <1>1, RecordsOfProcesses, FS_Subset, ConstantsAssumption
<1>3. \A r \in T : r.pid \in S /\ g[r] \in Nat /\ f[r.pid] = g[r]
  BY RecordsOfProcesses DEF TallyInv, RecordsHold
<1>4. \A x, y \in T : x.pid = y.pid => x = y
  BY RecordsOfProcesses
<1>5. ASSUME NEW p \in S PROVE \E r \in T : r.pid = p
  <2>1. walk.pid # p
    BY ConstantsAssumption DEF NoWalk, Countable
  <2>2. PICK r \in records : r.pid = p
    BY <1>1, <2>1 DEF TallyInv, AllCounted
  <2>3. r.app = a
    BY <2>2, RecordsOfProcesses
  <2> QED
    BY <2>2, <2>3
<1>6. /\ h \in [T -> S] /\ \A x \in T : h[x] = x.pid
  BY <1>3
<1> HIDE DEF S, T, f, g, h
<1>7. SumFunctionOnSet(f, S) = SumFunctionOnSet(g, T)
  <2>1. \A x, y \in T : h[x] = h[y] => x = y
    BY <1>4, <1>6
  <2>2. \A z \in S : \E x \in T : h[x] = z
    BY <1>5, <1>6
  <2>3. \A x \in T : g[x] \in Nat /\ f[h[x]] = g[x]
    BY <1>3, <1>6
  <2> QED
    BY <1>2, <1>6, <2>1, <2>2, <2>3, SumRenamed
<1>8. OwnerTotal(a) = SumFunctionOnSet(f, S) /\ Total(a) = SumFunctionOnSet(g, T)
  BY DEF OwnerTotal, Total, f, S, g, T
<1>9. ASSUME SumFunctionOnSet(f, S) > 0 PROVE \E r \in records : r.app = a
  <2>1. S # {}
    BY <1>9, SumOfNone
  <2>2. T # {}
    BY <1>5, <2>1
  <2> QED
    BY <2>2 DEF T
<1> QED
  BY <1>7, <1>8, <1>9

\* The rows are one for each app of a record.
LEMMA RowsOfApps ==
  ASSUME ScanInv, TallyInv
  PROVE  /\ IsFiniteSet(Rows)
         /\ \A x \in Rows : x = [app |-> x.app, bytes |-> Total(x.app)] /\ x.app \in Apps
         /\ \A r \in records : [app |-> r.app, bytes |-> Total(r.app)] \in Rows
         /\ Rows \subseteq [app: Apps, bytes: Nat]
<1> DEFINE h == [r \in records |-> [app |-> r.app, bytes |-> Total(r.app)]]
<1>1. /\ \A x \in Rows : \E r \in records : x = [app |-> r.app, bytes |-> Total(r.app)]
      /\ \A r \in records : [app |-> r.app, bytes |-> Total(r.app)] \in Rows
  BY DEF Rows
<1>2. h \in Surjection(records, Rows)
  BY <1>1 DEF Surjection
<1>3. IsFiniteSet(Rows)
  <2> HIDE DEF h
  <2> QED
    BY <1>2, FS_Surjection, RecordsOfProcesses
<1>4. \A r \in records : r.app \in Apps /\ Total(r.app) \in Nat
  BY RecordsOfProcesses, TotalType
<1> QED
  BY <1>1, <1>3, <1>4

\* A set put in an order.
LEMMA InOrder ==
  ASSUME NEW R, IsFiniteSet(R), NEW s \in SetToSeqs(R)
  PROVE  /\ s \in Seq(R) /\ Len(s) = Cardinality(R)
         /\ \A x \in R : \E i \in 1 .. Len(s) : s[i] = x
<1> DEFINE n == Cardinality(R)
<1>1. n \in Nat
  BY FS_CardinalityType
<1>2. s \in [1 .. n -> R] /\ \A i, j \in 1 .. n : i # j => s[i] # s[j]
  BY DEF SetToSeqs
<1>3. s \in Injection(1 .. n, R)
  BY <1>2 DEF Injection, IsInjective
<1>4. Cardinality(1 .. n) = n
  BY <1>1, FS_Interval
<1>5. s \in Surjection(1 .. n, R)
  BY <1>3, <1>4, FS_Injection
<1>6. s \in Seq(R) /\ Len(s) = n
  BY <1>1, <1>2, IsASeq, LenProperties
<1> QED
  BY <1>5, <1>6 DEF Surjection

\* The beginning of a sequence.
LEMMA Beginning ==
  ASSUME NEW S, NEW s \in Seq(S), NEW n \in Nat, n <= Len(s)
  PROVE  /\ SubSeq(s, 1, n) \in Seq(S) /\ Len(SubSeq(s, 1, n)) = n
         /\ \A i \in 1 .. n : SubSeq(s, 1, n)[i] = s[i]
<1>1. Len(s) \in Nat /\ \A i \in 1 .. n : s[i] \in S
  BY ElementOfSeq, LenProperties
<1>2. /\ SubSeq(s, 1, n) \in Seq(S)
      /\ Len(SubSeq(s, 1, n)) = IF 1 <= n THEN n - 1 + 1 ELSE 0
      /\ \A i \in 1 .. n - 1 + 1 : SubSeq(s, 1, n)[i] = s[1 + i - 1]
  BY <1>1, SubSeqProperties
<1> QED
  BY <1>2

\* The rows kept are the first in an order by size: none left out is larger.
LEMMA KeptRows ==
  ASSUME ScanInv, TallyInv, NEW rows \in Truncated(Rows)
  PROVE  /\ rows \in Seq([app: Apps, bytes: Nat]) /\ Len(rows) <= TopN
         /\ ToSet(rows) \subseteq Rows
         /\ \A x \in Rows \ ToSet(rows) :
              Len(rows) = TopN /\ \A r \in ToSet(rows) : r.bytes >= x.bytes
<1>1. PICK s \in Sorted(Rows) :
        rows = SubSeq(s, 1, IF Len(s) < TopN THEN Len(s) ELSE TopN)
  BY DEF Truncated
<1>2. s \in SetToSeqs(Rows) /\ \A i, j \in DOMAIN s : i < j => ~Before(s[j], s[i])
  BY DEF Sorted
<1>3. /\ s \in Seq(Rows) /\ Len(s) \in Nat /\ DOMAIN s = 1 .. Len(s)
      /\ \A x \in Rows : \E i \in 1 .. Len(s) : s[i] = x
  BY <1>2, RowsOfApps, InOrder, LenProperties
<1> DEFINE n == IF Len(s) < TopN THEN Len(s) ELSE TopN
<1>4. n \in Nat /\ n <= Len(s) /\ n <= TopN /\ (n < Len(s) => n = TopN)
  <2>1. Len(s) \in Nat /\ TopN \in Nat
    BY <1>3, ConstantsAssumption
  <2> QED
    BY <2>1
<1> HIDE DEF n
<1>5. rows \in Seq(Rows) /\ Len(rows) = n /\ \A i \in 1 .. n : rows[i] = s[i]
  <2>1. rows = SubSeq(s, 1, n)
    BY <1>1 DEF n
  <2> QED
    BY <1>3, <1>4, <2>1, Beginning
<1>6. DOMAIN rows = 1 .. n /\ ToSet(rows) = {rows[i] : i \in 1 .. n}
  BY <1>5, LenProperties DEF ToSet
<1>7. ToSet(rows) \subseteq Rows
  BY <1>5, <1>6, ElementOfSeq
<1>8. rows \in Seq([app: Apps, bytes: Nat])
  <2>1. \A i \in 1 .. n : rows[i] \in [app: Apps, bytes: Nat]
    BY <1>6, <1>7, RowsOfApps
  <2> DEFINE F == [app: Apps, bytes: Nat]
  <2>2. rows = [i \in 1 .. n |-> rows[i]]
    BY <1>5, LenProperties
  <2>3. [i \in 1 .. n |-> rows[i]] \in Seq(F)
    <3> HIDE DEF F
    <3>1. \A i \in 1 .. n : rows[i] \in F
      BY <2>1 DEF F
    <3> QED
      BY <1>4, <3>1, IsASeq
  <2> QED
    BY <2>2, <2>3
<1>9. ASSUME NEW x \in Rows \ ToSet(rows)
      PROVE  Len(rows) = TopN /\ \A r \in ToSet(rows) : r.bytes >= x.bytes
  <2>1. PICK j \in 1 .. Len(s) : s[j] = x
    BY <1>3
  <2>2. j > n
    BY <1>3, <1>4, <1>5, <1>6, <2>1
  <2>3. Len(rows) = TopN
    BY <1>3, <1>4, <1>5, <2>2
  <2>4. ASSUME NEW r \in ToSet(rows) PROVE r.bytes >= x.bytes
    <3>1. PICK i \in 1 .. n : s[i] = r
      BY <1>5, <1>6
    <3>2. i \in DOMAIN s /\ j \in DOMAIN s /\ i < j
      BY <1>3, <1>4, <2>2
    <3>3. ~Before(x, r)
      BY <1>2, <2>1, <3>1, <3>2
    <3>4. x.bytes \in Nat /\ r.bytes \in Nat
      BY <1>7, RowsOfApps
    <3> QED
      BY <3>3, <3>4 DEF Before
  <2> QED
    BY <2>3, <2>4
<1> QED
  BY <1>4, <1>5, <1>7, <1>8, <1>9

\* The memory of an app's processes does not change during a scan.
LEMMA OwnerTotalKept ==
  ASSUME machine' = machine
  PROVE  \A a : OwnerTotal(a)' = OwnerTotal(a)
<1>1. \A p : Owner(p)' = Owner(p)
  BY OwnerKept
<1> QED
  BY <1>1 DEF OwnerTotal, Countable

\* An answer stays as it is.
LEMMA AnswerIsKept ==
  ASSUME ResultInv, UNCHANGED <<machine, result>>, exited \subseteq exited'
  PROVE  ResultInv'
<1>1. ResultType'
  BY DEF ResultInv, ResultType
<1>2. \A a : OwnerTotal(a)' = OwnerTotal(a)
  BY OwnerTotalKept
<1>3. exited' = {} /\ WithinReach' => exited = {} /\ WithinReach
  BY ReachKept
<1>4. RowsAreTheHeaviestApps'
  BY <1>2, <1>3 DEF ResultInv, RowsAreTheHeaviestApps
<1> QED
  BY <1>1, <1>4 DEF ResultInv

\* The answer of a scan that counted everything.
LEMMA FinishAnswers == ASSUME ScanInv, TallyInv, ResultInv, Finish PROVE ResultInv'
<1>1. /\ UNCHANGED <<machine, exited>> /\ todo = {} /\ walk = NoWalk
      /\ \/ result' = Err
         \/ \E rows \in Truncated(Rows) : result' = Loaded(rows)
  BY DEF Finish, Scanning
<1>2. CASE result' = Err
  <2>1. /\ <<>> \in Seq([app: Apps, bytes: Nat]) /\ Len(<<>>) = 0 /\ 0 <= TopN
    BY EmptySeq, ConstantsAssumption
  <2> QED
    BY <1>2, <2>1 DEF ResultInv, ResultType, RowsAreTheHeaviestApps, Err
<1>3. ASSUME NEW rows \in Truncated(Rows), result' = Loaded(rows) PROVE ResultInv'
  <2>1. result'.status = "ok" /\ result'.rows = rows
    BY <1>3 DEF Loaded
  <2>2. ResultType'
    BY <1>3, KeptRows DEF ResultType, Loaded
  <2>3. \A a : OwnerTotal(a)' = OwnerTotal(a)
    BY <1>1, OwnerTotalKept
  <2> DEFINE left_out == {a \in Apps : OwnerTotal(a) > 0 /\ \A r \in ToSet(rows) : r.app # a}
  <2>4. ASSUME Undisturbed
        PROVE  /\ \A r \in ToSet(rows) : r.bytes = OwnerTotal(r.app)
               /\ left_out # {} => Len(rows) = TopN
               /\ \A r \in ToSet(rows), a \in left_out : r.bytes >= OwnerTotal(a)
    <3>1. \A a \in Apps : Total(a) = OwnerTotal(a)
      BY <1>1, <2>4, TotalIsOwners
    <3>2. ASSUME NEW r \in ToSet(rows) PROVE r.bytes = OwnerTotal(r.app)
      <4>1. r \in Rows
        BY <1>3, KeptRows
      <4>2. r = [app |-> r.app, bytes |-> Total(r.app)] /\ r.app \in Apps
        BY <4>1, RowsOfApps
      <4> QED
        BY <3>1, <4>2
    <3>3. ASSUME NEW a \in left_out
          PROVE  Len(rows) = TopN /\ \A r \in ToSet(rows) : r.bytes >= OwnerTotal(a)
      <4> DEFINE x == [app |-> a, bytes |-> Total(a)]
      <4>1. PICK r \in records : r.app = a
        BY <1>1, <2>4, TotalIsOwners
      <4>2. x \in Rows
        BY <4>1, RowsOfApps
      <4>3. x \notin ToSet(rows) /\ x.bytes = OwnerTotal(a)
        BY <3>1
      <4> HIDE DEF x
      <4> QED
        BY <1>3, <4>2, <4>3, KeptRows
    <3> QED
      BY <3>2, <3>3
  <2>5. exited' = {} /\ WithinReach' => Undisturbed
    BY <1>1, ReachKept DEF Undisturbed
  <2>6. RowsAreTheHeaviestApps'
    BY <2>1, <2>3, <2>4, <2>5 DEF RowsAreTheHeaviestApps
  <2> QED
    BY <2>2, <2>6 DEF ResultInv
<1> QED
  BY <1>1, <1>2, <1>3

\* All three together.
AnswerInv == ScanInv /\ TallyInv /\ ResultInv

\* Every step.
LEMMA AnswerKeepsInv == AnswerInv /\ [Next]_vars => AnswerInv'
<1> SUFFICES ASSUME AnswerInv, [Next]_vars PROVE AnswerInv'
  OBVIOUS
<1>1. ScanInv' /\ TallyInv'
  BY ScanKeepsInv, TallyIsKept DEF AnswerInv
<1>2. CASE Finish
  BY <1>1, <1>2, FinishAnswers DEF AnswerInv
<1>3. CASE ~Finish
  <2>1. UNCHANGED <<machine, result>> /\ exited \subseteq exited'
    BY <1>3 DEF Next, Step, vars, Skip, Begin, Recall, Hop, GiveUp, Exits
  <2> QED
    BY <1>1, <2>1, AnswerIsKept DEF AnswerInv
<1> QED
  BY <1>1, <1>2, <1>3 DEF AnswerInv

\* A scan begins without an answer, or with an error when nothing is listed.
LEMMA InitAnswer == Init => AnswerInv
<1> SUFFICES ASSUME Init PROVE ResultInv
  BY InitScan, InitTally DEF AnswerInv
<1>1. result \in {Err, Pending}
  BY DEF Init
<1>2. /\ <<>> \in Seq([app: Apps, bytes: Nat]) /\ Len(<<>>) = 0 /\ 0 <= TopN
  BY EmptySeq, ConstantsAssumption
<1>3. result.status # "ok" /\ result.rows = <<>> /\ result.status \in {"pending", "err"}
  BY <1>1 DEF Err, Pending
<1>4. RowsAreTheHeaviestApps
  BY <1>3 DEF RowsAreTheHeaviestApps
<1>5. ResultType
  <2> DEFINE F == Seq([app: Apps, bytes: Nat])
  <2>1. <<>> \in F
    BY <1>2
  <2> HIDE DEF F
  <2>2. /\ Err \in [status: {"pending", "err", "ok"}, rows: F]
        /\ Pending \in [status: {"pending", "err", "ok"}, rows: F]
    BY <2>1 DEF Err, Pending
  <2>3. Len(result.rows) <= TopN
    BY <1>2, <1>3
  <2>4. result \in [status: {"pending", "err", "ok"}, rows: F]
    BY <1>1, <2>2
  <2> QED
    BY <2>3, <2>4 DEF ResultType, F
<1> QED
  BY <1>4, <1>5 DEF ResultInv

\* So it always holds.
LEMMA AnswerInvariance == Spec => []AnswerInv
BY InitAnswer, AnswerKeepsInv, PTL DEF Spec

--------------------------------------------------------------------------------
(* Theorems *)

\* A process's memory is never put down to another app than the one it works for: not by
\* what an earlier walk remembered, not by a cycle of responsibility, not by processes
\* that exit under the scan, of any number and in any order (process_memory.rs:179-235).
THEOREM MemoryIsItsOwners == Spec => []NeverAnotherApp
<1>1. ScanInv => NeverAnotherApp
  BY DEF ScanInv
<1> QED
  BY <1>1, ScanInvariance, PTL

\* A process that is itself inside an app is counted, whatever walks ran out of hops
\* before it was reached, for any limit on the hops (process_memory.rs:179-235).
THEOREM OwnProcessIsCounted == Spec => []AppsOwnProcessIsCounted
<1>1. ScanInv => AppsOwnProcessIsCounted
  BY DEF ScanInv
<1> QED
  BY <1>1, ScanInvariance, PTL

\* Every variable keeps its type; no walk takes more hops than the limit, and no answer
\* has more rows (process_memory.rs:179-224, 272-302).
THEOREM TypeCorrect == Spec => []TypeOK
<1>1. AnswerInv => TypeOK
  <2> SUFFICES ASSUME AnswerInv PROVE TypeOK
    OBVIOUS
  <2>1. Len(walk.visited) <= RESPONSIBILITY_MAX_HOPS
    <3>1. CASE walk = NoWalk
      BY <3>1, HopsAreNumbers, EmptySeq DEF NoWalk
    <3> QED
      BY <3>1 DEF AnswerInv, TallyInv, WalkReads
  <2> QED
    BY <2>1 DEF AnswerInv, ScanInv, ScanTypes, ResultInv, ResultType, TypeOK, Known
<1> QED
  BY <1>1, AnswerInvariance, PTL

\* The rows of a scan that nothing disturbed are the heaviest apps with their whole
\* memory, for any process table all of which is within reach, whatever the order of the
\* pids, what walks remembered and which of two equal rows the sort put first
\* (process_memory.rs:73-96, 179-235, 272-302).
THEOREM HeaviestApps == Spec => []RowsAreTheHeaviestApps
<1>1. AnswerInv => RowsAreTheHeaviestApps
  BY DEF AnswerInv, ResultInv
<1> QED
  BY <1>1, AnswerInvariance, PTL

--------------------------------------------------------------------------------
(* The rows drawn, which are AppRows': a stable sort *)

\* Going before is a strict weak order of the places D.
WeakOrder(pairs, D) ==
  /\ \A i, j \in D : <<i, j>> \in pairs => <<j, i>> \notin pairs
  /\ \A i, j, k \in D : <<i, j>> \in pairs => <<i, k>> \in pairs \/ <<k, j>> \in pairs

GoesFirst(pairs, i, j) == <<i, j>> \in pairs \/ (<<j, i>> \notin pairs /\ i < j)

AheadOf(pairs, D, i) == {j \in D : GoesFirst(pairs, j, i)}
PlaceOf(pairs, D) == [i \in D |-> Cardinality(AheadOf(pairs, D, i)) + 1]

LEMMA FirstIsTotal ==
  ASSUME NEW n \in Nat, NEW pairs, WeakOrder(pairs, 1 .. n)
  PROVE  /\ \A i \in 1 .. n : ~GoesFirst(pairs, i, i)
         /\ \A i, j \in 1 .. n : i = j \/ GoesFirst(pairs, i, j) \/ GoesFirst(pairs, j, i)
         /\ \A i, j, k \in 1 .. n : GoesFirst(pairs, i, j) /\ GoesFirst(pairs, j, k) => GoesFirst(pairs, i, k)
<1> DEFINE D == 1 .. n
<1>1. /\ \A i, j \in D : <<i, j>> \in pairs => <<j, i>> \notin pairs
      /\ \A i, j, k \in D : <<i, j>> \in pairs => <<i, k>> \in pairs \/ <<k, j>> \in pairs
  BY DEF WeakOrder
<1>2. \A i \in D : i \in Int
  OBVIOUS
<1> HIDE DEF D
<1>3. ASSUME NEW i \in D, NEW j \in D, i # j
      PROVE  GoesFirst(pairs, i, j) \/ GoesFirst(pairs, j, i)
  <2>1. i < j \/ j < i
    BY <1>2, <1>3
  <2> QED
    BY <2>1 DEF GoesFirst
<1>4. \A i, j, k \in D : GoesFirst(pairs, i, j) /\ GoesFirst(pairs, j, k) => GoesFirst(pairs, i, k)
  BY <1>1, <1>2 DEF GoesFirst
<1>5. \A i \in D : ~GoesFirst(pairs, i, i)
  BY <1>1, <1>2 DEF GoesFirst
<1> QED
  BY <1>3, <1>4, <1>5 DEF D

\* As many go before a row as leave it a place of its own.
LEMMA PlacesAreDistinct ==
  ASSUME NEW n \in Nat, NEW pairs, WeakOrder(pairs, 1 .. n)
  PROVE  /\ PlaceOf(pairs, 1 .. n) \in [1 .. n -> 1 .. n]
         /\ \A i, j \in 1 .. n :
              GoesFirst(pairs, i, j) => PlaceOf(pairs, 1 .. n)[i] < PlaceOf(pairs, 1 .. n)[j]
<1> DEFINE D == 1 .. n
           place == PlaceOf(pairs, D)
<1>1. IsFiniteSet(D) /\ Cardinality(D) = n
  <2>1. 1 \in Int /\ n \in Int
    OBVIOUS
  <2>2. /\ IsFiniteSet(1 .. n)
        /\ Cardinality(1 .. n) = IF 1 > n THEN 0 ELSE n - 1 + 1
    BY <2>1, FS_Interval
  <2> QED
    BY <2>2
<1>2. ASSUME NEW i \in D
      PROVE  /\ AheadOf(pairs, D, i) \subseteq D \ {i}
             /\ IsFiniteSet(AheadOf(pairs, D, i))
             /\ Cardinality(AheadOf(pairs, D, i)) \in Nat
             /\ Cardinality(AheadOf(pairs, D, i)) <= n - 1
  <2>1. AheadOf(pairs, D, i) \subseteq D \ {i}
    BY FirstIsTotal DEF AheadOf
  <2>2. IsFiniteSet(D \ {i}) /\ Cardinality(D \ {i}) = n - 1
    BY <1>1, FS_RemoveElement
  <2> HIDE DEF D
  <2> QED
    BY <2>1, <2>2, FS_Subset, FS_CardinalityType
<1>3. place \in [D -> D]
  <2>1. \A i \in D : Cardinality(AheadOf(pairs, D, i)) + 1 \in 1 .. n
    BY <1>2
  <2> QED
    BY <2>1 DEF PlaceOf
<1>4. ASSUME NEW i \in D, NEW j \in D, GoesFirst(pairs, i, j)
      PROVE  place[i] < place[j]
  <2>1. AheadOf(pairs, D, i) \subseteq AheadOf(pairs, D, j)
    BY <1>4, FirstIsTotal DEF AheadOf
  <2>2. i \in AheadOf(pairs, D, j) /\ i \notin AheadOf(pairs, D, i)
    BY <1>4, FirstIsTotal DEF AheadOf
  <2>3. Cardinality(AheadOf(pairs, D, i)) < Cardinality(AheadOf(pairs, D, j))
    BY <1>2, <2>1, <2>2, FS_Subset, FS_CardinalityType
  <2> QED
    BY <1>2, <2>3 DEF PlaceOf
<1> QED
  BY <1>3, <1>4

\* Every row is sorted to a place, and no row is ahead of one that goes before it.
LEMMA Sorts ==
  ASSUME NEW S, NEW rows \in Seq(S), NEW pairs, WeakOrder(pairs, DOMAIN rows)
  PROVE  \E p \in [DOMAIN rows -> DOMAIN rows] :
           /\ StablySorted(rows, pairs) = [k \in DOMAIN rows |-> rows[p[k]]]
           /\ \A k, l \in DOMAIN rows : p[k] = p[l] => k = l
           /\ \A i \in DOMAIN rows : \E k \in DOMAIN rows : p[k] = i
           /\ \A k, l \in DOMAIN rows : k < l => <<p[l], p[k]>> \notin pairs
<1> DEFINE D == DOMAIN rows
           n == Len(rows)
           place == PlaceOf(pairs, D)
           p == [k \in D |-> CHOOSE i \in D : place[i] = k]
<1>1. n \in Nat /\ D = 1 .. n
  BY LenProperties
<1>2. /\ place \in [D -> D]
      /\ \A i, j \in D : GoesFirst(pairs, i, j) => place[i] < place[j]
  BY <1>1, PlacesAreDistinct
<1>3. \A i, j \in D : i = j \/ GoesFirst(pairs, i, j) \/ GoesFirst(pairs, j, i)
  BY <1>1, FirstIsTotal
<1>4. IsFiniteSet(D)
  <2>1. 1 \in Int /\ n \in Int
    BY <1>1
  <2> QED
    BY <1>1, <2>1, FS_Interval
<1>5. D \subseteq Nat
  BY <1>1
<1>6. StablySorted(rows, pairs) = [k \in D |-> rows[p[k]]]
  <2> DEFINE theirs == [i \in D |-> Cardinality({j \in D : GoesFirst(pairs, j, i)}) + 1]
  <2>1. theirs = place
    BY DEF PlaceOf, AheadOf
  <2>2. StablySorted(rows, pairs)
          = [k \in D |-> rows[CHOOSE i \in D : theirs[i] = k]]
    BY DEF StablySorted, GoesFirst
  <2> HIDE DEF theirs, place
  <2> QED
    BY <2>1, <2>2
<1> HIDE DEF place, D
<1>7. \A i, j \in D : place[i] = place[j] => i = j
  BY <1>2, <1>3, <1>5
<1>8. place \in Surjection(D, D)
  <2>1. place \in Injection(D, D)
    BY <1>2, <1>7 DEF Injection, IsInjective
  <2> QED
    BY <2>1, <1>4, FS_Injection
<1>9. \A k \in D : p[k] \in D /\ place[p[k]] = k
  BY <1>8 DEF Surjection
<1>10. p \in [D -> D]
  BY <1>9
<1> HIDE DEF p
<1>11. \A k, l \in D : p[k] = p[l] => k = l
  BY <1>9
<1>12. \A i \in D : \E k \in D : p[k] = i
  BY <1>2, <1>7, <1>9
<1>13. ASSUME NEW k \in D, NEW l \in D, k < l
       PROVE  <<p[l], p[k]>> \notin pairs
  <2>1. ~(l < k) /\ place[p[k]] = k /\ place[p[l]] = l /\ p[k] \in D /\ p[l] \in D
    BY <1>5, <1>9, <1>13
  <2>2. ~GoesFirst(pairs, p[l], p[k])
    BY <1>2, <2>1
  <2> QED
    BY <2>2 DEF GoesFirst
<1> QED
  BY <1>6, <1>10, <1>11, <1>12, <1>13 DEF D

--------------------------------------------------------------------------------
(* Growth and rank *)

OneDelta(row) == row.delta = {} \/ \E x \in Int : row.delta = {x}

LEMMA GrowthType ==
  ASSUME NEW row \in Row, OneDelta(row)
  PROVE  Growth(row) \in Nat
<1>1. CASE row.delta = {}
  <2>1. {0} \union row.delta = {0}
    BY <1>1
  <2>2. Max({0}) = 0
    BY DEF Max
  <2> QED
    BY <2>1, <2>2 DEF Growth
<1>2. ASSUME NEW x \in Int, row.delta = {x} PROVE Growth(row) \in Nat
  <2> DEFINE y == IF x > 0 THEN x ELSE 0
  <2>1. y \in {0, x} /\ \A z \in {0, x} : y >= z
    OBVIOUS
  <2>2. \A w \in {0, x} : (\A z \in {0, x} : w >= z) => w >= 0 /\ w \in Int
    OBVIOUS
  <2>3. Max({0, x}) \in Nat
    <3> HIDE DEF y
    <3> QED
      BY <2>1, <2>2 DEF Max
  <2>4. {0} \union row.delta = {0, x}
    BY <1>2
  <2> QED
    BY <2>3, <2>4 DEF Growth
<1> QED
  BY <1>1, <1>2 DEF OneDelta

\* Rows with at most one delta.
Grown(rows) == rows \in Seq(Row) /\ \A i \in DOMAIN rows : OneDelta(rows[i])

SizePairs(rows) == {p \in Pairs(rows) : LargerFirst(rows[p[1]], rows[p[2]])}
GrowthPairs(rows) == {p \in Pairs(rows) : GrewMore(rows[p[1]], rows[p[2]])}

LEMMA OrdersAreWeak ==
  ASSUME NEW rows, Grown(rows)
  PROVE  /\ WeakOrder(SizePairs(rows), DOMAIN rows)
         /\ WeakOrder(GrowthPairs(rows), DOMAIN rows)
<1> DEFINE D == DOMAIN rows
           bytes(i) == rows[i].bytes
           name(i) == DisplayName[rows[i].app]
           growth(i) == Growth(rows[i])
<1>1. \A i \in D : bytes(i) \in Nat /\ name(i) \in Nat /\ growth(i) \in Nat
  <2> SUFFICES ASSUME NEW i \in D
               PROVE  bytes(i) \in Nat /\ name(i) \in Nat /\ growth(i) \in Nat
    OBVIOUS
  <2>1. rows[i] \in Row /\ OneDelta(rows[i])
    BY ElementOfSeq, LenProperties DEF Grown
  <2>2. rows[i].app \in Apps /\ rows[i].bytes \in Nat
    BY <2>1 DEF Row
  <2> QED
    BY <2>1, <2>2, GrowthType, NamesAssumption
<1>2. \A i, j \in D : <<i, j>> \in SizePairs(rows)
        <=> bytes(i) > bytes(j) \/ (bytes(i) = bytes(j) /\ name(i) < name(j))
  BY DEF SizePairs, Pairs, LargerFirst
<1>3. \A i, j \in D : <<i, j>> \in GrowthPairs(rows)
        <=> growth(i) > growth(j) \/ (growth(i) = growth(j) /\ <<i, j>> \in SizePairs(rows))
  BY DEF GrowthPairs, SizePairs, Pairs, GrewMore
<1> HIDE DEF D, bytes, name, growth
<1>4. WeakOrder(SizePairs(rows), D)
  BY <1>1, <1>2 DEF WeakOrder
<1>5. WeakOrder(GrowthPairs(rows), D)
  BY <1>1, <1>3, <1>4 DEF WeakOrder
<1> QED
  BY <1>4, <1>5 DEF D

\* By growth when some row grew for real, by size otherwise.
InRank(rows) ==
  \A k, l \in DOMAIN rows : k < l =>
    IF \E i \in DOMAIN rows : Meaningful(rows[i])
    THEN ~GrewMore(rows[l], rows[k])
    ELSE ~LargerFirst(rows[l], rows[k])

LEMMA RankSorts ==
  ASSUME NEW rows, Grown(rows)
  PROVE  \E p \in [DOMAIN rows -> DOMAIN rows] :
           /\ RankAppRows(rows) = [k \in DOMAIN rows |-> rows[p[k]]]
           /\ \A k, l \in DOMAIN rows : p[k] = p[l] => k = l
           /\ InRank(RankAppRows(rows))
<1> DEFINE D == DOMAIN rows
           grew == \E i \in D : Meaningful(rows[i])
           pairs == IF grew THEN GrowthPairs(rows) ELSE SizePairs(rows)
<1>1. RankAppRows(rows) = StablySorted(rows, pairs)
  BY DEF RankAppRows, BySize, GrowthPairs, SizePairs
<1>2. WeakOrder(pairs, D)
  BY OrdersAreWeak
<1>3. rows \in Seq(Row)
  BY DEF Grown
<1> HIDE DEF pairs, D
<1>4. PICK p \in [D -> D] :
        /\ StablySorted(rows, pairs) = [k \in D |-> rows[p[k]]]
        /\ \A k, l \in D : p[k] = p[l] => k = l
        /\ \A i \in D : \E k \in D : p[k] = i
        /\ \A k, l \in D : k < l => <<p[l], p[k]>> \notin pairs
  BY <1>2, <1>3, Sorts DEF D
<1> DEFINE sorted == [k \in D |-> rows[p[k]]]
<1>5. DOMAIN sorted = D /\ \A k \in D : sorted[k] = rows[p[k]] /\ p[k] \in D
  OBVIOUS
<1> HIDE DEF sorted
<1>6. (\E i \in D : Meaningful(sorted[i])) <=> grew
  BY <1>4, <1>5
<1>7. ASSUME NEW k \in D, NEW l \in D, k < l
      PROVE  IF grew THEN ~GrewMore(sorted[l], sorted[k])
             ELSE ~LargerFirst(sorted[l], sorted[k])
  <2>1. <<p[l], p[k]>> \notin pairs
    BY <1>4, <1>7
  <2>2. p[l] \in DOMAIN rows /\ p[k] \in DOMAIN rows
    BY DEF D
  <2>3. sorted[l] = rows[p[l]] /\ sorted[k] = rows[p[k]]
    BY <1>5
  <2> HIDE DEF grew
  <2>4. CASE grew
    <3>1. <<p[l], p[k]>> \notin GrowthPairs(rows)
      BY <2>1, <2>4 DEF pairs
    <3> QED
      BY <2>2, <2>3, <2>4, <3>1 DEF GrowthPairs, Pairs
  <2>5. CASE ~grew
    <3>1. <<p[l], p[k]>> \notin SizePairs(rows)
      BY <2>1, <2>5 DEF pairs
    <3> QED
      BY <2>2, <2>3, <2>5, <3>1 DEF SizePairs, Pairs
  <2> QED
    BY <2>4, <2>5
<1>8. InRank(sorted)
  <2> HIDE DEF grew
  <2> QED
    BY <1>5, <1>6, <1>7 DEF InRank
<1>9. RankAppRows(rows) = sorted /\ sorted = [k \in D |-> rows[p[k]]]
  BY <1>1, <1>4 DEF sorted
<1>10. /\ p \in [D -> D]
       /\ RankAppRows(rows) = [k \in D |-> rows[p[k]]]
       /\ \A k, l \in D : p[k] = p[l] => k = l
       /\ InRank(RankAppRows(rows))
  BY <1>4, <1>8, <1>9
<1> QED
  BY <1>10 DEF D

--------------------------------------------------------------------------------
(* A scan's rows with their deltas *)

Distinct(rows) == \A i, j \in DOMAIN rows : rows[i].app = rows[j].app => i = j

LEMMA DeltaOfRow ==
  ASSUME NEW row \in Row, NEW previous \in Seq(Row), Distinct(previous)
  PROVE  LET grown == WithDelta(row, previous)
         IN  /\ grown \in Row /\ OneDelta(grown)
             /\ grown.app = row.app /\ grown.bytes = row.bytes
             /\ \/ grown.delta = {}
                \/ \E j \in DOMAIN previous :
                     previous[j].app = row.app /\ grown.delta = {row.bytes - previous[j].bytes}
<1> DEFINE same == {i \in DOMAIN previous : previous[i].app = row.app}
           delta == {row.bytes - previous[i].bytes : i \in same}
           grown == WithDelta(row, previous)
<1>1. row.app \in Apps /\ row.bytes \in Nat
        /\ row = [app |-> row.app, bytes |-> row.bytes, delta |-> row.delta]
  BY DEF Row
<1>2. \A i \in DOMAIN previous : previous[i].bytes \in Nat
  <2>1. \A i \in DOMAIN previous : previous[i] \in Row
    BY ElementOfSeq, LenProperties
  <2> QED
    BY <2>1 DEF Row
<1>3. grown = [app |-> row.app, bytes |-> row.bytes, delta |-> delta]
  <2>1. grown = [row EXCEPT !.delta = delta]
    BY DEF WithDelta
  <2> HIDE DEF delta, grown
  <2>2. row \in [app: Apps, bytes: Nat, delta: SUBSET Int]
    BY DEF Row
  <2> QED
    BY <2>1, <2>2
<1>4. delta \subseteq Int
  BY <1>1, <1>2
<1>5. grown \in Row
  <2> HIDE DEF delta, grown
  <2> QED
    BY <1>1, <1>3, <1>4 DEF Row
<1>6. \/ delta = {}
      \/ \E j \in DOMAIN previous :
           previous[j].app = row.app /\ delta = {row.bytes - previous[j].bytes}
  <2>1. CASE same = {}
    BY <2>1
  <2>2. CASE same # {}
    <3>1. PICK j \in same : TRUE
      BY <2>2
    <3>2. same = {j}
      BY <3>1 DEF Distinct
    <3>3. delta = {row.bytes - previous[j].bytes}
      BY <3>2
    <3> QED
      BY <3>1, <3>3
  <2> QED
    BY <2>1, <2>2
<1> HIDE DEF delta
<1>7. OneDelta(grown)
  <2>1. grown.delta = delta
    BY <1>3
  <2> HIDE DEF grown
  <2>2. CASE delta = {}
    BY <2>1, <2>2 DEF OneDelta
  <2>3. ASSUME NEW j \in DOMAIN previous, delta = {row.bytes - previous[j].bytes}
        PROVE  OneDelta(grown)
    <3>1. row.bytes - previous[j].bytes \in Int
      BY <1>1, <1>2
    <3> QED
      BY <2>1, <2>3, <3>1 DEF OneDelta
  <2> QED
    BY <1>6, <2>2, <2>3
<1> QED
  BY <1>3, <1>5, <1>6, <1>7

LEMMA RowsAnswered ==
  ASSUME NEW rows \in Seq(Row), Distinct(rows),
         NEW previous \in Seq(Row), Distinct(previous)
  PROVE  LET ranked == AppRowsWithDeltas(rows, previous)
         IN  /\ Grown(ranked) /\ Distinct(ranked) /\ InRank(ranked)
             /\ \A k \in DOMAIN ranked :
                  \/ ranked[k].delta = {}
                  \/ \E j \in DOMAIN previous :
                       /\ previous[j].app = ranked[k].app
                       /\ ranked[k].delta = {ranked[k].bytes - previous[j].bytes}
<1> DEFINE D == DOMAIN rows
           grown == [i \in D |-> WithDelta(rows[i], previous)]
           ranked == AppRowsWithDeltas(rows, previous)
<1>1. D = 1 .. Len(rows) /\ Len(rows) \in Nat /\ \A i \in D : rows[i] \in Row
  BY ElementOfSeq, LenProperties
<1>2. \A i \in D : LET g == WithDelta(rows[i], previous)
                   IN  /\ g \in Row /\ OneDelta(g)
                       /\ g.app = rows[i].app /\ g.bytes = rows[i].bytes
                       /\ \/ g.delta = {}
                          \/ \E j \in DOMAIN previous :
                               /\ previous[j].app = rows[i].app
                               /\ g.delta = {rows[i].bytes - previous[j].bytes}
  BY <1>1, DeltaOfRow
<1>3. DOMAIN grown = D /\ \A i \in D : grown[i] = WithDelta(rows[i], previous)
  OBVIOUS
<1>4. ranked = RankAppRows(grown)
  BY DEF AppRowsWithDeltas
<1>5. grown \in Seq(Row)
  BY <1>1, <1>2
<1> HIDE DEF grown, ranked
<1>6. Grown(grown)
  BY <1>2, <1>3, <1>5 DEF Grown
<1>7. PICK p \in [D -> D] :
        /\ ranked = [k \in D |-> grown[p[k]]]
        /\ \A k, l \in D : p[k] = p[l] => k = l
        /\ InRank(ranked)
  BY <1>3, <1>4, <1>6, RankSorts
<1>8. DOMAIN ranked = D /\ \A k \in D : p[k] \in D /\ ranked[k] = WithDelta(rows[p[k]], previous)
  BY <1>3, <1>7
<1>9. ranked \in Seq(Row)
  BY <1>1, <1>2, <1>7, <1>8
<1>10. Grown(ranked)
  BY <1>2, <1>8, <1>9 DEF Grown
<1>11. Distinct(ranked)
  BY <1>2, <1>7, <1>8 DEF Distinct
<1>12. ASSUME NEW k \in D
       PROVE  \/ ranked[k].delta = {}
              \/ \E j \in DOMAIN previous :
                   /\ previous[j].app = ranked[k].app
                   /\ ranked[k].delta = {ranked[k].bytes - previous[j].bytes}
  <2> DEFINE g == ranked[k]
             row == rows[p[k]]
  <2>1. p[k] \in D /\ g = WithDelta(row, previous)
    BY <1>8
  <2>2. /\ g.app = row.app /\ g.bytes = row.bytes
        /\ \/ g.delta = {}
           \/ \E j \in DOMAIN previous :
                previous[j].app = row.app /\ g.delta = {row.bytes - previous[j].bytes}
    BY <1>2, <2>1
  <2> HIDE DEF g, row
  <2>3. \/ g.delta = {}
        \/ \E j \in DOMAIN previous :
             previous[j].app = g.app /\ g.delta = {g.bytes - previous[j].bytes}
    BY <2>2
  <2> QED
    BY <2>3 DEF g
<1> QED
  BY <1>7, <1>8, <1>10, <1>11, <1>12 DEF ranked

LEMMA Cut ==
  ASSUME NEW S, NEW s \in Seq(S), NEW limit \in Nat
  PROVE  LET n == IF Len(s) < limit THEN Len(s) ELSE limit
         IN  /\ n \in Nat /\ n <= Len(s) /\ n <= limit
             /\ n = limit \/ n = Len(s)
             /\ AtMost(s, limit) \in Seq(S)
             /\ DOMAIN AtMost(s, limit) = 1 .. n
             /\ \A i \in 1 .. n : AtMost(s, limit)[i] = s[i]
<1> DEFINE n == IF Len(s) < limit THEN Len(s) ELSE limit
<1>1. /\ n \in Nat /\ n <= Len(s) /\ n <= limit
      /\ n = limit \/ n = Len(s)
  BY LenProperties
<1>2. AtMost(s, limit) = SubSeq(s, 1, n)
  BY DEF AtMost
<1> HIDE DEF n
<1>3. SubSeq(s, 1, n) = [i \in 1 .. n |-> s[i]]
  BY <1>1
<1>4. \A i \in 1 .. n : s[i] \in S
  BY <1>1, ElementOfSeq, LenProperties
<1>5. [i \in 1 .. n |-> s[i]] \in Seq(S)
  BY <1>1, <1>4
<1> QED
  BY <1>1, <1>2, <1>3, <1>5 DEF n

\* What a scan sends is rows, one an app.
LEMMA ScannedRows ==
  ASSUME NEW running \in SUBSET Apps,
         NEW f \in [running -> Footprint],
         NEW s \in HeaviestFirst({[app |-> a, bytes |-> f[a], delta |-> {}] :
                                          a \in running}),
         NEW rows, rows = AtMost(s, ScanLimit)
  PROVE  rows \in Seq(Row) /\ Distinct(rows)
<1> DEFINE seen == {[app |-> a, bytes |-> f[a], delta |-> {}] : a \in running}
           row == [a \in running |-> [app |-> a, bytes |-> f[a], delta |-> {}]]
<1>1. s \in SetToSeqs(seen)
  BY DEF HeaviestFirst
<1>3. \A x \in seen : x \in Row
  <2>1. \A a \in running : f[a] \in Nat /\ a \in Apps
    BY RowsAssumption
  <2> QED
    BY <2>1 DEF Row
<1>4. ASSUME NEW x \in seen, NEW y \in seen, x.app = y.app
      PROVE  x = y
  <2>1. PICK a \in running : x = [app |-> a, bytes |-> f[a], delta |-> {}]
    OBVIOUS
  <2>2. PICK b \in running : y = [app |-> b, bytes |-> f[b], delta |-> {}]
    OBVIOUS
  <2> QED
    BY <1>4, <2>1, <2>2
<1>5. IsFiniteSet(seen)
  <2>1. IsFiniteSet(running)
    BY FS_Subset, RowsAssumption
  <2>2. row \in Surjection(running, seen)
    BY DEF Surjection
  <2> HIDE DEF row, seen
  <2> QED
    BY <2>1, <2>2, FS_Surjection
<1>6. Cardinality(seen) \in Nat
  BY <1>5, FS_CardinalityType
<1> HIDE DEF seen
<1>7. s \in [1 .. Cardinality(seen) -> seen]
        /\ \A i, j \in 1 .. Cardinality(seen) : i # j => s[i] # s[j]
  BY <1>1 DEF SetToSeqs
<1>8. s \in Seq(Row) /\ Len(s) = Cardinality(seen)
  BY <1>3, <1>6, <1>7
<1> DEFINE n == IF Len(s) < ScanLimit THEN Len(s) ELSE ScanLimit
<1>9. /\ n \in Nat /\ n <= Len(s)
      /\ rows \in Seq(Row) /\ DOMAIN rows = 1 .. n /\ \A i \in 1 .. n : rows[i] = s[i]
  BY <1>8, Cut, RowsAssumption
<1> HIDE DEF n
<1>10. rows \in Seq(Row) /\ Len(rows) = n /\ \A i \in 1 .. n : rows[i] = s[i]
  BY <1>9, LenProperties
<1>11. DOMAIN rows = 1 .. n
  BY <1>9
<1>12. ASSUME NEW i \in 1 .. n, NEW j \in 1 .. n, rows[i].app = rows[j].app
       PROVE  i = j
  <2>1. /\ i \in 1 .. Cardinality(seen) /\ j \in 1 .. Cardinality(seen)
    BY <1>8, <1>9
  <2>2. s[i].app = s[j].app /\ s[i] \in seen /\ s[j] \in seen
    BY <1>7, <1>10, <1>12, <2>1
  <2> QED
    BY <1>4, <1>7, <2>1, <2>2
<1> QED
  BY <1>10, <1>11, <1>12 DEF Distinct

--------------------------------------------------------------------------------
(* The rows the menu is given, and the baseline *)

RowTypes ==
  /\ now \in 0 .. MaxTime
  /\ show_app_usage \in BOOLEAN
  /\ channel \in [status: {"none", "ok", "err"}, completed_at: 0 .. MaxTime,
                  rows: Seq(Row)]
  /\ app_memory \in [state: {"Hidden", "Loading", "Unavailable", "Loaded"},
                     rows: Seq(Row)]
  /\ last_app_sample_at \in 0 .. MaxTime \union {None}

\* The baseline is what the menu was last given, and there is none while apps are
\* hidden.
BaselineIsShown ==
  /\ last_app_rows = app_memory.rows
  /\ last_app_rows # <<>> => show_app_usage /\ app_memory.state = "Loaded"

\* Hiding drops the answer.
ShownWhileAnswered == channel.status # "none" => show_app_usage

RowsInv ==
  /\ RowTypes
  /\ BaselineIsShown
  /\ ShownWhileAnswered
  /\ Distinct(channel.rows)
  /\ Grown(last_app_rows) /\ Distinct(last_app_rows) /\ InRank(last_app_rows)

LEMMA NoRows ==
  /\ <<>> \in Seq(Row) /\ Grown(<<>>) /\ Distinct(<<>>) /\ InRank(<<>>)
BY DEF Grown, Distinct, InRank

LEMMA RowsStart == ASSUME RowsInit PROVE RowsInv
<1>1. /\ now = 0 /\ show_app_usage \in BOOLEAN
      /\ channel = [status |-> "none", completed_at |-> 0, rows |-> <<>>]
      /\ app_memory = [state |-> IF show_app_usage THEN "Loading" ELSE "Hidden", rows |-> <<>>]
      /\ last_app_rows = <<>> /\ last_app_sample_at = None
  BY DEF RowsInit, NoAnswer, Snapshot
<1>2. 0 \in 0 .. MaxTime
  BY RowsAssumption
<1>3. RowTypes
  BY <1>1, <1>2, NoRows DEF RowTypes
<1> QED
  BY <1>1, <1>3, NoRows DEF RowsInv, BaselineIsShown, ShownWhileAnswered

\* The rows a good answer is drawn with, and where their growth is from.
LEMMA DrainedRows ==
  ASSUME RowsInv, DrainRows
  PROVE  /\ channel.status = "ok"
         /\ app_memory' = [state |-> "Loaded", rows |-> last_app_rows']
         /\ last_app_sample_at' = channel.completed_at
         /\ Grown(last_app_rows') /\ Distinct(last_app_rows') /\ InRank(last_app_rows')
         /\ \A k \in DOMAIN last_app_rows' :
              \/ last_app_rows'[k].delta = {}
              \/ /\ last_app_sample_at # None
                 /\ channel.completed_at - last_app_sample_at <= APP_DELTA_BASELINE_MAX_AGE
                 /\ \E j \in DOMAIN last_app_rows :
                      /\ last_app_rows[j].app = last_app_rows'[k].app
                      /\ last_app_rows'[k].delta
                           = {last_app_rows'[k].bytes - last_app_rows[j].bytes}
<1> DEFINE previous == PreviousRowsIfFresh(channel.completed_at)
           ranked == AppRowsWithDeltas(channel.rows, previous)
<1>1. /\ channel.status = "ok" /\ last_app_rows' = ranked
      /\ app_memory' = [state |-> "Loaded", rows |-> ranked]
      /\ last_app_sample_at' = channel.completed_at
  BY DEF DrainRows, Snapshot
<1>2. channel.rows \in Seq(Row) /\ Distinct(channel.rows)
  BY DEF RowsInv, RowTypes
<1>3. last_app_rows \in Seq(Row) /\ Distinct(last_app_rows)
  BY DEF RowsInv, Grown
<1>4. \/ previous = <<>>
      \/ /\ previous = last_app_rows /\ last_app_sample_at # None
         /\ channel.completed_at - last_app_sample_at <= APP_DELTA_BASELINE_MAX_AGE
  BY DEF PreviousRowsIfFresh
<1>5. previous \in Seq(Row) /\ Distinct(previous)
  BY <1>3, <1>4, NoRows
<1> HIDE DEF previous
<1>6. /\ Grown(ranked) /\ Distinct(ranked) /\ InRank(ranked)
      /\ \A k \in DOMAIN ranked :
           \/ ranked[k].delta = {}
           \/ \E j \in DOMAIN previous :
                /\ previous[j].app = ranked[k].app
                /\ ranked[k].delta = {ranked[k].bytes - previous[j].bytes}
  BY <1>2, <1>5, RowsAnswered
<1> HIDE DEF ranked
<1>7. ASSUME NEW k \in DOMAIN ranked, ranked[k].delta # {}
      PROVE  /\ last_app_sample_at # None
             /\ channel.completed_at - last_app_sample_at <= APP_DELTA_BASELINE_MAX_AGE
             /\ \E j \in DOMAIN last_app_rows :
                  /\ last_app_rows[j].app = ranked[k].app
                  /\ ranked[k].delta = {ranked[k].bytes - last_app_rows[j].bytes}
  <2>1. PICK j \in DOMAIN previous :
          /\ previous[j].app = ranked[k].app
          /\ ranked[k].delta = {ranked[k].bytes - previous[j].bytes}
    BY <1>6, <1>7
  <2>2. previous # <<>>
    BY <2>1
  <2> QED
    BY <1>4, <2>1, <2>2
<1> QED
  BY <1>1, <1>6, <1>7

LEMMA ScanKeepsRows ==
  ASSUME RowsInv, ScanCompletes
  PROVE  RowsInv'
<1>1. UNCHANGED <<now, show_app_usage, app_memory, last_app_rows, last_app_sample_at>>
  BY DEF ScanCompletes
<1>2. PICK status \in {"ok", "err"}, rows \in Seq(Row) :
        /\ channel' = [status |-> status, completed_at |-> now, rows |-> rows]
        /\ Distinct(rows)
  <2>1. CASE channel' = [status |-> "err", completed_at |-> now, rows |-> <<>>]
    BY <2>1, NoRows
  <2>2. ASSUME NEW running \in SUBSET Apps, NEW f \in [running -> Footprint],
               NEW s \in HeaviestFirst({[app |-> a, bytes |-> f[a], delta |-> {}] :
                                                a \in running}),
               channel' = [status |-> "ok", completed_at |-> now,
                           rows |-> AtMost(s, ScanLimit)]
        PROVE  \E status \in {"ok", "err"}, rows \in Seq(Row) :
                 /\ channel' = [status |-> status, completed_at |-> now, rows |-> rows]
                 /\ Distinct(rows)
    <3> DEFINE rows == AtMost(s, ScanLimit)
    <3>1. rows \in Seq(Row) /\ Distinct(rows)
      BY ScannedRows
    <3>2. channel' = [status |-> "ok", completed_at |-> now, rows |-> rows]
      BY <2>2
    <3> HIDE DEF rows
    <3> QED
      BY <3>1, <3>2
  <2> QED
    BY <2>1, <2>2 DEF ScanCompletes
<1>3. channel' \in [status: {"none", "ok", "err"}, completed_at: 0 .. MaxTime,
                    rows: Seq(Row)]
  <2>1. now \in 0 .. MaxTime
    BY DEF RowsInv, RowTypes
  <2> DEFINE R == Seq(Row)
             T == 0 .. MaxTime
  <2>2. now \in T /\ rows \in R
    BY <2>1
  <2> HIDE DEF R, T
  <2>3. channel' \in [status: {"none", "ok", "err"}, completed_at: T, rows: R]
    BY <1>2, <2>2
  <2> QED
    BY <2>3 DEF R, T
<1>4. Distinct(channel'.rows)
  BY <1>2
<1>5. show_app_usage
  BY DEF ScanCompletes
<1> QED
  BY <1>1, <1>3, <1>4, <1>5 DEF RowsInv, RowTypes, BaselineIsShown, ShownWhileAnswered

LEMMA DrainKeepsRows ==
  ASSUME RowsInv, Drain
  PROVE  RowsInv'
<1>1. /\ channel' = [status |-> "none", completed_at |-> 0, rows |-> <<>>]
      /\ UNCHANGED <<now, show_app_usage>>
  BY DEF Drain, NoAnswer
<1>2. 0 \in 0 .. MaxTime
  BY RowsAssumption
<1>3. /\ channel' \in [status: {"none", "ok", "err"}, completed_at: 0 .. MaxTime,
                       rows: Seq(Row)]
      /\ Distinct(channel'.rows)
  BY <1>1, <1>2, NoRows
<1>4. CASE DrainRows
  <2>1. /\ channel.status = "ok"
        /\ app_memory' = [state |-> "Loaded", rows |-> last_app_rows']
        /\ last_app_sample_at' = channel.completed_at
        /\ Grown(last_app_rows') /\ Distinct(last_app_rows') /\ InRank(last_app_rows')
    BY <1>4, DrainedRows
  <2>2. last_app_sample_at' \in 0 .. MaxTime
    BY <2>1 DEF RowsInv, RowTypes
  <2> DEFINE rows == last_app_rows'
             R == Seq(Row)
  <2>3. app_memory' \in [state: {"Hidden", "Loading", "Unavailable", "Loaded"}, rows: R]
    <3>1. rows \in R /\ app_memory' = [state |-> "Loaded", rows |-> rows]
      BY <2>1 DEF Grown
    <3> HIDE DEF rows, R
    <3> QED
      BY <3>1
  <2>4. RowTypes'
    BY <1>1, <1>3, <2>2, <2>3 DEF RowsInv, RowTypes
  <2>5. show_app_usage
    BY <2>1 DEF RowsInv, ShownWhileAnswered
  <2>6. BaselineIsShown'
    BY <1>1, <2>1, <2>5 DEF BaselineIsShown
  <2> QED
    BY <1>1, <1>3, <2>1, <2>4, <2>5, <2>6 DEF RowsInv, Grown, ShownWhileAnswered
<1>5. CASE DrainFailure
  <2>1. /\ app_memory' = [state |-> "Unavailable", rows |-> <<>>]
        /\ last_app_rows' = <<>> /\ last_app_sample_at' = None
    BY <1>5 DEF DrainFailure, Snapshot, ForgetsBaseline
  <2>2. RowTypes'
    BY <1>1, <1>3, <2>1, NoRows DEF RowsInv, RowTypes
  <2>3. BaselineIsShown' /\ ShownWhileAnswered'
    BY <1>1, <2>1 DEF BaselineIsShown, ShownWhileAnswered
  <2> QED
    BY <1>3, <2>1, <2>2, <2>3, NoRows DEF RowsInv, Grown
<1> QED
  BY <1>4, <1>5 DEF Drain

LEMMA HideKeepsRows ==
  ASSUME RowsInv, Hide
  PROVE  RowsInv'
<1>1. /\ show_app_usage' = FALSE /\ now' = now
      /\ app_memory' = [state |-> "Hidden", rows |-> <<>>]
      /\ last_app_rows' = <<>> /\ last_app_sample_at' = None
      /\ channel' = [status |-> "none", completed_at |-> 0, rows |-> <<>>]
  BY DEF Hide, Snapshot, ForgetsBaseline, NoAnswer
<1>2. 0 \in 0 .. MaxTime
  BY RowsAssumption
<1>3. RowTypes'
  BY <1>1, <1>2, NoRows DEF RowsInv, RowTypes
<1> QED
  BY <1>1, <1>3, NoRows DEF RowsInv, BaselineIsShown, ShownWhileAnswered, Grown

LEMMA ShowKeepsRows ==
  ASSUME RowsInv, Show
  PROVE  RowsInv'
<1>1. /\ ~show_app_usage /\ show_app_usage' = TRUE
      /\ app_memory' = [state |-> "Loading", rows |-> <<>>]
      /\ UNCHANGED <<now, channel, last_app_rows, last_app_sample_at>>
  BY DEF Show, Snapshot
<1>2. last_app_rows = <<>>
  BY <1>1 DEF RowsInv, BaselineIsShown
<1>3. RowTypes'
  BY <1>1, NoRows DEF RowsInv, RowTypes
<1> QED
  BY <1>1, <1>2, <1>3 DEF RowsInv, BaselineIsShown, ShownWhileAnswered

LEMMA RowsNextKeepsInv ==
  ASSUME RowsInv, [RowsNext]_rowsVars
  PROVE  RowsInv'
<1>1. CASE TimePasses
  <2>1. now' \in 0 .. MaxTime
    BY <1>1, RowsAssumption DEF TimePasses, RowsInv, RowTypes
  <2> QED
    BY <1>1, <2>1 DEF TimePasses, RowsInv, RowTypes, BaselineIsShown, ShownWhileAnswered
<1>2. CASE UNCHANGED rowsVars
  BY <1>2 DEF rowsVars, RowsInv, RowTypes, BaselineIsShown, ShownWhileAnswered
<1> QED
  BY <1>1, <1>2, ScanKeepsRows, DrainKeepsRows, HideKeepsRows, ShowKeepsRows DEF RowsNext

LEMMA RowsInvariance == RowsSpec => []RowsInv
<1>1. RowsInit => RowsInv
  BY RowsStart
<1>2. RowsInv /\ [RowsNext]_rowsVars => RowsInv'
  BY RowsNextKeepsInv
<1> QED
  BY <1>1, <1>2, PTL DEF RowsSpec

--------------------------------------------------------------------------------
(* Theorems about the rows *)

\* A row is a row of an app, each app has one, and a row has at most one delta.
THEOREM RowsTypeCorrect == RowsSpec => []RowsTypeOK
<1>1. RowsInv => RowsTypeOK
  <2> SUFFICES ASSUME RowsInv
               PROVE  RowsTypeOK
    OBVIOUS
  <2>1. Grown(app_memory.rows) /\ Distinct(app_memory.rows)
    BY DEF RowsInv, BaselineIsShown
  <2>2. ASSUME NEW row \in ToSet(app_memory.rows)
        PROVE  Cardinality(row.delta) <= 1
    <3>1. OneDelta(row)
      BY <2>1 DEF ToSet, Grown
    <3>2. Cardinality({}) = 0
      BY FS_EmptySet
    <3>3. \A x : Cardinality({x}) = 1
      BY FS_Singleton
    <3>4. Cardinality(row.delta) \in {0, 1}
      <4>1. CASE row.delta = {}
        BY <3>2, <4>1
      <4>2. ASSUME NEW x, row.delta = {x}
            PROVE  Cardinality(row.delta) = 1
        BY <3>3, <4>2
      <4> QED
        BY <3>1, <4>1, <4>2 DEF OneDelta
    <3> QED
      BY <3>4
  <2> QED
    BY <2>1, <2>2 DEF RowsInv, RowTypes, Grown, Distinct, RowsTypeOK
<1> QED
  BY RowsInvariance, <1>1, PTL

\* A growth drawn is that of the app between the reading the menu showed before and
\* the new one, for any number of apps and any footprints; across a hide, a failed
\* scan or a longer pause no growth is drawn (engine.rs:209-222, 664-690, 738-744).
THEOREM GrowthIsSinceLastShown == RowsSpec => GrowthSpansTwoReadingsInARow
<1> DEFINE Spans ==
      DrainRows => \A i \in DOMAIN app_memory'.rows :
       LET row == app_memory'.rows[i]
           before == {b \in ToSet(app_memory.rows) : b.app = row.app}
       IN  DrawnGrowth(row) # {} =>
             /\ app_memory.state = "Loaded"
             /\ channel.completed_at - last_app_sample_at <= APP_DELTA_BASELINE_MAX_AGE
             /\ \E b \in before : row.delta = {row.bytes - b.bytes}
<1>1. RowsInv => Spans
  <2> SUFFICES ASSUME RowsInv, DrainRows, NEW i \in DOMAIN app_memory'.rows,
                      DrawnGrowth(app_memory'.rows[i]) # {}
               PROVE  /\ app_memory.state = "Loaded"
                      /\ channel.completed_at - last_app_sample_at <= APP_DELTA_BASELINE_MAX_AGE
                      /\ \E b \in ToSet(app_memory.rows) :
                           /\ b.app = app_memory'.rows[i].app
                           /\ app_memory'.rows[i].delta = {app_memory'.rows[i].bytes - b.bytes}
    OBVIOUS
  <2>1. app_memory'.rows = last_app_rows'
    BY DrainedRows
  <2>2. app_memory'.rows[i].delta # {}
    BY DEF DrawnGrowth
  <2>3. /\ channel.completed_at - last_app_sample_at <= APP_DELTA_BASELINE_MAX_AGE
        /\ \E j \in DOMAIN last_app_rows :
             /\ last_app_rows[j].app = app_memory'.rows[i].app
             /\ app_memory'.rows[i].delta = {app_memory'.rows[i].bytes - last_app_rows[j].bytes}
    BY <2>1, <2>2, DrainedRows
  <2>4. PICK j \in DOMAIN last_app_rows :
          /\ last_app_rows[j].app = app_memory'.rows[i].app
          /\ app_memory'.rows[i].delta = {app_memory'.rows[i].bytes - last_app_rows[j].bytes}
    BY <2>3
  <2>5. last_app_rows # <<>> /\ last_app_rows = app_memory.rows /\ app_memory.state = "Loaded"
    BY <2>4 DEF RowsInv, BaselineIsShown
  <2>6. last_app_rows[j] \in ToSet(app_memory.rows)
    BY <2>5 DEF ToSet
  <2> QED
    BY <2>3, <2>4, <2>5, <2>6
<1>2. RowsSpec => [][Spans]_rowsVars
  <2> HIDE DEF Spans
  <2> QED
    BY RowsInvariance, <1>1, PTL DEF RowsSpec
<1> QED
  BY <1>2, PTL DEF GrowthSpansTwoReadingsInARow

\* The rows drawn are the first ones.
LEMMA FirstRows ==
  ASSUME NEW s \in Seq(Row)
  PROVE  \E n \in Nat : /\ n <= Len(s)
                       /\ DOMAIN DisplayRows(s) = 1 .. n
                       /\ \A i \in 1 .. n : DisplayRows(s)[i] = s[i]
<1>1. APP_USAGE_ROW_LIMIT \in Nat
  BY RowsAssumption
<1>2. DisplayRows(s) = AtMost(s, APP_USAGE_ROW_LIMIT)
  BY DEF DisplayRows, RankedThenCut
<1> DEFINE n == IF Len(s) < APP_USAGE_ROW_LIMIT THEN Len(s) ELSE APP_USAGE_ROW_LIMIT
<1>3. /\ n \in Nat /\ n <= Len(s)
      /\ DOMAIN AtMost(s, APP_USAGE_ROW_LIMIT) = 1 .. n
      /\ \A i \in 1 .. n : AtMost(s, APP_USAGE_ROW_LIMIT)[i] = s[i]
  BY <1>1, Cut
<1> QED
  BY <1>2, <1>3

\* An app that grew for real is cut from the drawn rows only by apps that grew at
\* least as much, and an app that did not only by growers and larger apps, however
\* many apps there are and however few are drawn (trend.rs:87-105; format.rs:429-440).
THEOREM GrowersAreDrawn == RowsSpec => []NoGrowerIsCrowdedOut
<1>1. RowsInv => NoGrowerIsCrowdedOut
  <2> DEFINE rows == app_memory.rows
             drawn == ToSet(DisplayRows(rows))
             cut == ToSet(rows) \ drawn
  <2> SUFFICES ASSUME RowsInv, NEW c \in cut, NEW d \in drawn
               PROVE  /\ Meaningful(c) => Growth(d) >= Growth(c)
                      /\ ~Meaningful(d) /\ ~Meaningful(c)
                           /\ Growth(d) = Growth(c) => d.bytes >= c.bytes
    BY DEF NoGrowerIsCrowdedOut
  <2>1. rows \in Seq(Row) /\ Grown(rows) /\ InRank(rows)
    BY DEF RowsInv, BaselineIsShown, Grown
  <2>2. PICK n \in Nat : /\ n <= Len(rows)
                         /\ DOMAIN DisplayRows(rows) = 1 .. n
                         /\ \A i \in 1 .. n : DisplayRows(rows)[i] = rows[i]
    BY <2>1, FirstRows
  <2>3. DOMAIN rows = 1 .. Len(rows) /\ Len(rows) \in Nat
    BY <2>1, LenProperties
  <2>4. drawn = {rows[i] : i \in 1 .. n}
    BY <2>2 DEF ToSet
  <2>5. PICK k \in 1 .. n : d = rows[k]
    BY <2>4
  <2>6. PICK l \in DOMAIN rows : c = rows[l]
    BY DEF ToSet
  <2>7. l \notin 1 .. n
    BY <2>4, <2>6
  <2>8. k \in DOMAIN rows /\ k < l
    BY <2>2, <2>3, <2>5, <2>6, <2>7
  <2>9. IF \E i \in DOMAIN rows : Meaningful(rows[i])
        THEN ~GrewMore(c, d) ELSE ~LargerFirst(c, d)
    BY <2>1, <2>5, <2>6, <2>8 DEF InRank
  <2>10. /\ Growth(c) \in Nat /\ Growth(d) \in Nat
         /\ c.bytes \in Nat /\ d.bytes \in Nat
    <3>1. c \in Row /\ d \in Row /\ OneDelta(c) /\ OneDelta(d)
      BY <2>1, <2>3, <2>5, <2>6, <2>8, ElementOfSeq DEF Grown
    <3> QED
      BY <3>1, GrowthType DEF Row
  <2> HIDE DEF rows, drawn, cut
  <2>11. CASE \E i \in DOMAIN rows : Meaningful(rows[i])
    BY <2>9, <2>10, <2>11 DEF GrewMore, LargerFirst
  <2>12. CASE ~\E i \in DOMAIN rows : Meaningful(rows[i])
    <3>1. ~Meaningful(c)
      BY <2>6, <2>12
    <3> QED
      BY <2>9, <2>10, <2>12, <3>1 DEF LargerFirst
  <2> QED
    BY <2>11, <2>12
<1> QED
  BY RowsInvariance, <1>1, PTL

--------------------------------------------------------------------------------
(* What a scan answers with is what the rows drawn are made from *)

\* The rows of a scan before they have a delta.
Bare(rows) ==
  [i \in DOMAIN rows |-> [app |-> rows[i].app, bytes |-> rows[i].bytes, delta |-> {}]]

\* Rows that AppRows has a scan complete with: the heaviest of the apps that run.
IsScan(rows) ==
  \E running \in (SUBSET Apps) \ {{}} : \E footprint \in [running -> Nat \ {0}] :
  \E s \in HeaviestFirst({[app |-> a, bytes |-> footprint[a], delta |-> {}] :
                                  a \in running}) :
    Bare(rows) = AtMost(s, TopN)

\* What a scan answers with, when it does well.
ScanAnswered == result.status = "ok" => IsScan(result.rows)

\* An app that has a record has memory.
LEMMA TotalIsSome ==
  ASSUME ScanInv, TallyInv, NEW r \in records
  PROVE  Total(r.app) \in Nat \ {0}
<1> DEFINE T == {q \in records : q.app = r.app}
           g == [q \in records |-> q.bytes]
<1>1. IsFiniteSet(T) /\ IsFiniteSet(T \ {r}) /\ r \in T
  BY RecordsOfProcesses, FS_Subset
<1>2. \A q \in T : g[q] \in Nat
  BY RecordsOfProcesses
<1>3. g[r] \in Nat /\ g[r] > 0
  BY RecordsOfProcesses DEF TallyInv, RecordsHold, Countable
<1>4. SumFunctionOnSet(g, T) = g[r] + SumFunctionOnSet(g, T \ {r})
  <2> HIDE DEF T, g
  <2> QED
    BY <1>1, <1>2, SumLessOne
<1>5. SumFunctionOnSet(g, T \ {r}) \in Nat
  <2>1. \A q \in T \ {r} : g[q] \in Nat
    BY <1>2
  <2> HIDE DEF T, g
  <2> QED
    BY <1>1, <2>1, SumType
<1>6. Total(r.app) = SumFunctionOnSet(g, T)
  BY DEF Total
<1> HIDE DEF T, g
<1> QED
  BY <1>3, <1>4, <1>5, <1>6

\* An order of the rows is one of the rows without a delta.
LEMMA BareOrder ==
  ASSUME ScanInv, TallyInv, NEW s \in Sorted(Rows),
         NEW R, R = {[app |-> x.app, bytes |-> x.bytes, delta |-> {}] : x \in Rows}
  PROVE  Bare(s) \in HeaviestFirst(R) /\ s \in Seq(Rows)
<1> DEFINE n == Cardinality(Rows)
           bare(x) == [app |-> x.app, bytes |-> x.bytes, delta |-> {}]
           h == [x \in Rows |-> bare(x)]
<1>1. s \in SetToSeqs(Rows) /\ \A i, j \in DOMAIN s : i < j => ~Before(s[j], s[i])
  BY DEF Sorted
<1>2. n \in Nat /\ IsFiniteSet(Rows)
  BY RowsOfApps, FS_CardinalityType
<1>3. s \in [1 .. n -> Rows] /\ \A i, j \in 1 .. n : i # j => s[i] # s[j]
  BY <1>1 DEF SetToSeqs
<1>4. \A x, y \in Rows : bare(x) = bare(y) => x = y
  <2> SUFFICES ASSUME NEW x \in Rows, NEW y \in Rows, bare(x) = bare(y) PROVE x = y
    OBVIOUS
  <2>1. x.app = y.app
    OBVIOUS
  <2> QED
    BY <2>1, RowsOfApps
<1>5. Cardinality(R) = n
  <2>1. h \in Surjection(Rows, R)
    BY DEF Surjection
  <2>2. h \in Injection(Rows, R)
    BY <1>4 DEF Injection, IsInjective
  <2> HIDE DEF h
  <2> QED
    BY <1>2, <2>1, <2>2, FS_Surjection
<1>6. DOMAIN s = 1 .. n /\ \A i \in 1 .. n : s[i] \in Rows
  BY <1>3
<1>7. DOMAIN Bare(s) = 1 .. n /\ \A i \in 1 .. n : Bare(s)[i] = bare(s[i])
  BY <1>6 DEF Bare
<1>8. Bare(s) \in [1 .. n -> R]
  BY <1>6 DEF Bare
<1> HIDE DEF bare
<1>9. \A i, j \in 1 .. n : i # j => Bare(s)[i] # Bare(s)[j]
  BY <1>3, <1>4, <1>6, <1>7
<1>10. Bare(s) \in SetToSeqs(R)
  <2>1. Cardinality(R) = n
    BY <1>5
  <2> HIDE DEF n
  <2> QED
    BY <1>8, <1>9, <2>1 DEF SetToSeqs
<1>11. ASSUME NEW i \in 1 .. n, NEW j \in 1 .. n, i < j
       PROVE  ~LargerFirst(Bare(s)[j], Bare(s)[i])
  <2>1. ~Before(s[j], s[i])
    BY <1>1, <1>6, <1>11
  <2> QED
    BY <1>7, <2>1 DEF Before, LargerFirst, bare
<1> QED
  BY <1>2, <1>3, <1>7, <1>10, <1>11 DEF HeaviestFirst

LEMMA TruncatedIsScan ==
  ASSUME ScanInv, TallyInv, records # {}, NEW rows \in Truncated(Rows)
  PROVE  IsScan(rows)
<1> DEFINE running == {r.app : r \in records}
           footprint == [a \in running |-> Total(a)]
           R == {[app |-> a, bytes |-> footprint[a], delta |-> {}] : a \in running}
<1>1. PICK s \in Sorted(Rows) : rows = SubSeq(s, 1, IF Len(s) < TopN THEN Len(s) ELSE TopN)
  BY DEF Truncated
<1>2. running \in (SUBSET Apps) \ {{}}
  BY RecordsOfProcesses
<1>3. footprint \in [running -> Nat \ {0}]
  BY TotalIsSome
<1>4. R = {[app |-> x.app, bytes |-> x.bytes, delta |-> {}] : x \in Rows}
  <2>1. ASSUME NEW a \in running
        PROVE  \E x \in Rows : /\ x.app = a /\ x.bytes = footprint[a]
    <3>1. [app |-> a, bytes |-> Total(a)] \in Rows
      BY DEF Rows
    <3> QED
      BY <3>1
  <2>2. ASSUME NEW x \in Rows
        PROVE  x.app \in running /\ x.bytes = footprint[x.app]
    <3>1. PICK a \in running : x = [app |-> a, bytes |-> Total(a)]
      BY DEF Rows
    <3> QED
      BY <3>1
  <2> HIDE DEF running, footprint
  <2> QED
    BY <2>1, <2>2
<1>5. Bare(s) \in HeaviestFirst(R) /\ s \in Seq(Rows)
  <2> HIDE DEF R
  <2> QED
    BY <1>4, BareOrder
<1>6. Len(s) \in Nat /\ DOMAIN s = 1 .. Len(s) /\ TopN \in Nat
  BY <1>5, LenProperties, ConstantsAssumption
<1> DEFINE n == IF Len(s) < TopN THEN Len(s) ELSE TopN
<1>7. n \in Nat /\ n <= Len(s)
  BY <1>6
<1>8. Len(Bare(s)) = Len(s) /\ \A i \in 1 .. Len(s) : Bare(s)[i]
        = [app |-> s[i].app, bytes |-> s[i].bytes, delta |-> {}]
  BY <1>6 DEF Bare
<1>9. AtMost(Bare(s), TopN) = SubSeq(Bare(s), 1, n)
  BY <1>8 DEF AtMost
<1>10. rows = SubSeq(s, 1, n)
  BY <1>1
<1> HIDE DEF n
<1>11. rows = [i \in 1 .. n |-> s[i]]
  BY <1>7, <1>10
<1>12. SubSeq(Bare(s), 1, n) = [i \in 1 .. n |-> Bare(s)[i]]
  BY <1>7
<1>13. Bare(rows) = [i \in 1 .. n |-> Bare(s)[i]]
  <2>1. DOMAIN rows = 1 .. n /\ \A i \in 1 .. n : rows[i] = s[i] /\ i \in 1 .. Len(s)
    BY <1>7, <1>11
  <2> QED
    BY <1>8, <2>1 DEF Bare
<1>14. Bare(rows) = AtMost(Bare(s), TopN)
  BY <1>9, <1>12, <1>13
<1> HIDE DEF running, footprint
<1> QED
  BY <1>2, <1>3, <1>5, <1>14 DEF IsScan

\* A step that sends an answer sends a scan.
LEMMA ScansAreAnswered ==
  ASSUME AnswerInv, ScanAnswered, [Next]_vars
  PROVE  ScanAnswered'
<1>1. CASE Finish
  <2>1. CASE records = {} /\ result' = Err
    BY <2>1 DEF ScanAnswered, Err
  <2>2. CASE records # {} /\ \E rows \in Truncated(Rows) : result' = Loaded(rows)
    <3>1. PICK rows \in Truncated(Rows) : result' = Loaded(rows)
      BY <2>2
    <3>2. IsScan(rows)
      BY <2>2, TruncatedIsScan DEF AnswerInv
    <3>3. result'.rows = rows
      BY <3>1 DEF Loaded
    <3>4. IsScan(result'.rows)
      BY <3>2, <3>3
    <3> QED
      BY <3>4 DEF ScanAnswered, IsScan, Bare
  <2> QED
    BY <1>1, <2>1, <2>2 DEF Finish
<1>2. CASE ~Finish
  <2>1. UNCHANGED result
    BY <1>2 DEF Next, Step, vars, Skip, Begin, Recall, Hop, GiveUp, Exits
  <2> QED
    BY <2>1 DEF ScanAnswered, IsScan, Bare
<1> QED
  BY <1>1, <1>2

\* Every good answer of a scan is one that AppRows has a scan complete with, its limit
\* being the rows the scan is asked for: what is proved of the rows drawn holds of the
\* answers of the scan that is modelled, exits and all
\* (process_memory.rs:272-302; engine.rs:664-690).
THEOREM AnswersAreScans == Spec => []ScanAnswered
<1> SUFFICES Init => ScanAnswered
  BY ScansAreAnswered, AnswerInvariance, PTL DEF Spec
<1> QED
  BY DEF Init, ScanAnswered, Err, Pending
================================================================================
