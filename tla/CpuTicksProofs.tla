----------------------------- MODULE CpuTicksProofs -----------------------------
(***************************************************************************)
(* What the CPU percentages measure, for any number of processors, any     *)
(* width of their counters and any readings that fail.                     *)
(*                                                                         *)
(* The inductive invariant ties the baseline to the counters: what a       *)
(* processor's counter read then and what has elapsed since are what it    *)
(* reads now, up to one wrap.  The totals are sums over processors and     *)
(* counters, so the argument ends in SumProofs.                            *)
(***************************************************************************)
EXTENDS CpuTicks, SumProofs, SequenceTheorems

--------------------------------------------------------------------------------
(* The inductive invariant *)

Types ==
  /\ processors \in 0 .. MaxProcessors
  /\ ticks \in [1 .. MaxProcessors -> Ticks]
  /\ previous \in Seq(Ticks) /\ Len(previous) <= MaxProcessors
  /\ elapsed \in [1 .. MaxProcessors -> Ticks]
  /\ good_reads \in 0 .. 2

\* A baseline is what a good reading left.
BaselineIsRead == good_reads = 0 => previous = <<>>

\* Less than a wrap lies between a baseline and its counter.
BaselineHolds ==
  \A p \in DOMAIN previous, c \in Counter :
    \/ previous[p][c] + elapsed[p][c] = ticks[p][c]
    \/ previous[p][c] + elapsed[p][c] = ticks[p][c] + Width

SnapshotType ==
  snapshot \in [state: {"Loading", "Available", "Unavailable"}, user: 0 .. 100, system: 0 .. 100]

Inv == Types /\ BaselineIsRead /\ BaselineHolds /\ SnapshotType /\ SpansNoGap

--------------------------------------------------------------------------------
(* Numbers *)

\* The constants, by name.
LEMMA Widths == MaxProcessors \in Nat /\ Width \in Nat /\ Width > 0
BY ConstantsAssumption

\* Remainders below and just past the divisor.
LEMMA Remainder ==
  ASSUME NEW w \in Nat, NEW n \in Nat, n < w
  PROVE  n % w = n
OBVIOUS

\* The remainder of a number past the modulus once.
LEMMA RemainderPast ==
  ASSUME NEW w \in Nat, NEW n \in Nat, w <= n, n < 2 * w
  PROVE  n % w = n - w
OBVIOUS

\* A quotient of naturals is one, and that of a rounded percentage is at most 100.
LEMMA Quotient == ASSUME NEW a \in Nat, NEW b \in Nat, b > 0 PROVE a \div b \in Nat
OBVIOUS

\* A rounded percentage is at most 100.
LEMMA RoundedQuotient ==
  ASSUME NEW p \in Nat, NEW t \in Nat, t > 0, p <= t
  PROVE  (200 * p + t) \div (2 * t) <= 100
OBVIOUS

\* A counter that wraps between two readings has moved by what the code computes.
LEMMA WrapsOnce ==
  ASSUME NEW before \in 0 .. Width - 1, NEW after \in 0 .. Width - 1,
         NEW moved \in 0 .. Width - 1,
         before + moved = after \/ before + moved = after + Width
  PROVE  WrappingSub(after, before) = moved
<1> DEFINE n == after + Width - before
<1>1. moved \in Nat /\ moved < Width /\ Width \in Nat /\ n \in Nat
  BY Widths
<1>2. CASE n = moved
  BY <1>1, <1>2, Remainder DEF WrappingSub
<1>3. CASE n = moved + Width
  <2>1. Width <= n /\ n < 2 * Width /\ n - Width = moved
    BY <1>1, <1>3
  <2> HIDE DEF n
  <2>2. n % Width = n - Width
    BY <1>1, <2>1, RemainderPast
  <2> QED
    BY <2>1, <2>2 DEF WrappingSub, n
<1> QED
  BY <1>2, <1>3, Widths

\* One more tick, with the wrap.
LEMMA TickWraps ==
  ASSUME NEW n \in 0 .. Width - 1
  PROVE  /\ (n + 1) % Width \in 0 .. Width - 1
         /\ (n + 1) % Width = n + 1 \/ ((n + 1) % Width) + Width = n + 1
<1> DEFINE m == n + 1
<1>1. m \in Nat /\ m <= Width /\ Width \in Nat /\ Width > 0
  BY Widths
<1> HIDE DEF m
<1>2. CASE m < Width
  <2>1. m % Width = m
    BY <1>1, <1>2, Remainder
  <2> QED
    BY <1>1, <1>2, <2>1 DEF m
<1>3. CASE m = Width
  <2>1. m % Width = m - Width
    BY <1>1, <1>3, RemainderPast
  <2> QED
    BY <1>1, <1>3, <2>1 DEF m
<1> QED
  BY <1>1, <1>2, <1>3

\* A part of a total is at most all of it.
LEMMA PercentType ==
  ASSUME NEW part \in Nat, NEW total \in Nat, part <= total
  PROVE  Percent(part, total) \in 0 .. 100
<1>1. CASE total # 0
  <2> DEFINE a == 200 * part + total
             b == 2 * total
             q == a \div b
  <2>1. a \in Nat /\ b \in Nat /\ b > 0 /\ total > 0
    BY <1>1
  <2>2. q <= 100
    BY <2>1, RoundedQuotient
  <2>3. q \in Nat
    <3> HIDE DEF a, b
    <3> QED
      BY <2>1, Quotient
  <2>4. Percent(part, total) = q
    BY <1>1 DEF Percent
  <2> HIDE DEF q
  <2> QED
    BY <2>2, <2>3, <2>4
<1> QED
  BY <1>1 DEF Percent

--------------------------------------------------------------------------------
(* The ticks that passed *)

Each(counters) == [at \in (1 .. processors) \X counters |-> elapsed[at[1]][at[2]]]

\* There are finitely many counters.
LEMMA FiniteCounters ==
  ASSUME Types, NEW counters \in SUBSET Counter
  PROVE  IsFiniteSet((1 .. processors) \X counters)
<1>1. IsFiniteSet(Counter)
  <2>1. IsFiniteSet({}) /\ IsFiniteSet({} \union {"user"})
    BY FS_EmptySet, FS_AddElement
  <2>2. IsFiniteSet(({} \union {"user"}) \union {"system"})
    BY <2>1, FS_AddElement
  <2>3. IsFiniteSet((({} \union {"user"}) \union {"system"}) \union {"idle"})
    BY <2>2, FS_AddElement
  <2>4. IsFiniteSet(((({} \union {"user"}) \union {"system"}) \union {"idle"}) \union {"nice"})
    BY <2>3, FS_AddElement
  <2>5. Counter = ((({} \union {"user"}) \union {"system"}) \union {"idle"}) \union {"nice"}
    BY DEF Counter
  <2> QED
    BY <2>4, <2>5
<1>2. IsFiniteSet(counters)
  BY <1>1, FS_Subset
<1>3. IsFiniteSet(1 .. processors)
  BY FS_Interval, Widths DEF Types
<1> QED
  BY <1>2, <1>3, FS_Product

\* What passed is the sum over the counters asked for, of all that passed.
LEMMA PassedOfAll ==
  ASSUME Types, NEW counters \in SUBSET Counter
  PROVE  /\ Passed(counters) = SumFunctionOnSet(Each(Counter), (1 .. processors) \X counters)
         /\ \A at \in (1 .. processors) \X Counter : Each(Counter)[at] \in Nat
         /\ Passed(counters) \in Nat
<1> DEFINE S == (1 .. processors) \X counters
<1>1. IsFiniteSet(S)
  BY FiniteCounters
<1>2. Passed(counters) = SumFunctionOnSet(Each(counters), S)
  BY DEF Passed, Each, SumFunction
<1>3. \A at \in S : at \in (1 .. processors) \X Counter
                    /\ Each(counters)[at] = Each(Counter)[at]
  BY DEF Each
<1>4. \A at \in (1 .. processors) \X Counter : Each(Counter)[at] \in Nat
  <2> SUFFICES ASSUME NEW at \in (1 .. processors) \X Counter PROVE Each(Counter)[at] \in Nat
    OBVIOUS
  <2>1. at[1] \in 1 .. MaxProcessors /\ at[2] \in Counter
    BY Widths DEF Types
  <2>2. elapsed[at[1]] \in Ticks
    BY <2>1 DEF Types
  <2>3. elapsed[at[1]][at[2]] \in Nat
    BY <2>1, <2>2, Widths DEF Ticks
  <2> QED
    BY <2>3 DEF Each
<1> HIDE DEF S
<1>5. SumFunctionOnSet(Each(counters), S) = SumFunctionOnSet(Each(Counter), S)
  BY <1>1, <1>3, SumOfSame
<1>6. SumFunctionOnSet(Each(Counter), S) \in Nat
  BY <1>1, <1>3, <1>4, SumType
<1> QED
  BY <1>2, <1>4, <1>5, <1>6 DEF S

\* It adds up over counters of their own.
LEMMA PassedOfBoth ==
  ASSUME Types, NEW A \in SUBSET Counter, NEW B \in SUBSET Counter, A \cap B = {}
  PROVE  Passed(A \union B) = Passed(A) + Passed(B)
<1> DEFINE P == 1 .. processors
           S == P \X A
           T == P \X B
           all == Each(Counter)
<1>1. IsFiniteSet(S) /\ IsFiniteSet(T)
  BY FiniteCounters
<1>2. S \cap T = {} /\ S \union T = P \X (A \union B)
      /\ \A at \in S \union T : at \in P \X Counter
  OBVIOUS
<1>3. \A at \in S \union T : all[at] \in Nat
  BY <1>2, PassedOfAll
<1>4. Passed(A) = SumFunctionOnSet(all, S) /\ Passed(B) = SumFunctionOnSet(all, T)
  BY PassedOfAll
<1>5. Passed(A \union B) = SumFunctionOnSet(all, S \union T)
  BY <1>2, PassedOfAll
<1> HIDE DEF S, T, all
<1>6. SumFunctionOnSet(all, S \union T) = SumFunctionOnSet(all, S) + SumFunctionOnSet(all, T)
  BY <1>1, <1>2, <1>3, SumOfBoth
<1> QED
  BY <1>4, <1>5, <1>6

\* What the kernel reports is what its counters read.
LEMMA ReadingOfTicks ==
  ASSUME Types
  PROVE  /\ Reading \in Seq(Ticks) /\ Len(Reading) = processors
         /\ processors \in Nat /\ processors <= MaxProcessors
         /\ \A p \in 1 .. processors : Reading[p] = ticks[p]
<1>1. processors \in Nat /\ processors <= MaxProcessors /\ MaxProcessors \in Nat
  BY Widths DEF Types
<1>2. \A i \in 1 .. processors : ticks[i] \in Ticks
  BY <1>1 DEF Types
<1>3. /\ SubSeq(ticks, 1, processors) \in Seq(Ticks)
      /\ Len(SubSeq(ticks, 1, processors)) = IF 1 <= processors THEN processors - 1 + 1 ELSE 0
      /\ \A i \in 1 .. processors - 1 + 1 : SubSeq(ticks, 1, processors)[i] = ticks[1 + i - 1]
  BY <1>1, <1>2, SubSeqProperties
<1> QED
  BY <1>1, <1>3 DEF Reading

\* The code's difference of two readings is what passed in between.
LEMMA DeltaIsPassed ==
  ASSUME Types, BaselineHolds, Len(previous) = processors, NEW counters \in SUBSET Counter
  PROVE  Delta(previous, Reading, counters) = Passed(counters)
<1>1. DOMAIN previous = 1 .. processors
  BY LenProperties DEF Types
<1>2. ASSUME NEW p \in 1 .. processors, NEW c \in counters
      PROVE  WrappingSub(Reading[p][c], previous[p][c]) = elapsed[p][c]
  <2>1. Reading[p] = ticks[p] /\ p \in 1 .. MaxProcessors /\ c \in Counter
    BY ReadingOfTicks, Widths
  <2>2. previous[p] \in Ticks /\ ticks[p] \in Ticks /\ elapsed[p] \in Ticks
    BY <1>1, <2>1, ElementOfSeq, LenProperties DEF Types
  <2>3. /\ previous[p][c] \in 0 .. Width - 1 /\ ticks[p][c] \in 0 .. Width - 1
        /\ elapsed[p][c] \in 0 .. Width - 1
    BY <2>1, <2>2 DEF Ticks
  <2>4. \/ previous[p][c] + elapsed[p][c] = ticks[p][c]
        \/ previous[p][c] + elapsed[p][c] = ticks[p][c] + Width
    BY <1>1, <2>1 DEF BaselineHolds
  <2> QED
    BY <2>1, <2>3, <2>4, WrapsOnce
<1> DEFINE moved == [at \in (1 .. processors) \X counters |->
                       WrappingSub(Reading[at[1]][at[2]], previous[at[1]][at[2]])]
<1>3. moved = Each(counters)
  BY <1>2 DEF Each
<1>4. Delta(previous, Reading, counters) = SumFunction(moved)
  BY <1>1 DEF Delta
<1>5. Passed(counters) = SumFunction(Each(counters))
  BY DEF Passed, Each
<1> QED
  BY <1>3, <1>4, <1>5

\* The snapshot of two readings of the same processors.
LEMMA MeasuredSnapshot ==
  ASSUME Types, BaselineHolds,
         SnapshotFromTicks(previous, Reading).state = "Available"
  PROVE  /\ previous # <<>>
         /\ SnapshotFromTicks(previous, Reading) =
              [state |-> "Available",
               user |-> Percent(Passed({"user", "nice"}), Passed(Counter)),
               system |-> Percent(Passed({"system"}), Passed(Counter))]
         /\ Percent(Passed({"user", "nice"}), Passed(Counter)) \in 0 .. 100
         /\ Percent(Passed({"system"}), Passed(Counter)) \in 0 .. 100
<1>1. Len(previous) = Len(Reading) /\ Reading # <<>>
  BY DEF SnapshotFromTicks, NoSnapshot
<1>2. Len(previous) = processors /\ previous # <<>>
  BY <1>1, ReadingOfTicks, EmptySeq DEF Types
<1> DEFINE user == Passed({"user", "nice"})
           system == Passed({"system"})
           idle == Passed({"idle"})
           total == Passed(Counter)
<1>3. /\ {"user", "nice"} \in SUBSET Counter /\ {"system"} \in SUBSET Counter
      /\ {"idle"} \in SUBSET Counter
      /\ {"user", "nice"} \union {"system"} \in SUBSET Counter
  BY DEF Counter
<1>4. /\ Delta(previous, Reading, UserCounters) = user
      /\ Delta(previous, Reading, {"system"}) = system
      /\ Delta(previous, Reading, {"idle"}) = idle
  BY <1>2, <1>3, DeltaIsPassed DEF UserCounters
<1>5. user \in Nat /\ system \in Nat /\ idle \in Nat
  BY <1>3, PassedOfAll
<1>6. total = user + system + idle
  <2>1. Passed({"user", "nice"} \union {"system"}) = user + system
    BY <1>3, PassedOfBoth
  <2>2. Passed(({"user", "nice"} \union {"system"}) \union {"idle"})
          = Passed({"user", "nice"} \union {"system"}) + idle
    BY <1>3, PassedOfBoth
  <2>3. ({"user", "nice"} \union {"system"}) \union {"idle"} = Counter
    BY DEF Counter
  <2> QED
    BY <2>1, <2>2, <2>3
<1>7. SnapshotFromTicks(previous, Reading) =
        [state |-> "Available", user |-> Percent(user, total),
         system |-> Percent(system, total)]
  BY <1>1, <1>4, <1>6 DEF SnapshotFromTicks
<1> HIDE DEF user, system, idle, total
<1>8. Percent(user, total) \in 0 .. 100 /\ Percent(system, total) \in 0 .. 100
  <2>1. total \in Nat /\ user <= total /\ system <= total
    BY <1>5, <1>6
  <2>2. Percent(user, total) \in 0 .. 100
    BY <1>5, <2>1, PercentType
  <2>3. Percent(system, total) \in 0 .. 100
    BY <1>5, <2>1, PercentType
  <2> QED
    BY <2>2, <2>3
<1> QED
  BY <1>2, <1>7, <1>8 DEF user, system, total

--------------------------------------------------------------------------------
(* The invariant, action by action *)

\* A processor nothing has passed on.
LEMMA StillTicks == Still \in Ticks /\ \A c \in Counter : Still[c] = 0
BY Widths DEF Still, Ticks

\* Nothing has passed since a baseline that is new.
LEMMA SinceBaseline ==
  ASSUME NEW baseline, Since(baseline)
  PROVE  /\ previous' = baseline
         /\ elapsed' \in [1 .. MaxProcessors -> Ticks]
         /\ \A p \in 1 .. MaxProcessors, c \in Counter : elapsed'[p][c] = 0
BY StillTicks DEF Since

\* The invariant holds before the first sample.
LEMMA InitInv == Init => Inv
<1> SUFFICES ASSUME Init PROVE Inv
  OBVIOUS
<1>1. Types
  BY StillTicks, EmptySeq, Widths DEF Init, Types
<1>2. BaselineHolds
  BY EmptySeq DEF Init, BaselineHolds
<1>3. SnapshotType
  BY DEF Init, NoSnapshot, SnapshotType
<1> QED
  BY <1>1, <1>2, <1>3 DEF Init, Inv, BaselineIsRead, SpansNoGap, NoSnapshot

\* A sample measures from its baseline, and is the next one's.
LEMMA SampleSucceedsKeepsInv ==
  ASSUME Inv, SampleSucceeds, UNCHANGED <<processors, ticks>>
  PROVE  Inv'
<1> USE DEF Inv
<1>1. /\ Reading \in Seq(Ticks) /\ Len(Reading) = processors /\ processors <= MaxProcessors
      /\ \A p \in 1 .. processors : Reading[p] = ticks[p]
  BY ReadingOfTicks
<1>2. /\ previous' = Reading
      /\ elapsed' \in [1 .. MaxProcessors -> Ticks]
      /\ \A p \in 1 .. MaxProcessors, c \in Counter : elapsed'[p][c] = 0
  BY SinceBaseline DEF SampleSucceeds
<1>3. good_reads' = (IF good_reads < 2 THEN good_reads + 1 ELSE 2) /\ good_reads \in 0 .. 2
  BY DEF SampleSucceeds, Types
<1>4. Types'
  BY <1>1, <1>2, <1>3 DEF Types
<1>5. BaselineHolds'
  <2> SUFFICES ASSUME NEW p \in DOMAIN previous', NEW c \in Counter
               PROVE  previous'[p][c] + elapsed'[p][c] = ticks'[p][c]
    BY DEF BaselineHolds
  <2>1. p \in 1 .. processors /\ p \in 1 .. MaxProcessors
    BY <1>1, <1>2, LenProperties, Widths DEF Types
  <2>2. previous'[p] = ticks[p] /\ elapsed'[p][c] = 0
    BY <1>1, <1>2, <2>1
  <2>3. ticks[p][c] \in Nat
    BY <2>1, Widths DEF Types, Ticks
  <2> QED
    BY <2>2, <2>3
<1>6. snapshot' = SnapshotFromTicks(previous, Reading)
  BY DEF SampleSucceeds
<1>7. CASE SnapshotFromTicks(previous, Reading).state = "Available"
  <2> DEFINE user == Percent(Passed({"user", "nice"}), Passed(Counter))
             system == Percent(Passed({"system"}), Passed(Counter))
  <2>1. /\ previous # <<>>
        /\ snapshot' = [state |-> "Available", user |-> user, system |-> system]
        /\ user \in 0 .. 100 /\ system \in 0 .. 100
    BY <1>6, <1>7, MeasuredSnapshot
  <2> HIDE DEF user, system
  <2>2. good_reads' = 2
    BY <1>3, <2>1 DEF BaselineIsRead
  <2> QED
    BY <1>4, <1>5, <2>1, <2>2 DEF SnapshotType, SpansNoGap, BaselineIsRead
<1>8. CASE SnapshotFromTicks(previous, Reading).state # "Available"
  <2>1. snapshot' = NoSnapshot
    BY <1>6, <1>8 DEF SnapshotFromTicks
  <2>2. good_reads' # 0
    BY <1>3
  <2> QED
    BY <1>4, <1>5, <2>1, <2>2 DEF SnapshotType, SpansNoGap, BaselineIsRead, NoSnapshot
<1> QED
  BY <1>7, <1>8

\* Without a baseline nothing is promised of one.
LEMMA DropBaselineKeepsInv ==
  ASSUME Inv, DropBaseline, good_reads' = 0, UNCHANGED <<processors, ticks>>,
         snapshot' = snapshot \/ snapshot' = Failed
  PROVE  Inv'
<1> USE DEF Inv
<1>1. previous' = <<>> /\ elapsed' \in [1 .. MaxProcessors -> Ticks]
  BY SinceBaseline DEF DropBaseline
<1>2. Types'
  BY <1>1, EmptySeq, Widths DEF Types
<1>3. BaselineHolds'
  BY <1>1, EmptySeq DEF BaselineHolds
<1>4. SnapshotType'
  BY DEF SnapshotType, Failed
<1> QED
  BY <1>1, <1>2, <1>3, <1>4 DEF BaselineIsRead, SpansNoGap

\* A tick is one in the counter and one in what has elapsed, through a wrap or not.
LEMMA AdvanceKeepsInv ==
  ASSUME Inv, NEW p \in 1 .. MaxProcessors, NEW c \in Counter, Advance(p, c)
  PROVE  Inv'
<1> USE DEF Inv
<1>1. /\ elapsed[p][c] < Width - 1
      /\ ticks' = [ticks EXCEPT ![p][c] = (ticks[p][c] + 1) % Width]
      /\ elapsed' = [elapsed EXCEPT ![p][c] = elapsed[p][c] + 1]
      /\ UNCHANGED <<processors, previous, snapshot, good_reads>>
  BY DEF Advance
<1>2. ticks[p] \in Ticks /\ elapsed[p] \in Ticks
  BY DEF Types
<1>3. ticks[p][c] \in 0 .. Width - 1 /\ elapsed[p][c] \in 0 .. Width - 1
  BY <1>2 DEF Ticks
<1> DEFINE tick == (ticks[p][c] + 1) % Width
           gone == elapsed[p][c] + 1
<1>4. /\ tick \in 0 .. Width - 1 /\ gone \in 0 .. Width - 1
      /\ tick = ticks[p][c] + 1 \/ tick + Width = ticks[p][c] + 1
  BY <1>1, <1>3, TickWraps, Widths
<1> HIDE DEF tick, gone
<1>5. ticks' = [ticks EXCEPT ![p] = [ticks[p] EXCEPT ![c] = tick]]
      /\ elapsed' = [elapsed EXCEPT ![p] = [elapsed[p] EXCEPT ![c] = gone]]
  BY <1>1 DEF tick, gone
<1>6. [ticks[p] EXCEPT ![c] = tick] \in Ticks /\ [elapsed[p] EXCEPT ![c] = gone] \in Ticks
  BY <1>2, <1>4 DEF Ticks
<1>7. Types'
  BY <1>1, <1>5, <1>6 DEF Types
<1>8. BaselineHolds'
  <2> SUFFICES ASSUME NEW q \in DOMAIN previous, NEW d \in Counter
               PROVE  \/ previous[q][d] + elapsed'[q][d] = ticks'[q][d]
                      \/ previous[q][d] + elapsed'[q][d] = ticks'[q][d] + Width
    BY <1>1 DEF BaselineHolds
  <2>1. \/ previous[q][d] + elapsed[q][d] = ticks[q][d]
        \/ previous[q][d] + elapsed[q][d] = ticks[q][d] + Width
    BY DEF BaselineHolds
  <2>2. q \in 1 .. MaxProcessors
    BY LenProperties, Widths DEF Types
  <2>3. CASE q = p /\ d = c
    <3>1. ticks'[q][d] = tick /\ elapsed'[q][d] = elapsed[q][d] + 1
      BY <1>2, <1>5, <2>2, <2>3 DEF Types, Ticks, gone
    <3>2. previous[q][d] \in 0 .. Width - 1
      <4>1. previous[q] \in Ticks
        BY ElementOfSeq, LenProperties DEF Types
      <4> QED
        BY <4>1 DEF Ticks
    <3>3. previous[q][d] + elapsed[q][d] <= ticks[q][d] + Width
      BY <1>3, <2>1, <2>3, <3>2, Widths
    <3> QED
      BY <1>1, <1>3, <1>4, <2>1, <2>3, <3>1, <3>2, Widths
  <2>4. CASE ~(q = p /\ d = c)
    <3>1. ticks'[q][d] = ticks[q][d] /\ elapsed'[q][d] = elapsed[q][d]
      BY <1>2, <1>5, <2>2, <2>4 DEF Types, Ticks
    <3> QED
      BY <2>1, <3>1
  <2> QED
    BY <2>3, <2>4
<1> QED
  BY <1>1, <1>7, <1>8 DEF BaselineIsRead, SpansNoGap, SnapshotType

\* So it always holds.
LEMMA Invariance == Spec => []Inv
<1>1. ASSUME Inv, [Next]_vars PROVE Inv'
  <2>1. CASE Sample
    <3>1. CASE SampleSucceeds
      BY <1>1, <2>1, <3>1, SampleSucceedsKeepsInv DEF Sample
    <3>2. CASE SampleFails
      BY <1>1, <2>1, <3>2, DropBaselineKeepsInv DEF Sample, SampleFails
    <3> QED
      BY <2>1, <3>1, <3>2 DEF Sample
  <2>2. CASE Reset
    BY <1>1, <2>2, DropBaselineKeepsInv DEF Reset
  <2>3. CASE Replug
    <3>1. /\ processors' \in 0 .. MaxProcessors
          /\ UNCHANGED <<ticks, previous, snapshot, elapsed, good_reads>>
      BY <2>3 DEF Replug
    <3> QED
      BY <1>1, <3>1 DEF Inv, Types, BaselineIsRead, BaselineHolds, SnapshotType, SpansNoGap
  <2>4. CASE UNCHANGED vars
    <3>1. UNCHANGED <<processors, ticks, previous, snapshot, elapsed, good_reads>>
      BY <2>4 DEF vars
    <3> QED
      BY <1>1, <3>1 DEF Inv, Types, BaselineIsRead, BaselineHolds, SnapshotType, SpansNoGap
  <2> QED
    BY <1>1, <2>1, <2>2, <2>3, <2>4, AdvanceKeepsInv DEF Next
<1> QED
  BY <1>1, InitInv, PTL DEF Spec

--------------------------------------------------------------------------------
(* Theorems *)

\* The values the sampler takes: a percentage of CPU is one, whatever the counters do.
THEOREM TypeCorrect == Spec => []TypeOK
<1>1. Inv => TypeOK
  BY DEF Inv, Types, SnapshotType, TypeOK
<1> QED
  BY <1>1, Invariance, PTL

\* No reading spans a reset or a failed read: percentages come from two readings in a row
\* (cpu.rs:39-50, 68-76).
THEOREM NoGapIsSpanned == Spec => []SpansNoGap
<1>1. Inv => SpansNoGap
  BY DEF Inv
<1> QED
  BY <1>1, Invariance, PTL

\* The percentages are those of the ticks that passed since the baseline, on any number
\* of processors and through a wrap of any of their counters (cpu.rs:150-209).
THEOREM MeasuresElapsed == Spec => MeasuresWhatElapsed
<1>1. ASSUME Inv, SampleSucceeds, snapshot'.state = "Available"
      PROVE  /\ snapshot'.user = Percent(Passed({"user", "nice"}), Passed(Counter))
             /\ snapshot'.system = Percent(Passed({"system"}), Passed(Counter))
  <2>1. snapshot' = SnapshotFromTicks(previous, Reading)
    BY <1>1 DEF SampleSucceeds
  <2> DEFINE user == Percent(Passed({"user", "nice"}), Passed(Counter))
             system == Percent(Passed({"system"}), Passed(Counter))
  <2>2. snapshot' = [state |-> "Available", user |-> user, system |-> system]
    BY <1>1, <2>1, MeasuredSnapshot DEF Inv
  <2> HIDE DEF user, system
  <2>3. snapshot'.user = user /\ snapshot'.system = system
    BY <2>2
  <2> QED
    BY <2>3 DEF user, system
<1> QED
  BY <1>1, Invariance, PTL DEF Spec, MeasuresWhatElapsed
================================================================================
