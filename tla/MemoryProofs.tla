------------------------------ MODULE MemoryProofs ------------------------------
(***************************************************************************)
(* The accounting of pages, the age of the swap reading, the mark on the   *)
(* icon, the caption and the cells of the map, for every Mac whose kernel  *)
(* counts as MemoryReading assumes, any length of the window, any          *)
(* thresholds, any number of cells and any timer.                          *)
(*                                                                         *)
(* A sample of one sampler is shown to keep what holds of the readings;    *)
(* the history takes its samples from there.                               *)
(***************************************************************************)
EXTENDS MemoryHistory, SumProofs, SequenceTheorems

--------------------------------------------------------------------------------
(* The inductive invariants *)

\* A sampler has never read the swap, and has no reading; or the samples since it has,
\* and those until it will again, make the interval.
SwapIsCounted ==
  \A s \in Samplers :
    \/ samples[s] = NeverRead /\ ticks[s] = 0 /\ ~Fresh(s)
    \/ samples[s] + ticks[s] = SWAP_REFRESH_INTERVAL_TICKS - 1

ReadingInv ==
  /\ TypeOK /\ SwapIsCounted
  /\ DOMAIN reading = Samplers

HistoryInv == ReadingInv /\ HistoryTypeOK /\ MarkMatchesHistory

--------------------------------------------------------------------------------
(* Facts about numbers and percentages *)

\* The constants, by name.
LEMMA Intervals ==
  /\ SWAP_REFRESH_INTERVAL_TICKS \in Nat /\ SWAP_REFRESH_INTERVAL_TICKS > 0
  /\ NeverRead = SWAP_REFRESH_INTERVAL_TICKS
BY ConstantsAssumption DEF NeverRead

\* A quotient of naturals is one.
LEMMA Quotient == ASSUME NEW a \in Nat, NEW b \in Nat, b > 0 PROVE a \div b \in Nat
OBVIOUS

\* A percentage is one.
LEMMA PercentType == ASSUME NEW part \in Nat, NEW total \in Nat PROVE Percent(part, total) \in 0 .. 100
<1>1. CASE total = 0
  BY <1>1 DEF Percent
<1>2. CASE total # 0
  <2> DEFINE a == 200 * part + total
             b == 2 * total
  <2>1. a \in Nat /\ b \in Nat /\ b > 0
    BY <1>2
  <2> HIDE DEF a, b
  <2>2. a \div b \in Nat
    BY <2>1, Quotient
  <2> DEFINE q == a \div b
  <2>3. q \in Nat
    BY <2>2
  <2>4. Percent(part, total) = AtMost(q, 100)
    BY <1>2 DEF Percent, a, b
  <2> HIDE DEF q
  <2> QED
    BY <2>3, <2>4 DEF AtMost
<1> QED
  BY <1>1, <1>2

\* What the kernel reports.
LEMMA Kernel ==
  ASSUME NEW m \in Macs, NEW k \in m
  PROVE  /\ k.internal \in Nat /\ k.external \in Nat /\ k.wired \in Nat
         /\ k.compressed \in Nat /\ k.free \in Nat /\ k.inactive \in Nat
         /\ k.speculative \in Nat /\ k.purgeable \in Nat /\ k.reserved \in Nat
         /\ k.purgeable <= k.internal /\ k.speculative <= k.free
         /\ Memsize(k) \in Nat
<1>1. k \in PageCounts
  BY ConstantsAssumption
<1>2. k.purgeable <= k.internal /\ k.speculative <= k.free
  BY KernelAssumption
<1> QED
  BY <1>1, <1>2 DEF PageCounts, Memsize

\* The memory a sample shows is of the RAM there is, and its percentages are that.
LEMMA SnapshotType ==
  ASSUME NEW m \in Macs, NEW k \in m, NEW swap \in Nat, NEW level \in Levels \union {NoLevel}
  PROVE  /\ \A b \in Bytes : Snapshot(k, swap, level)[b] \in Nat
         /\ Snapshot(k, swap, level).used_percent \in 0 .. 100
         /\ Snapshot(k, swap, level).pressure_percent \in 0 .. 100
         /\ Snapshot(k, swap, level) # NoReading
<1> DEFINE app == Minus(k.internal, k.purgeable)
           used == app + k.wired + k.compressed
<1>1. /\ k.internal \in Nat /\ k.external \in Nat /\ k.wired \in Nat
      /\ k.compressed \in Nat /\ k.free \in Nat /\ k.inactive \in Nat
      /\ k.speculative \in Nat /\ k.purgeable \in Nat /\ Memsize(k) \in Nat
  BY Kernel
<1>2. app \in Nat /\ used \in Nat /\ FreePages(k) \in Nat /\ k.external + k.purgeable \in Nat
  BY <1>1 DEF Minus, FreePages
<1>3. Percent(used, Memsize(k)) \in 0 .. 100
  BY <1>1, <1>2, PercentType
<1>4. PressurePercent(k, level) \in 0 .. 100
  <2>1. k.free + k.inactive + k.purgeable \in Nat
    BY <1>1
  <2>2. Percent(k.free + k.inactive + k.purgeable, Memsize(k)) \in 0 .. 100
    BY <1>1, <2>1, PercentType
  <2>3. level # NoLevel => level \in 0 .. 100
    BY ConstantsAssumption
  <2> QED
    BY <2>2, <2>3 DEF PressurePercent
<1>5. Snapshot(k, swap, level) =
        [total |-> Memsize(k), used |-> used, used_percent |-> Percent(used, Memsize(k)),
         pressure_percent |-> PressurePercent(k, level),
         app |-> app, wired |-> k.wired, compressed |-> k.compressed,
         cached |-> k.external + k.purgeable, free |-> FreePages(k), swap |-> swap]
  BY DEF Snapshot
<1> HIDE DEF app, used
<1>6. Snapshot(k, swap, level) # NoReading
  <2>1. "total" \in DOMAIN Snapshot(k, swap, level) /\ "total" \notin DOMAIN NoReading
    BY <1>5 DEF NoReading
  <2> QED
    BY <2>1
<1> QED
  BY <1>1, <1>2, <1>3, <1>4, <1>5, <1>6 DEF Bytes

--------------------------------------------------------------------------------
(* A sample keeps what holds of the readings *)

\* Nothing was read at first.
LEMMA InitReading == Init => ReadingInv
<1> SUFFICES ASSUME Init PROVE ReadingInv
  OBVIOUS
<1>1. \A s \in Samplers : ~Fresh(s)
  BY DEF Init, Fresh
<1> QED
  BY <1>1, Intervals DEF Init, ReadingInv, TypeOK, SwapIsCounted

\* A sample fails with its reading, and whatever it leaves to the next.
LEMMA FailedSample ==
  ASSUME ReadingInv, NEW s \in Samplers, SampleFails(s), UNCHANGED <<mac, ticks>>
  PROVE  ReadingInv'
<1>1. /\ reading' = [reading EXCEPT ![s] = Failed]
      /\ UNCHANGED <<mac, kernel, cached, ticks, samples>>
  BY DEF SampleFails
<1>2. DOMAIN reading' = Samplers /\ ~Fresh(s)'
      /\ \A r \in Samplers : r # s => reading'[r] = reading[r]
  BY <1>1 DEF ReadingInv, Fresh
<1>3. TypeOK'
  BY <1>1, <1>2 DEF ReadingInv, TypeOK, Fresh
<1>4. SwapIsCounted'
  BY <1>1, <1>2 DEF ReadingInv, SwapIsCounted, Fresh
<1> QED
  BY <1>2, <1>3, <1>4 DEF ReadingInv

\* A sample that succeeds shows the RAM there is and the swap the sampler has.
LEMMA SampledReading ==
  ASSUME ReadingInv, NEW s \in Samplers, Sampled(s), mac' = mac,
         cached' \in [Samplers -> Swap \union {0}]
  PROVE  /\ kernel' \in mac' /\ DOMAIN reading' = Samplers
         /\ reading'[s] # NoReading
         /\ \A b \in Bytes : reading'[s][b] \in Nat
         /\ reading'[s].used_percent \in 0 .. 100 /\ reading'[s].pressure_percent \in 0 .. 100
         /\ \A r \in Samplers : r # s => reading'[r] = reading[r]
<1>1. PICK level \in Levels \union IF "level" \in Failures THEN {NoLevel} ELSE {} :
        reading' = [reading EXCEPT ![s] = Snapshot(kernel', cached'[s], level)]
  BY DEF Sampled
<1>2. kernel' \in mac /\ mac \in Macs /\ DOMAIN reading = Samplers
  BY DEF Sampled, ReadingInv, TypeOK
<1>3. cached'[s] \in Nat /\ level \in Levels \union {NoLevel}
  <2>1. cached'[s] \in Nat
    <3>1. cached'[s] \in Swap \union {0}
      OBVIOUS
    <3>2. \A n \in Swap \union {0} : n \in Nat
      BY ConstantsAssumption
    <3> QED
      BY <3>1, <3>2
  <2>2. level \in Levels \union {NoLevel}
    BY <1>1
  <2> QED
    BY <2>1, <2>2
<1> DEFINE shown == Snapshot(kernel', cached'[s], level)
<1>4. /\ \A b \in Bytes : shown[b] \in Nat
      /\ shown.used_percent \in 0 .. 100 /\ shown.pressure_percent \in 0 .. 100
      /\ shown # NoReading
  BY <1>2, <1>3, SnapshotType
<1>5. reading'[s] = shown /\ DOMAIN reading' = Samplers
      /\ \A r \in Samplers : r # s => reading'[r] = reading[r]
  BY <1>1, <1>2
<1> HIDE DEF shown
<1> QED
  BY <1>2, <1>4, <1>5

\* The counting down to the next reading of the swap, and whatever its sample shows.
LEMMA SampleKeepsInv == ASSUME ReadingInv, NEW s \in Samplers, Sample(s) PROVE ReadingInv'
<1>1. mac' = mac /\ TypeOK /\ SwapIsCounted /\ DOMAIN reading = Samplers
  BY DEF Sample, ReadingInv
<1>2. /\ ticks \in [Samplers -> 0 .. SWAP_REFRESH_INTERVAL_TICKS - 1]
      /\ samples \in [Samplers -> 0 .. SWAP_REFRESH_INTERVAL_TICKS]
      /\ cached \in [Samplers -> Swap \union {0}]
  BY <1>1, Intervals DEF TypeOK
<1>3. CASE SampleFails(s) /\ UNCHANGED ticks
  BY <1>1, <1>3, FailedSample
<1>4. ASSUME Sampled(s), cached' \in [Samplers -> Swap \union {0}],
             ticks' \in [Samplers -> 0 .. SWAP_REFRESH_INTERVAL_TICKS - 1],
             samples' \in [Samplers -> 0 .. SWAP_REFRESH_INTERVAL_TICKS],
             samples'[s] + ticks'[s] = SWAP_REFRESH_INTERVAL_TICKS - 1,
             \A r \in Samplers : r # s => samples'[r] = samples[r] /\ ticks'[r] = ticks[r]
      PROVE  ReadingInv'
  <2>1. /\ kernel' \in mac' /\ DOMAIN reading' = Samplers
        /\ \A b \in Bytes : reading'[s][b] \in Nat
        /\ reading'[s].used_percent \in 0 .. 100 /\ reading'[s].pressure_percent \in 0 .. 100
        /\ \A r \in Samplers : r # s => reading'[r] = reading[r]
    BY <1>1, <1>4, SampledReading
  <2>2. \A r \in Samplers : Fresh(r)' =>
          /\ \A b \in Bytes : reading'[r][b] \in Nat
          /\ reading'[r].used_percent \in 0 .. 100
          /\ reading'[r].pressure_percent \in 0 .. 100
    <3> SUFFICES ASSUME NEW r \in Samplers, Fresh(r)'
                 PROVE  /\ \A b \in Bytes : reading'[r][b] \in Nat
                        /\ reading'[r].used_percent \in 0 .. 100
                        /\ reading'[r].pressure_percent \in 0 .. 100
      OBVIOUS
    <3>1. CASE r = s
      BY <2>1, <3>1
    <3>2. CASE r # s
      <4>1. reading'[r] = reading[r]
        BY <2>1, <3>2
      <4>2. Fresh(r)
        BY <4>1 DEF Fresh
      <4> QED
        BY <1>1, <4>1, <4>2 DEF TypeOK
    <3> QED
      BY <3>1, <3>2
  <2>3. TypeOK'
    BY <1>1, <1>4, <2>1, <2>2, Intervals DEF TypeOK
  <2>4. SwapIsCounted'
    <3> SUFFICES ASSUME NEW r \in Samplers
                 PROVE  \/ samples'[r] = NeverRead /\ ticks'[r] = 0 /\ ~Fresh(r)'
                        \/ samples'[r] + ticks'[r] = SWAP_REFRESH_INTERVAL_TICKS - 1
      BY DEF SwapIsCounted
    <3>1. CASE r = s
      BY <1>4, <3>1
    <3>2. CASE r # s
      BY <1>1, <1>4, <2>1, <3>2 DEF SwapIsCounted, Fresh
    <3> QED
      BY <3>1, <3>2
  <2> QED
    BY <2>1, <2>3, <2>4 DEF ReadingInv
<1>5. CASE SampleWithSwap(s)
  <2>1. PICK read \in MayFail("swap") :
          /\ ticks' = [ticks EXCEPT ![s] = DueTicks(s, read)]
          /\ IF read THEN ReadSwap(s) /\ Sampled(s) ELSE SampleFails(s)
    BY <1>5 DEF SampleWithSwap
  <2>2. CASE read
    <3>1. ticks' = [ticks EXCEPT ![s] = SWAP_REFRESH_INTERVAL_TICKS - 1]
      BY <2>1, <2>2 DEF DueTicks
    <3>2. Sampled(s) /\ samples' = [samples EXCEPT ![s] = 0]
      BY <2>1, <2>2 DEF ReadSwap
    <3>3. cached' \in [Samplers -> Swap \union {0}]
      BY <1>2, <2>1, <2>2 DEF ReadSwap
    <3>4. /\ ticks' \in [Samplers -> 0 .. SWAP_REFRESH_INTERVAL_TICKS - 1]
          /\ samples' \in [Samplers -> 0 .. SWAP_REFRESH_INTERVAL_TICKS]
          /\ samples'[s] + ticks'[s] = SWAP_REFRESH_INTERVAL_TICKS - 1
          /\ \A r \in Samplers : r # s => samples'[r] = samples[r] /\ ticks'[r] = ticks[r]
      BY <1>2, <3>1, <3>2, Intervals
    <3> QED
      BY <1>4, <3>2, <3>3, <3>4
  <2>3. CASE ~read
    <3>1. SampleFails(s) /\ ticks' = [ticks EXCEPT ![s] = ticks[s]]
      BY <2>1, <2>3 DEF DueTicks
    <3>2. ticks' = ticks
      BY <1>2, <3>1
    <3> QED
      BY <1>1, <3>1, <3>2, FailedSample
  <2> QED
    BY <2>2, <2>3
<1>6. CASE SampleCached(s)
  <2>1. /\ ticks[s] > 0 /\ ticks' = [ticks EXCEPT ![s] = ticks[s] - 1]
        /\ samples' = [samples EXCEPT ![s] = AtMost(samples[s] + 1, NeverRead)]
        /\ cached' = cached /\ Sampled(s)
    BY <1>6 DEF SampleCached
  <2>2. samples[s] + ticks[s] = SWAP_REFRESH_INTERVAL_TICKS - 1
    BY <1>1, <1>2, <2>1 DEF SwapIsCounted
  <2>3. AtMost(samples[s] + 1, NeverRead) = samples[s] + 1
    BY <1>2, <2>1, <2>2, Intervals DEF AtMost
  <2>4. /\ ticks' \in [Samplers -> 0 .. SWAP_REFRESH_INTERVAL_TICKS - 1]
        /\ samples' \in [Samplers -> 0 .. SWAP_REFRESH_INTERVAL_TICKS]
        /\ samples'[s] + ticks'[s] = SWAP_REFRESH_INTERVAL_TICKS - 1
        /\ \A r \in Samplers : r # s => samples'[r] = samples[r] /\ ticks'[r] = ticks[r]
    BY <1>2, <2>1, <2>2, <2>3, Intervals
  <2> QED
    BY <1>2, <1>4, <2>1, <2>4
<1> QED
  BY <1>1, <1>3, <1>5, <1>6 DEF Sample

--------------------------------------------------------------------------------
(* The readings *)

\* The kernel's counts are a Mac's, and so is everything a sample shows.
LEMMA ReadingInvariance == Spec => []ReadingInv
<1>1. ASSUME ReadingInv, [Next]_vars PROVE ReadingInv'
  <2>1. CASE UNCHANGED vars
    BY <1>1, <2>1 DEF vars, ReadingInv, TypeOK, SwapIsCounted, Fresh
  <2> QED
    BY <1>1, <2>1, SampleKeepsInv DEF Next
<1> QED
  BY <1>1, InitReading, PTL DEF Spec

\* What holds of the readings says what the runs check of them.
LEMMA ReadingProperties == ReadingInv => EveryPageOnce /\ SwapIsRecent
<1> SUFFICES ASSUME ReadingInv PROVE EveryPageOnce /\ SwapIsRecent
  OBVIOUS
<1>1. SwapIsRecent
  <2> SUFFICES ASSUME NEW s \in Samplers, Fresh(s)
               PROVE  samples[s] < SWAP_REFRESH_INTERVAL_TICKS
    BY DEF SwapIsRecent
  <2>1. /\ ticks \in [Samplers -> 0 .. SWAP_REFRESH_INTERVAL_TICKS - 1]
        /\ samples \in [Samplers -> 0 .. SWAP_REFRESH_INTERVAL_TICKS]
    BY Intervals DEF ReadingInv, TypeOK
  <2>2. samples[s] + ticks[s] = SWAP_REFRESH_INTERVAL_TICKS - 1
    BY DEF ReadingInv, SwapIsCounted
  <2> QED
    BY <2>1, <2>2, Intervals
<1>2. EveryPageOnce
  <2> DEFINE k == kernel
             m == Snapshot(k, 0, NoLevel)
  <2>1. mac \in Macs /\ k \in mac
    BY DEF ReadingInv, TypeOK
  <2>2. /\ k.internal \in Nat /\ k.external \in Nat /\ k.wired \in Nat
        /\ k.compressed \in Nat /\ k.free \in Nat /\ k.speculative \in Nat
        /\ k.purgeable \in Nat /\ k.reserved \in Nat
        /\ k.purgeable <= k.internal /\ k.speculative <= k.free
    BY <2>1, Kernel
  <2>3. /\ m.total = Memsize(k) /\ m.cached = k.external + k.purgeable
        /\ m.used = Minus(k.internal, k.purgeable) + k.wired + k.compressed
        /\ m.free = FreePages(k)
    BY DEF Snapshot
  <2> HIDE DEF m, k
  <2>4. m.used = (k.internal - k.purgeable) + k.wired + k.compressed
    BY <2>2, <2>3 DEF Minus
  <2>5. m.free = k.free - k.speculative
    BY <2>2, <2>3 DEF FreePages, Minus
  <2>6. m.used + m.cached + m.free + k.reserved = m.total
    BY <2>2, <2>3, <2>4, <2>5 DEF Memsize
  <2>7. m.used \in Nat /\ m.cached \in Nat /\ m.free \in Nat /\ m.total \in Nat
    BY <2>2, <2>3, <2>4, <2>5, <2>6
  <2>8. Other(m) = k.reserved
    <3>1. Minus(m.total, m.used) = m.cached + m.free + k.reserved
      BY <2>2, <2>6, <2>7 DEF Minus
    <3>2. Minus(m.cached + m.free + k.reserved, m.cached) = m.free + k.reserved
      BY <2>2, <2>7 DEF Minus
    <3>3. Minus(m.free + k.reserved, m.free) = k.reserved
      BY <2>2, <2>7 DEF Minus
    <3> QED
      BY <3>1, <3>2, <3>3 DEF Other
  <2> QED
    BY <2>6, <2>8 DEF EveryPageOnce, m, k
<1> QED
  BY <1>1, <1>2

--------------------------------------------------------------------------------
(* The history *)

\* The constants, by name.
LEMMA Windows ==
  /\ Dropdown \in Samplers /\ MEMORY_WINDOW_SAMPLES \in Nat /\ MEMORY_WINDOW_SAMPLES > 0
  /\ RISING_BYTES \in Nat /\ RISING_FAST_BYTES \in Nat
  /\ REFRESH_TICK \in Nat /\ REFRESH_TICK > 0 /\ TOLERANCE \in Nat /\ TOLERANCE < REFRESH_TICK
BY HistoryAssumption

Samples == [used: Nat, gap: 0 .. Missed]

\* The window keeps its length, and has a sample once one is recorded.
LEMMA RecordedWindow ==
  ASSUME NEW t \in Seq(Samples), Len(t) <= MEMORY_WINDOW_SAMPLES, NEW used \in Nat,
         since \in 0 .. Missed
  PROVE  /\ Recorded(t, used) \in Seq(Samples)
         /\ Len(Recorded(t, used)) <= MEMORY_WINDOW_SAMPLES
         /\ Recorded(t, used)[1].gap = 0
<1> DEFINE new == [used |-> used, gap |-> since]
           longer == Append(t, new)
           kept == IF Len(longer) > MEMORY_WINDOW_SAMPLES THEN Tail(longer) ELSE longer
<1>1. new \in Samples
  BY DEF Samples
<1> HIDE DEF new
<1>2. longer \in Seq(Samples) /\ Len(longer) = Len(t) + 1 /\ Len(t) \in Nat
  BY <1>1, AppendProperties, LenProperties
<1> HIDE DEF longer
<1>3. longer # <<>>
  BY <1>2, EmptySeq
<1>4. Tail(longer) \in Seq(Samples) /\ Len(Tail(longer)) = Len(longer) - 1
  BY <1>2, <1>3, HeadTailProperties
<1>5. kept \in Seq(Samples) /\ Len(kept) <= MEMORY_WINDOW_SAMPLES /\ Len(kept) >= 1
  BY <1>2, <1>4, Windows
<1>6. Recorded(t, used) = [kept EXCEPT ![1].gap = 0]
  BY DEF Recorded, longer, new
<1> HIDE DEF kept
<1>7. kept[1] \in Samples /\ 1 \in 1 .. Len(kept)
  BY <1>5, ElementOfSeq, LenProperties
<1>8. [kept[1] EXCEPT !.gap = 0] \in Samples
  <2>1. 0 \in 0 .. Missed
    BY Windows DEF Missed, LongGap
  <2> QED
    BY <1>7, <2>1 DEF Samples
<1>9. Recorded(t, used) = [kept EXCEPT ![1] = [kept[1] EXCEPT !.gap = 0]]
  BY <1>6
<1>10. /\ Recorded(t, used) \in Seq(Samples)
       /\ Len(Recorded(t, used)) = Len(kept)
  BY <1>5, <1>7, <1>8, <1>9, ExceptSeq
<1>11. Recorded(t, used)[1].gap = 0
  <2>1. 1 \in DOMAIN kept
    BY <1>5, <1>7, LenProperties
  <2> DEFINE oldest == [kept[1] EXCEPT !.gap = 0]
  <2>2. oldest.gap = 0
    BY <1>7 DEF Samples
  <2> HIDE DEF oldest
  <2>3. Recorded(t, used)[1] = oldest
    BY <1>9, <2>1 DEF oldest
  <2> QED
    BY <2>2, <2>3
<1> QED
  BY <1>5, <1>10, <1>11

\* A trend is what the used bytes and the oldest sample make of it.
LEMMA Classified ==
  ASSUME NEW t \in Seq(Samples), NEW used \in Nat
  PROVE  /\ Classify(t, used) \in MemoryTrend
         /\ Classify(t, used) = "Stable" => t = <<>> \/ used < t[1].used + RISING_BYTES
         /\ Classify(t, used) = "Rising" => t # <<>> /\ used >= t[1].used + RISING_BYTES
         /\ Classify(t, used) = "RisingFast" =>
              t # <<>> /\ used >= t[1].used + RISING_FAST_BYTES
<1>1. CASE t = <<>>
  BY <1>1 DEF Classify, MemoryTrend
<1>2. CASE t # <<>>
  <2>1. t[1] \in Samples
    BY <1>2, ElementOfSeq, LenProperties, EmptySeq
  <2> DEFINE oldest == t[1].used
  <2>2. oldest \in Nat
    BY <2>1 DEF Samples
  <2>3. Classify(t, used) = ClassifyMemoryTrend(used, oldest)
    BY <1>2 DEF Classify
  <2> HIDE DEF oldest
  <2>4. /\ ClassifyMemoryTrend(used, oldest) \in MemoryTrend
        /\ ClassifyMemoryTrend(used, oldest) = "Stable" => used < oldest + RISING_BYTES
        /\ ClassifyMemoryTrend(used, oldest) = "Rising" => used >= oldest + RISING_BYTES
        /\ ClassifyMemoryTrend(used, oldest) = "RisingFast" =>
             used >= oldest + RISING_FAST_BYTES
    BY <2>2, Windows DEF ClassifyMemoryTrend, MemoryTrend
  <2> QED
    BY <1>2, <2>3, <2>4 DEF oldest
<1> QED
  BY <1>1, <1>2

\* There is no history at first.
LEMMA InitHistory == HistoryInit => HistoryInv
<1> SUFFICES ASSUME HistoryInit PROVE HistoryInv
  OBVIOUS
<1>1. ReadingInv /\ TypeOK
  BY InitReading DEF HistoryInit, ReadingInv
<1>2. window = <<>> /\ gauge = NotStarted /\ since = 0 /\ due = NotArmed
      /\ auto_refresh_enabled \in BOOLEAN
  BY DEF HistoryInit
<1>3. NotArmed \in Nat /\ Missed \in Nat
  BY Windows DEF NotArmed, Missed, LongGap
<1>4. window \in Seq([used: Nat, gap: 0 .. Missed]) /\ Len(window) <= MEMORY_WINDOW_SAMPLES
  BY <1>2, EmptySeq, Windows
<1> QED
  BY <1>1, <1>2, <1>3, <1>4 DEF HistoryInv, HistoryTypeOK, MarkMatchesHistory

\* What a refresh reads is a count of bytes.
LEMMA SampleOfRefresh ==
  ASSUME HistoryInv, ReadingInv', NEW manual, NEW t, Refresh(manual, t),
         reading'[Dropdown] # Failed
  PROVE  reading'[Dropdown].used \in Nat
<1>1. Sampled(Dropdown)
  <2>1. ~SampleFails(Dropdown)
    BY Windows DEF SampleFails, HistoryInv, ReadingInv
  <2>2. Sample(Dropdown)
    BY DEF Refresh
  <2> QED
    BY <2>1, <2>2 DEF Sample, SampleWithSwap, SampleCached
<1>2. reading'[Dropdown] # NoReading
  <2>1. mac' = mac /\ cached' \in [Samplers -> Swap \union {0}]
    BY DEF Refresh, Sample, ReadingInv, TypeOK
  <2> QED
    BY <1>1, <2>1, SampledReading, Windows DEF HistoryInv
<1>3. Fresh(Dropdown)'
  BY <1>2 DEF Fresh
<1> QED
  BY <1>3, Windows DEF ReadingInv, TypeOK, Bytes

\* A refresh draws the icon of the window it leaves, whichever sample it records.
LEMMA RefreshKeepsInv ==
  ASSUME HistoryInv, NEW manual \in BOOLEAN, NEW t \in Seq(Samples),
         Len(t) <= MEMORY_WINDOW_SAMPLES, Refresh(manual, t),
         auto_refresh_enabled' \in BOOLEAN, due' \in 0 .. NotArmed
  PROVE  HistoryInv'
<1>1. ReadingInv' /\ TypeOK'
  BY SampleKeepsInv, Windows DEF HistoryInv, Refresh, ReadingInv
<1>2. Missed \in Nat /\ since \in 0 .. Missed
  BY Windows DEF Missed, LongGap, HistoryInv, HistoryTypeOK
<1> DEFINE window_ok(w) == w \in Seq(Samples) /\ Len(w) <= MEMORY_WINDOW_SAMPLES
<1>3. CASE reading'[Dropdown] = Failed
  <2>1. window' = t /\ gauge' = Placeholder /\ since' \in 0 .. Missed
    BY <1>2, <1>3 DEF Refresh
  <2> QED
    BY <1>1, <2>1 DEF HistoryInv, HistoryTypeOK, MarkMatchesHistory, Samples
<1>4. CASE reading'[Dropdown] # Failed
  <2> DEFINE used == reading'[Dropdown].used
             records == auto_refresh_enabled' /\ Advances(manual, t)
  <2>1. used \in Nat
    BY <1>1, <1>4, SampleOfRefresh
  <2>2. /\ window' = IF records THEN Recorded(t, used) ELSE t
        /\ gauge' = [used |-> used, trend |-> Classify(window', used)]
        /\ since' = IF records THEN 0 ELSE since
    BY <1>4 DEF Refresh, RecordsFirst
  <2> HIDE DEF used, records
  <2>3. window_ok(window')
    BY <1>2, <2>1, <2>2, RecordedWindow
  <2>4. since' \in 0 .. Missed
    BY <1>2, <2>2
  <2> DEFINE w == window'
             trend == Classify(w, used)
  <2>5. w \in Seq(Samples) /\ gauge' = [used |-> used, trend |-> trend]
    BY <2>2, <2>3
  <2> HIDE DEF w
  <2>6. /\ trend \in MemoryTrend
        /\ trend = "Stable" => w = <<>> \/ used < w[1].used + RISING_BYTES
        /\ trend = "Rising" => w # <<>> /\ used >= w[1].used + RISING_BYTES
        /\ trend = "RisingFast" => w # <<>> /\ used >= w[1].used + RISING_FAST_BYTES
    BY <2>1, <2>5, Classified
  <2> HIDE DEF trend
  <2>7. gauge'.used = used /\ gauge'.trend = trend
        /\ gauge' \in [used: Nat, trend: MemoryTrend]
    BY <2>1, <2>5, <2>6
  <2>8. MarkMatchesHistory'
    <3>1. CASE trend = "Stable"
      BY <2>6, <2>7, <3>1 DEF MarkMatchesHistory, w
    <3>2. CASE trend = "Rising"
      BY <2>6, <2>7, <3>2 DEF MarkMatchesHistory, w
    <3>3. CASE trend = "RisingFast"
      BY <2>6, <2>7, <3>3 DEF MarkMatchesHistory, w
    <3> QED
      BY <2>6, <3>1, <3>2, <3>3 DEF MemoryTrend
  <2> QED
    BY <1>1, <2>3, <2>4, <2>7, <2>8 DEF HistoryInv, HistoryTypeOK, Samples
<1> QED
  BY <1>3, <1>4

\* Every event of the history.
LEMMA HistoryKeepsInv == HistoryInv /\ [HistoryNext]_allVars => HistoryInv'
<1> SUFFICES ASSUME HistoryInv, [HistoryNext]_allVars PROVE HistoryInv'
  OBVIOUS
<1>1. /\ NotArmed \in Nat /\ NotArmed = REFRESH_TICK + TOLERANCE + 1
      /\ LongGap \in Nat /\ Missed = LongGap + 1
  BY Windows DEF NotArmed, Missed, LongGap
<1>2. /\ auto_refresh_enabled \in BOOLEAN /\ due \in 0 .. NotArmed
      /\ window \in Seq(Samples) /\ Len(window) <= MEMORY_WINDOW_SAMPLES
      /\ since \in 0 .. Missed
  BY DEF HistoryInv, HistoryTypeOK, Samples
<1>3. CASE Startup
  <2>1. auto_refresh_enabled' = auto_refresh_enabled /\ Refresh(TRUE, window) /\ due' = Armed
    BY <1>3 DEF Startup
  <2>2. due' \in 0 .. NotArmed
    BY <1>1, <2>1, Windows DEF Armed
  <2> QED
    BY <1>2, <2>1, <2>2, RefreshKeepsInv
<1>4. CASE Tick
  <2>1. /\ auto_refresh_enabled' = auto_refresh_enabled /\ Refresh(FALSE, window)
        /\ due <= TOLERANCE /\ due' = due + REFRESH_TICK
    BY <1>4 DEF Tick
  <2>2. due' \in 0 .. NotArmed
    BY <1>1, <1>2, <2>1, Windows
  <2> QED
    BY <1>2, <2>1, <2>2, RefreshKeepsInv
<1>5. CASE ManualRefresh
  <2>1. auto_refresh_enabled' = auto_refresh_enabled /\ Refresh(TRUE, window) /\ due' = due
    BY <1>5 DEF ManualRefresh
  <2> QED
    BY <1>2, <2>1, RefreshKeepsInv
<1>6. CASE ToggleAutoRefresh
  <2>1. /\ auto_refresh_enabled' = ~auto_refresh_enabled /\ Refresh(TRUE, <<>>)
        /\ due' = Armed
    BY <1>6 DEF ToggleAutoRefresh, Cleared
  <2>2. due' \in 0 .. NotArmed
    BY <1>1, <2>1, Windows DEF Armed
  <2>3. auto_refresh_enabled' \in BOOLEAN
    BY <2>1
  <2>4. <<>> \in Seq(Samples) /\ Len(<<>>) <= MEMORY_WINDOW_SAMPLES
    BY EmptySeq, Windows
  <2> QED
    BY <2>1, <2>2, <2>3, <2>4, RefreshKeepsInv
<1>7. ASSUME UNCHANGED <<vars, auto_refresh_enabled, window, gauge>>,
             due' \in 0 .. NotArmed, since' \in 0 .. Missed
      PROVE  HistoryInv'
  <2>1. UNCHANGED <<mac, kernel, cached, ticks, reading, samples, auto_refresh_enabled,
                    window, gauge>>
    BY <1>7 DEF vars
  <2>2. ReadingInv' /\ TypeOK' /\ MarkMatchesHistory'
    BY <2>1 DEF HistoryInv, ReadingInv, TypeOK, SwapIsCounted, Fresh, MarkMatchesHistory
  <2> QED
    BY <1>7, <2>1, <2>2 DEF HistoryInv, HistoryTypeOK
<1>8. CASE TimePasses
  <2>1. due # 0 /\ due' \in 0 .. NotArmed
    BY <1>1, <1>2, <1>8 DEF TimePasses
  <2>2. since' \in 0 .. Missed
    BY <1>1, <1>2, <1>8 DEF TimePasses
  <2> QED
    BY <1>7, <1>8, <2>1, <2>2 DEF TimePasses
<1>9. CASE Sleep
  <2>1. since' \in 0 .. Missed /\ due' = due
    BY <1>1, <1>9 DEF Sleep
  <2> QED
    BY <1>2, <1>7, <1>9, <2>1 DEF Sleep
<1>10. CASE UNCHANGED allVars
  BY <1>2, <1>7, <1>10 DEF allVars, history
<1> QED
  BY <1>3, <1>4, <1>5, <1>6, <1>8, <1>9, <1>10 DEF HistoryNext

\* So it always holds.
LEMMA HistoryInvariance == HistorySpec => []HistoryInv
BY InitHistory, HistoryKeepsInv, PTL DEF HistorySpec

--------------------------------------------------------------------------------
(* Theorems *)

\* The history is one of samples: the engine takes each by the sampler, and does nothing
\* else to it (engine.rs:484-505, memory.rs:287-313).
THEOREM HistoryIsOfSamples == HistorySpec => Spec
<1>1. HistoryInit => Init
  BY DEF HistoryInit
<1>2. ASSUME [HistoryNext]_allVars PROVE [Next]_vars
  <2>1. CASE Startup \/ Tick \/ ManualRefresh \/ ToggleAutoRefresh
    <3>1. Sample(Dropdown)
      BY <2>1 DEF Startup, Tick, ManualRefresh, ToggleAutoRefresh, Refresh
    <3> QED
      BY <3>1, Windows DEF Next
  <2>2. CASE TimePasses \/ Sleep \/ UNCHANGED allVars
    BY <2>2 DEF TimePasses, Sleep, allVars
  <2> QED
    BY <1>2, <2>1, <2>2 DEF HistoryNext
<1> QED
  BY <1>1, <1>2, PTL DEF HistorySpec, Spec

\* Used, Cached and Free count every page the kernel reports exactly once, whatever its
\* counts and the RAM they leave out (memory.rs:68-94, model.rs:22-31).
THEOREM PagesAreCountedOnce == HistorySpec => []EveryPageOnce
BY HistoryIsOfSamples, ReadingInvariance, ReadingProperties, PTL

\* A sample never shows swap older than the interval's samples, nor the zero a sampler
\* starts with, however its readings fail (memory.rs:302-310).
THEOREM SwapStaysRecent == HistorySpec => []SwapIsRecent
BY HistoryIsOfSamples, ReadingInvariance, ReadingProperties, PTL

\* The values the history and its readings take.
THEOREM HistoryTypes == HistorySpec => []HistoryTypeOK
<1>1. HistoryInv => HistoryTypeOK
  BY DEF HistoryInv
<1> QED
  BY <1>1, HistoryInvariance, PTL

\* The mark on the icon is about the history the dropdown draws, for any thresholds, even
\* those that are not in order, and any length of the window (engine.rs:399-407, 491-505,
\* 530-540; trend.rs:38-53).
THEOREM MarkIsOfHistory == HistorySpec => []MarkMatchesHistory
<1>1. HistoryInv => MarkMatchesHistory
  BY DEF HistoryInv
<1> QED
  BY <1>1, HistoryInvariance, PTL


--------------------------------------------------------------------------------
(* The caption: the time each sample and those after it cover *)

GapsOf(t) == [i \in DOMAIN t |-> t[i].gap]

GapsFrom(t, j) == SumFunctionOnSet(GapsOf(t), j + 1 .. Len(t))

SpanFrom(t, j) == (Len(t) - j) * REFRESH_TICK

Unbroken(t, j) == \A i \in j + 1 .. Len(t) : t[i].gap # Missed

Late == REFRESH_TICK + TOLERANCE

\* Of any sample: those after it, and the wait for the next, cover a tick each at least;
\* and, where no tick was missed, one tick and the tolerance more at most.  A sample that
\* was late makes the wait for the next that much shorter.
SpansHold(t, waited, left) ==
  \A j \in 1 .. Len(t) :
    /\ SpanFrom(t, j) <= GapsFrom(t, j) + IF waited = Missed THEN Late ELSE waited + left
    /\ Unbroken(t, j) =>
         /\ GapsFrom(t, j) <= SpanFrom(t, j) + TOLERANCE
         /\ waited # Missed => GapsFrom(t, j) + waited + left <= SpanFrom(t, j) + Late

\* There is a window only while the timer runs.
TimerRuns ==
  /\ gauge # NotStarted /\ auto_refresh_enabled => due <= Late
  /\ gauge = NotStarted \/ ~auto_refresh_enabled => due = NotArmed /\ window = <<>>
  /\ window # <<>> /\ since # Missed => since + due <= Late

\* Nothing came before the oldest sample.
OldestHasNone == window # <<>> => window[1].gap = 0

CaptionInv == HistoryInv /\ TimerRuns /\ OldestHasNone /\ SpansHold(window, since, due)

\* The times there are.
LEMMA TimeTypes ==
  /\ REFRESH_TICK \in Nat /\ TOLERANCE \in Nat /\ Late \in Nat /\ Missed \in Nat
  /\ NotArmed = Late + 1 /\ LongGap = Late + 1 /\ Missed = Late + 2
  /\ Late = REFRESH_TICK + TOLERANCE /\ TOLERANCE < REFRESH_TICK
BY Windows DEF Late, NotArmed, LongGap, Missed

\* The gaps after a sample are numbers, and so is their sum.
LEMMA GapsType ==
  ASSUME NEW t \in Seq(Samples), NEW j \in 1 .. Len(t)
  PROVE  /\ \A i \in j + 1 .. Len(t) : GapsOf(t)[i] = t[i].gap /\ t[i].gap \in 0 .. Missed
         /\ GapsFrom(t, j) \in Nat
         /\ SpanFrom(t, j) \in Nat
         /\ j = Len(t) => GapsFrom(t, j) = 0 /\ SpanFrom(t, j) = 0 /\ Unbroken(t, j)
<1>1. Len(t) \in Nat /\ DOMAIN t = 1 .. Len(t)
  BY LenProperties
<1>2. \A i \in 1 .. Len(t) : GapsOf(t)[i] = t[i].gap /\ t[i].gap \in 0 .. Missed
  <2> TAKE i \in 1 .. Len(t)
  <2>1. t[i] \in Samples
    BY ElementOfSeq
  <2>2. t[i].gap \in 0 .. Missed
    BY <2>1 DEF Samples
  <2>3. GapsOf(t)[i] = t[i].gap
    BY <1>1 DEF GapsOf
  <2> QED
    BY <2>2, <2>3
<1>3. \A i \in j + 1 .. Len(t) : i \in 1 .. Len(t) /\ GapsOf(t)[i] \in Nat
  BY <1>1, <1>2, TimeTypes
<1>4. GapsFrom(t, j) \in Nat
  <2>1. IsFiniteSet(j + 1 .. Len(t))
    BY <1>1, FS_Interval
  <2> QED
    BY <1>3, <2>1, SumType DEF GapsFrom
<1>5. SpanFrom(t, j) \in Nat
  <2>1. Len(t) - j \in Nat
    BY <1>1
  <2>2. ASSUME NEW a \in Nat, NEW b \in Nat PROVE a * b \in Nat
    OBVIOUS
  <2> QED
    BY <2>1, <2>2, TimeTypes DEF SpanFrom
<1>6. ASSUME j = Len(t) PROVE GapsFrom(t, j) = 0 /\ SpanFrom(t, j) = 0 /\ Unbroken(t, j)
  <2>1. j + 1 .. Len(t) = {} /\ Len(t) - j = 0
    BY <1>1, <1>6
  <2>2. 0 * REFRESH_TICK = 0
    BY TimeTypes
  <2> QED
    BY <2>1, <2>2, SumOfNone DEF GapsFrom, SpanFrom, Unbroken
<1> QED
  BY <1>2, <1>3, <1>4, <1>5, <1>6

\* The gaps after a sample are summed alike wherever they stand.
LEMMA GapsMoved ==
  ASSUME NEW t \in Seq(Samples), NEW j \in 1 .. Len(t), NEW f
  PROVE  /\ (\A i \in j + 1 .. Len(t) : f[i] = t[i].gap)
            => GapsFrom(t, j) = SumFunctionOnSet(f, j + 1 .. Len(t))
         /\ (\A i \in j + 1 .. Len(t) : f[i + 1] = t[i].gap)
            => GapsFrom(t, j) = SumFunctionOnSet(f, j + 2 .. Len(t) + 1)
<1>1. /\ Len(t) \in Nat /\ j \in Nat /\ 1 <= j /\ j <= Len(t)
      /\ \A i \in j + 1 .. Len(t) : GapsOf(t)[i] = t[i].gap /\ GapsOf(t)[i] \in Nat
  <2>1. Len(t) \in Nat
    BY LenProperties
  <2>2. 0 .. Missed \subseteq Nat
    BY TimeTypes
  <2>3. \A i \in j + 1 .. Len(t) : GapsOf(t)[i] = t[i].gap /\ t[i].gap \in 0 .. Missed
    BY GapsType
  <2> QED
    BY <2>1, <2>2, <2>3
<1> DEFINE g == GapsOf(t)
           n == Len(t)
<1>2. GapsFrom(t, j) = SumFunctionOnSet(g, j + 1 .. n)
  BY DEF GapsFrom
<1>3. n \in Nat /\ j <= n /\ \A i \in j + 1 .. n : g[i] = t[i].gap /\ g[i] \in Nat
  BY <1>1
<1> HIDE DEF g, n
<1>4. ASSUME \A i \in j + 1 .. n : f[i] = t[i].gap
      PROVE  SumFunctionOnSet(g, j + 1 .. n) = SumFunctionOnSet(f, j + 1 .. n)
  <2>1. IsFiniteSet(j + 1 .. n)
    BY <1>1, <1>3, FS_Interval
  <2>2. \A i \in j + 1 .. n : g[i] = f[i]
    BY <1>3, <1>4
  <2> QED
    BY <2>1, <2>2, SumOfSame
<1>5. ASSUME \A i \in j + 1 .. n : f[i + 1] = t[i].gap
      PROVE  SumFunctionOnSet(g, j + 1 .. n) = SumFunctionOnSet(f, j + 2 .. n + 1)
  <2>1. j + 1 \in Int /\ n \in Int /\ (j + 1) + 1 = j + 2
    BY <1>1, <1>3
  <2>2. \A i \in j + 1 .. n : g[i] = f[i + 1] /\ g[i] \in Nat
    BY <1>3, <1>5
  <2>3. SumFunctionOnSet(g, j + 1 .. n) = SumFunctionOnSet(f, (j + 1) + 1 .. n + 1)
    BY <2>1, <2>2, SumShifted
  <2> QED
    BY <2>1, <2>3
<1> QED
  BY <1>2, <1>4, <1>5 DEF n

\* What a sample adds to the span and to the gaps of those that stay, whether the oldest
\* leaves or not.
LEMMA RecordedGaps ==
  ASSUME NEW t \in Seq(Samples), Len(t) <= MEMORY_WINDOW_SAMPLES, NEW used \in Nat,
         since \in 0 .. Missed, NEW j \in 1 .. Len(Recorded(t, used))
  PROVE  LET r == Recorded(t, used)
         IN  \/ /\ j = Len(r)
             \/ \E k \in 1 .. Len(t) :
                  /\ GapsFrom(r, j) = GapsFrom(t, k) + since
                  /\ SpanFrom(r, j) = SpanFrom(t, k) + REFRESH_TICK
                  /\ Unbroken(r, j) => Unbroken(t, k) /\ since # Missed
<1> DEFINE new == [used |-> used, gap |-> since]
           longer == Append(t, new)
           kept == IF Len(longer) > MEMORY_WINDOW_SAMPLES THEN Tail(longer) ELSE longer
           r == Recorded(t, used)
           o == IF Len(longer) > MEMORY_WINDOW_SAMPLES THEN 1 ELSE 0
<1>1. new \in Samples /\ new.gap = since
  BY DEF Samples
<1> HIDE DEF new
<1>2. /\ longer \in Seq(Samples) /\ Len(longer) = Len(t) + 1 /\ Len(t) \in Nat
      /\ \A i \in 1 .. Len(t) : longer[i] = t[i]
      /\ longer[Len(t) + 1] = new
  BY <1>1, AppendProperties, LenProperties
<1>3. r = [kept EXCEPT ![1].gap = 0]
  BY DEF Recorded, new
<1> HIDE DEF longer
<1>4. longer # <<>>
  BY <1>2, EmptySeq
<1>5. /\ Tail(longer) \in Seq(Samples) /\ Len(Tail(longer)) = Len(longer) - 1
      /\ \A i \in 1 .. Len(Tail(longer)) : Tail(longer)[i] = longer[i + 1]
  BY <1>2, <1>4, HeadTailProperties
<1>6. /\ kept \in Seq(Samples) /\ Len(kept) = Len(t) + 1 - o /\ Len(kept) >= 1
      /\ o \in {0, 1}
      /\ \A i \in 1 .. Len(kept) : kept[i] = longer[i + o]
  BY <1>2, <1>5, Windows
<1> HIDE DEF kept, o
<1>7. /\ DOMAIN r = 1 .. Len(kept) /\ Len(r) = Len(kept) /\ r \in Seq(Samples)
      /\ \A i \in 2 .. Len(kept) : r[i] = kept[i]
  <2>1. DOMAIN kept = 1 .. Len(kept) /\ Len(kept) \in Nat
    BY <1>6, LenProperties
  <2>2. DOMAIN r = DOMAIN kept /\ \A i \in 2 .. Len(kept) : r[i] = kept[i]
    BY <1>3, <2>1
  <2>3. r \in Seq(Samples)
    BY RecordedWindow
  <2> HIDE DEF r
  <2> QED
    BY <2>1, <2>2, <2>3, LenProperties
<1> HIDE DEF r
<1>8. j \in Nat /\ j >= 1 /\ j <= Len(r) /\ Len(r) = Len(t) + 1 - o
  BY <1>2, <1>6, <1>7 DEF r
<1> SUFFICES ASSUME j # Len(r)
             PROVE  \E k \in 1 .. Len(t) :
                      /\ GapsFrom(r, j) = GapsFrom(t, k) + since
                      /\ SpanFrom(r, j) = SpanFrom(t, k) + REFRESH_TICK
                      /\ Unbroken(r, j) => Unbroken(t, k) /\ since # Missed
  BY DEF r
<1> DEFINE k == j + o
<1>9. k \in 1 .. Len(t) /\ k \in Nat
  BY <1>2, <1>6, <1>8
<1>10. \A i \in j + 1 .. Len(r) : r[i] = longer[i + o] /\ i + o \in k + 1 .. Len(t) + 1
  BY <1>2, <1>6, <1>7, <1>8
<1>11. SpanFrom(r, j) = SpanFrom(t, k) + REFRESH_TICK
  <2> DEFINE d == Len(t) - k
  <2>1. d \in Nat /\ Len(r) - j = d + 1
    BY <1>2, <1>6, <1>8, <1>9
  <2>2. ASSUME NEW a \in Nat, NEW b \in Nat PROVE (a + 1) * b = a * b + b
    OBVIOUS
  <2> HIDE DEF d
  <2>3. (d + 1) * REFRESH_TICK = d * REFRESH_TICK + REFRESH_TICK
    BY <2>1, <2>2, TimeTypes
  <2> QED
    BY <2>1, <2>3 DEF SpanFrom, d
<1>12. Unbroken(r, j) => Unbroken(t, k) /\ since # Missed
  <2> SUFFICES ASSUME Unbroken(r, j) PROVE Unbroken(t, k) /\ since # Missed
    OBVIOUS
  <2>1. \A i \in k + 1 .. Len(t) + 1 : longer[i].gap # Missed
    <3> SUFFICES ASSUME NEW i \in k + 1 .. Len(t) + 1 PROVE longer[i].gap # Missed
      OBVIOUS
    <3>1. i - o \in j + 1 .. Len(r) /\ (i - o) + o = i
      BY <1>2, <1>6, <1>8, <1>9
    <3> QED
      BY <1>10, <3>1 DEF Unbroken
  <2>2. Len(t) + 1 \in k + 1 .. Len(t) + 1
    BY <1>2, <1>9
  <2>3. longer[Len(t) + 1].gap = since
    BY <1>1, <1>2
  <2>4. \A i \in k + 1 .. Len(t) : i \in k + 1 .. Len(t) + 1 /\ longer[i] = t[i]
    BY <1>2, <1>9
  <2> QED
    BY <2>1, <2>2, <2>3, <2>4 DEF Unbroken
<1>13. GapsFrom(r, j) = GapsFrom(t, k) + since
  <2> DEFINE f == GapsOf(longer)
             n == Len(t) + 1
  <2>1. \A i \in k + 1 .. n : f[i] = longer[i].gap /\ f[i] \in Nat
    <3>1. k \in 1 .. Len(longer) /\ Len(longer) = n
      BY <1>2, <1>9
    <3>2. \A i \in k + 1 .. Len(longer) :
            GapsOf(longer)[i] = longer[i].gap /\ longer[i].gap \in 0 .. Missed
      BY <1>2, <3>1, GapsType
    <3>3. 0 .. Missed \subseteq Nat
      BY TimeTypes
    <3> QED
      BY <3>1, <3>2, <3>3
  <2>2. f[n] = since
    BY <1>1, <1>2, <1>9, <2>1
  <2>3. SumFunctionOnSet(f, k + 1 .. n) = SumFunctionOnSet(f, k + 1 .. n - 1) + f[n]
    <3>1. k + 1 \in Int /\ n \in Int /\ k + 1 <= n
      BY <1>2, <1>9
    <3> HIDE DEF f, n
    <3> QED
      BY <2>1, <3>1, SumToLast
  <2>4. SumFunctionOnSet(f, k + 1 .. n - 1) = GapsFrom(t, k)
    <3>1. n - 1 = Len(t)
      BY <1>2
    <3>2. \A i \in k + 1 .. Len(t) : f[i] = t[i].gap
      BY <1>2, <1>9, <2>1
    <3> HIDE DEF f, n, k
    <3> QED
      BY <1>9, <3>1, <3>2, GapsMoved
  <2>5. GapsFrom(r, j) = SumFunctionOnSet(f, k + 1 .. n)
    <3>1. \A i \in j + 1 .. Len(r) : f[i + o] = r[i].gap
      BY <1>10, <2>1
    <3>2. r \in Seq(Samples) /\ j \in 1 .. Len(r)
      BY <1>7 DEF r
    <3>3. CASE o = 0
      <4>1. Len(r) = n /\ k = j
        BY <1>2, <1>8, <1>9, <3>3
      <4>2. \A i \in j + 1 .. Len(r) : f[i] = r[i].gap
        BY <1>8, <3>1, <3>3
      <4> HIDE DEF f, n, k
      <4> QED
        BY <3>2, <4>1, <4>2, GapsMoved
    <3>4. CASE o = 1
      <4>1. Len(r) + 1 = n /\ k + 1 = j + 2
        BY <1>2, <1>8, <1>9, <3>4
      <4>2. \A i \in j + 1 .. Len(r) : f[i + 1] = r[i].gap
        BY <3>1, <3>4
      <4> HIDE DEF f, n, k
      <4> QED
        BY <3>2, <4>1, <4>2, GapsMoved
    <3> QED
      BY <1>6, <3>3, <3>4
  <2> QED
    BY <2>2, <2>3, <2>4, <2>5
<1> HIDE DEF k
<1> QED
  BY <1>9, <1>11, <1>12, <1>13

\* What a refresh leaves of the window and the time since its last sample.
LEMMA RefreshLeaves ==
  ASSUME HistoryInv, ReadingInv', NEW manual \in BOOLEAN, NEW t \in Seq(Samples),
         Len(t) <= MEMORY_WINDOW_SAMPLES, Refresh(manual, t)
  PROVE  /\ gauge' # NotStarted
         /\ \/ window' = t /\ since' = IF manual THEN since ELSE Missed
            \/ /\ window' = t /\ since' = since
               /\ ~(auto_refresh_enabled' /\ (~manual \/ t = <<>>))
            \/ /\ auto_refresh_enabled' /\ (~manual \/ t = <<>>)
               /\ \E used \in Nat : window' = Recorded(t, used)
               /\ since' = 0
<1>1. CASE reading'[Dropdown] = Failed
  <2>1. window' = t /\ gauge' = Placeholder /\ since' = IF manual THEN since ELSE Missed
    BY <1>1 DEF Refresh
  <2>2. Placeholder # NotStarted
    <3>1. Placeholder.trend # NotStarted.trend
      BY DEF Placeholder, NotStarted
    <3> QED
      BY <3>1
  <2> QED
    BY <2>1, <2>2
<1>2. CASE reading'[Dropdown] # Failed
  <2> DEFINE used == reading'[Dropdown].used
             records == auto_refresh_enabled' /\ Advances(manual, t)
             w == window'
             trend == Classify(w, used)
  <2>1. used \in Nat
    BY <1>2, SampleOfRefresh
  <2>2. /\ window' = IF records THEN Recorded(t, used) ELSE t
        /\ gauge' = [used |-> used, trend |-> trend]
        /\ since' = IF records THEN 0 ELSE since
    BY <1>2 DEF Refresh, RecordsFirst
  <2>3. records <=> auto_refresh_enabled' /\ (~manual \/ t = <<>>)
    BY DEF Advances
  <2>4. since \in 0 .. Missed
    BY DEF HistoryInv, HistoryTypeOK
  <2> HIDE DEF used, records
  <2>5. w \in Seq(Samples)
    BY <2>1, <2>2, <2>4, RecordedWindow
  <2> HIDE DEF w
  <2>6. trend \in MemoryTrend
    BY <2>1, <2>5, Classified
  <2> HIDE DEF trend
  <2>7. gauge' # NotStarted
    <3>1. gauge'.trend \in MemoryTrend /\ NotStarted.trend \notin MemoryTrend
      BY <2>2, <2>6 DEF NotStarted, MemoryTrend
    <3> QED
      BY <3>1
  <2> QED
    BY <2>1, <2>2, <2>3, <2>7
<1> QED
  BY <1>1, <1>2

\* A window of one sample spans nothing.
LEMMA FirstRecorded ==
  ASSUME NEW t, t = <<>>, NEW used \in Nat, since \in 0 .. Missed, NEW left \in 0 .. Late
  PROVE  SpansHold(Recorded(t, used), 0, left)
<1> DEFINE r == Recorded(t, used)
<1>1. t \in Seq(Samples) /\ Len(t) = 0 /\ Len(t) <= MEMORY_WINDOW_SAMPLES
  BY EmptySeq, Windows
<1>2. r \in Seq(Samples)
  BY <1>1, RecordedWindow
<1>3. ASSUME NEW j \in 1 .. Len(r)
      PROVE  GapsFrom(r, j) = 0 /\ SpanFrom(r, j) = 0
  <2>1. j = Len(r)
    <3>1. ~\E k \in 1 .. Len(t) : TRUE
      BY <1>1
    <3> QED
      BY <1>1, <3>1, RecordedGaps
  <2> HIDE DEF r
  <2> QED
    BY <1>2, <2>1, GapsType
<1> HIDE DEF r
<1>4. Missed # 0 /\ Late \in Nat /\ TOLERANCE \in Nat /\ left \in Nat /\ left <= Late
  BY TimeTypes
<1>5. SpansHold(r, 0, left)
  BY <1>2, <1>3, <1>4 DEF SpansHold
<1> QED
  BY <1>5 DEF r

\* The timer's sample: the wait for it becomes a gap, and a tick is added to the next.
LEMMA NextRecorded ==
  ASSUME NEW t \in Seq(Samples), Len(t) <= MEMORY_WINDOW_SAMPLES, NEW used \in Nat,
         since \in 0 .. Missed, NEW left \in 0 .. TOLERANCE, SpansHold(t, since, left)
  PROVE  SpansHold(Recorded(t, used), 0, left + REFRESH_TICK)
<1> DEFINE r == Recorded(t, used)
<1> SUFFICES ASSUME NEW j \in 1 .. Len(r)
             PROVE  /\ SpanFrom(r, j) <= GapsFrom(r, j) + (0 + (left + REFRESH_TICK))
                    /\ Unbroken(r, j) =>
                         /\ GapsFrom(r, j) <= SpanFrom(r, j) + TOLERANCE
                         /\ GapsFrom(r, j) + 0 + (left + REFRESH_TICK) <= SpanFrom(r, j) + Late
  BY TimeTypes DEF SpansHold
<1>1. r \in Seq(Samples)
  BY RecordedWindow
<1>2. /\ left \in Nat /\ left <= TOLERANCE /\ Missed = Late + 2
      /\ Late = REFRESH_TICK + TOLERANCE /\ REFRESH_TICK \in Nat /\ TOLERANCE \in Nat
      /\ since \in Nat
  BY TimeTypes
<1>3. CASE j = Len(r)
  <2>1. GapsFrom(r, j) = 0 /\ SpanFrom(r, j) = 0
    <3> HIDE DEF r
    <3> QED
      BY <1>1, <1>3, GapsType
  <2> HIDE DEF r
  <2> QED
    BY <1>2, <2>1
<1>4. CASE j # Len(r)
  <2>1. PICK k \in 1 .. Len(t) :
          /\ GapsFrom(r, j) = GapsFrom(t, k) + since
          /\ SpanFrom(r, j) = SpanFrom(t, k) + REFRESH_TICK
          /\ Unbroken(r, j) => Unbroken(t, k) /\ since # Missed
    BY <1>4, RecordedGaps
  <2> HIDE DEF r
  <2> DEFINE gaps == GapsFrom(t, k)
             span == SpanFrom(t, k)
  <2>2. gaps \in Nat /\ span \in Nat
    BY GapsType
  <2>3. /\ span <= gaps + IF since = Missed THEN Late ELSE since + left
        /\ Unbroken(t, k) =>
             /\ gaps <= span + TOLERANCE
             /\ since # Missed => gaps + since + left <= span + Late
    BY DEF SpansHold
  <2>4. GapsFrom(r, j) = gaps + since /\ SpanFrom(r, j) = span + REFRESH_TICK
    BY <2>1
  <2> HIDE DEF gaps, span
  <2>5. SpanFrom(r, j) <= GapsFrom(r, j) + (0 + (left + REFRESH_TICK))
    BY <1>2, <2>2, <2>3, <2>4
  <2>6. ASSUME Unbroken(r, j)
        PROVE  /\ GapsFrom(r, j) <= SpanFrom(r, j) + TOLERANCE
               /\ GapsFrom(r, j) + 0 + (left + REFRESH_TICK) <= SpanFrom(r, j) + Late
    <3>1. gaps + since + left <= span + Late
      BY <2>1, <2>3, <2>6
    <3> QED
      BY <1>2, <2>2, <2>4, <3>1
  <2> QED
    BY <2>5, <2>6
<1> QED
  BY <1>3, <1>4

\* No window, nothing to span.
LEMMA NoneHolds == ASSUME NEW t, t = <<>>, NEW waited, NEW left PROVE SpansHold(t, waited, left)
<1>1. Len(t) = 0
  BY EmptySeq
<1>2. 1 .. Len(t) = {}
  BY <1>1
<1> QED
  BY <1>2 DEF SpansHold

\* A refresh by hand of an empty window starts one at most.
LEMMA StartKeepsInv ==
  ASSUME HistoryInv, HistoryInv', NEW t, t = <<>>, Refresh(TRUE, t),
         auto_refresh_enabled' => due' \in 0 .. Late,
         ~auto_refresh_enabled' => due' = NotArmed
  PROVE  CaptionInv'
<1>1. t \in Seq(Samples) /\ Len(t) = 0 /\ Len(t) <= MEMORY_WINDOW_SAMPLES
  BY EmptySeq, Windows
<1>2. ReadingInv' /\ auto_refresh_enabled' \in BOOLEAN /\ since \in 0 .. Missed
  BY DEF HistoryInv, HistoryTypeOK
<1>3. /\ gauge' # NotStarted
      /\ \/ window' = t
         \/ /\ auto_refresh_enabled' /\ since' = 0
            /\ \E used \in Nat : window' = Recorded(t, used)
  BY <1>1, <1>2, RefreshLeaves
<1>4. CASE window' = t
  <2>1. SpansHold(window', since', due')
    BY <1>4, NoneHolds
  <2>2. TimerRuns' /\ OldestHasNone'
    BY <1>3, <1>4, TimeTypes DEF TimerRuns, OldestHasNone
  <2> QED
    BY <2>1, <2>2 DEF CaptionInv, SpansHold
<1>5. ASSUME auto_refresh_enabled', since' = 0, NEW used \in Nat, window' = Recorded(t, used)
      PROVE  CaptionInv'
  <2>1. SpansHold(Recorded(t, used), 0, due')
    BY <1>2, <1>5, FirstRecorded
  <2>2. SpansHold(window', since', due')
    BY <1>5, <2>1
  <2>3. OldestHasNone'
    BY <1>1, <1>2, <1>5, RecordedWindow DEF OldestHasNone
  <2>4. TimerRuns'
    BY <1>3, <1>5, TimeTypes DEF TimerRuns
  <2> QED
    BY <2>2, <2>3, <2>4 DEF CaptionInv, SpansHold
<1> QED
  BY <1>3, <1>4, <1>5

\* The wait for a sample that is lost is one of a tick and the tolerance at most.
LEMMA LostHolds ==
  ASSUME TimerRuns, window \in Seq(Samples), since \in 0 .. Missed, due \in 0 .. NotArmed,
         SpansHold(window, since, due), NEW left
  PROVE  SpansHold(window, Missed, left)
<1> SUFFICES ASSUME NEW j \in 1 .. Len(window)
             PROVE  /\ SpanFrom(window, j) <= GapsFrom(window, j) + Late
                    /\ Unbroken(window, j) =>
                         GapsFrom(window, j) <= SpanFrom(window, j) + TOLERANCE
  BY DEF SpansHold
<1>1. window # <<>>
  BY EmptySeq
<1>2. since # Missed => since + due <= Late
  BY <1>1 DEF TimerRuns
<1> DEFINE gaps == GapsFrom(window, j)
           span == SpanFrom(window, j)
<1>3. gaps \in Nat /\ span \in Nat /\ Late \in Nat
  BY GapsType, TimeTypes
<1>4. /\ span <= gaps + IF since = Missed THEN Late ELSE since + due
      /\ Unbroken(window, j) => gaps <= span + TOLERANCE
  BY DEF SpansHold
<1> HIDE DEF gaps, span
<1>5. span <= gaps + Late
  BY <1>2, <1>3, <1>4, TimeTypes
<1> QED
  BY <1>4, <1>5 DEF gaps, span

\* The timer's refresh.
LEMMA TickKeepsCaption == ASSUME CaptionInv, HistoryInv', Tick PROVE CaptionInv'
<1>1. /\ due <= TOLERANCE /\ due' = due + REFRESH_TICK
      /\ auto_refresh_enabled' = auto_refresh_enabled /\ Refresh(FALSE, window)
  BY DEF Tick
<1>2. /\ due \in 0 .. NotArmed /\ since \in 0 .. Missed /\ auto_refresh_enabled \in BOOLEAN
      /\ window \in Seq(Samples) /\ Len(window) <= MEMORY_WINDOW_SAMPLES
      /\ HistoryInv /\ ReadingInv'
  BY DEF CaptionInv, HistoryInv, HistoryTypeOK, Samples
<1>3. /\ REFRESH_TICK \in Nat /\ TOLERANCE \in Nat /\ Late = REFRESH_TICK + TOLERANCE
      /\ NotArmed = Late + 1 /\ Missed = Late + 2
  BY TimeTypes
<1>4. gauge # NotStarted /\ auto_refresh_enabled
  BY <1>1, <1>2, <1>3 DEF CaptionInv, TimerRuns
<1>5. due \in 0 .. TOLERANCE /\ due' \in 0 .. Late
  BY <1>1, <1>2, <1>3
<1>6. /\ gauge' # NotStarted
      /\ \/ window' = window /\ since' = Missed
         \/ since' = 0 /\ \E used \in Nat : window' = Recorded(window, used)
  BY <1>1, <1>2, <1>4, RefreshLeaves
<1>7. SpansHold(window, since, due) /\ OldestHasNone
  BY DEF CaptionInv
<1>8. CASE window' = window /\ since' = Missed
  <2>1. SpansHold(window, Missed, due')
    BY <1>2, <1>4, <1>7, LostHolds DEF CaptionInv
  <2>2. SpansHold(window', since', due')
    BY <1>8, <2>1
  <2>3. TimerRuns' /\ OldestHasNone'
    BY <1>1, <1>3, <1>4, <1>5, <1>6, <1>7, <1>8 DEF TimerRuns, OldestHasNone
  <2> QED
    BY <2>2, <2>3 DEF CaptionInv, SpansHold
<1>9. ASSUME since' = 0, NEW used \in Nat, window' = Recorded(window, used)
      PROVE  CaptionInv'
  <2>1. SpansHold(Recorded(window, used), 0, due + REFRESH_TICK)
    BY <1>2, <1>5, <1>7, NextRecorded
  <2>2. SpansHold(window', since', due')
    BY <1>1, <1>9, <2>1
  <2>3. OldestHasNone'
    BY <1>2, <1>9, RecordedWindow DEF OldestHasNone
  <2>4. TimerRuns'
    BY <1>1, <1>3, <1>4, <1>5, <1>6, <1>9 DEF TimerRuns
  <2> QED
    BY <2>2, <2>3, <2>4 DEF CaptionInv, SpansHold
<1> QED
  BY <1>6, <1>8, <1>9

\* Every event: a refresh by hand in between is not in the window, and the time that
\* passes is taken from the wait.
LEMMA CaptionKeepsInv == CaptionInv /\ [HistoryNext]_allVars => CaptionInv'
<1> SUFFICES ASSUME CaptionInv, [HistoryNext]_allVars PROVE CaptionInv'
  OBVIOUS
<1>1. HistoryInv /\ HistoryInv'
  BY HistoryKeepsInv DEF CaptionInv
<1>2. /\ due \in 0 .. NotArmed /\ since \in 0 .. Missed /\ auto_refresh_enabled \in BOOLEAN
      /\ window \in Seq(Samples) /\ Len(window) <= MEMORY_WINDOW_SAMPLES
      /\ ReadingInv' /\ auto_refresh_enabled' \in BOOLEAN
  BY <1>1 DEF HistoryInv, HistoryTypeOK, Samples
<1>3. /\ REFRESH_TICK \in Nat /\ TOLERANCE \in Nat /\ Late = REFRESH_TICK + TOLERANCE
      /\ Late \in Nat /\ NotArmed = Late + 1 /\ LongGap = Late + 1 /\ Missed = Late + 2
  BY TimeTypes
<1>4. TimerRuns /\ OldestHasNone /\ SpansHold(window, since, due)
  BY DEF CaptionInv
<1>5. /\ auto_refresh_enabled' => Armed \in 0 .. Late
      /\ ~auto_refresh_enabled' => Armed = NotArmed
  BY <1>2, <1>3 DEF Armed
<1>6. CASE Startup
  BY <1>1, <1>4, <1>5, <1>6, StartKeepsInv DEF Startup, TimerRuns
<1>7. CASE Tick
  BY <1>1, <1>7, TickKeepsCaption
<1>8. CASE ToggleAutoRefresh
  BY <1>1, <1>5, <1>8, StartKeepsInv DEF ToggleAutoRefresh, Cleared
<1>9. CASE ManualRefresh
  <2>1. /\ gauge # NotStarted /\ auto_refresh_enabled' = auto_refresh_enabled
        /\ due' = due /\ Refresh(TRUE, window)
    BY <1>9 DEF ManualRefresh
  <2>2. /\ auto_refresh_enabled' => due' \in 0 .. Late
        /\ ~auto_refresh_enabled' => due' = NotArmed
    BY <1>2, <1>3, <1>4, <2>1 DEF TimerRuns
  <2>3. CASE window = <<>>
    BY <1>1, <2>1, <2>2, <2>3, StartKeepsInv
  <2>4. CASE window # <<>>
    <3>1. window' = window /\ since' = since /\ gauge' # NotStarted
      BY <1>1, <1>2, <2>1, <2>4, RefreshLeaves
    <3>2. TimerRuns' /\ OldestHasNone' /\ SpansHold(window', since', due')
      BY <1>4, <2>1, <3>1 DEF TimerRuns, OldestHasNone
    <3> QED
      BY <1>1, <3>2 DEF CaptionInv, SpansHold
  <2> QED
    BY <2>3, <2>4
<1>10. CASE TimePasses
  <2>1. /\ gauge # NotStarted /\ due # 0
        /\ due' = (IF due = NotArmed THEN due ELSE due - 1)
        /\ since' = (IF since < LongGap THEN since + 1 ELSE since)
        /\ auto_refresh_enabled' = auto_refresh_enabled /\ window' = window /\ gauge' = gauge
    BY <1>10 DEF TimePasses
  <2>2. CASE window = <<>>
    <3>1. SpansHold(window', since', due')
      BY <2>1, <2>2, NoneHolds
    <3>2. TimerRuns' /\ OldestHasNone'
      BY <1>2, <1>3, <1>4, <2>1, <2>2 DEF TimerRuns, OldestHasNone
    <3> QED
      BY <1>1, <3>1, <3>2 DEF CaptionInv, SpansHold
  <2>3. CASE window # <<>>
    <3>1. auto_refresh_enabled /\ due <= Late /\ (since # Missed => since + due <= Late)
      BY <1>4, <2>1, <2>3 DEF TimerRuns
    <3>2. \/ since = Missed /\ since' = Missed
          \/ since # Missed /\ since' # Missed /\ since' + due' = since + due
      BY <1>2, <1>3, <2>1, <3>1
    <3>3. due' <= Late /\ due' = due - 1
      BY <1>2, <1>3, <2>1, <3>1
    <3>4. TimerRuns' /\ OldestHasNone'
      BY <1>4, <2>1, <2>3, <3>1, <3>2, <3>3 DEF TimerRuns, OldestHasNone
    <3>5. SpansHold(window, since', due')
      <4> SUFFICES ASSUME NEW j \in 1 .. Len(window)
                   PROVE  /\ SpanFrom(window, j)
                               <= GapsFrom(window, j) + IF since' = Missed THEN Late ELSE since' + due'
                          /\ Unbroken(window, j) =>
                               /\ GapsFrom(window, j) <= SpanFrom(window, j) + TOLERANCE
                               /\ since' # Missed =>
                                    GapsFrom(window, j) + since' + due'
                                      <= SpanFrom(window, j) + Late
        BY DEF SpansHold
      <4> DEFINE gaps == GapsFrom(window, j)
                 span == SpanFrom(window, j)
      <4>1. gaps \in Nat /\ span \in Nat
        BY <1>2, GapsType
      <4>2. /\ span <= gaps + IF since = Missed THEN Late ELSE since + due
            /\ Unbroken(window, j) =>
                 /\ gaps <= span + TOLERANCE
                 /\ since # Missed => gaps + since + due <= span + Late
        BY <1>4 DEF SpansHold
      <4>3. since' \in Int /\ due' \in Int /\ since \in Int /\ due \in Int
        BY <1>2, <1>3, <2>1, <3>3
      <4> HIDE DEF gaps, span
      <4>4. /\ span <= gaps + IF since' = Missed THEN Late ELSE since' + due'
            /\ Unbroken(window, j) =>
                 /\ gaps <= span + TOLERANCE
                 /\ since' # Missed => gaps + since' + due' <= span + Late
        <5>1. CASE since = Missed /\ since' = Missed
          BY <4>2, <5>1
        <5>2. CASE since # Missed /\ since' # Missed /\ since' + due' = since + due
          <6> DEFINE s1 == since'
                     d1 == due'
          <6>1. s1 \in Int /\ d1 \in Int /\ s1 + d1 = since + due
            BY <4>3, <5>2
          <6> HIDE DEF s1, d1
          <6>2. gaps + s1 + d1 = gaps + since + due
            BY <4>1, <4>3, <6>1
          <6>3. since' + due' = since + due /\ gaps + since' + due' = gaps + since + due
            BY <6>1, <6>2 DEF s1, d1
          <6> QED
            BY <4>2, <5>2, <6>3
        <5> QED
          BY <3>2, <5>1, <5>2
      <4> QED
        BY <4>4 DEF gaps, span
    <3>6. SpansHold(window', since', due')
      BY <2>1, <3>5
    <3> QED
      BY <1>1, <3>4, <3>6 DEF CaptionInv, SpansHold
  <2> QED
    BY <2>2, <2>3
<1>11. CASE Sleep
  <2>1. since' = Missed /\ UNCHANGED <<auto_refresh_enabled, due, window, gauge>>
    BY <1>11 DEF Sleep
  <2>2. SpansHold(window, Missed, due)
    BY <1>2, <1>4, LostHolds
  <2>3. SpansHold(window', since', due')
    BY <2>1, <2>2
  <2>4. TimerRuns' /\ OldestHasNone'
    BY <1>4, <2>1 DEF TimerRuns, OldestHasNone
  <2> QED
    BY <1>1, <2>3, <2>4 DEF CaptionInv, SpansHold
<1>12. CASE UNCHANGED allVars
  <2>1. UNCHANGED <<auto_refresh_enabled, due, window, gauge, since>>
    BY <1>12 DEF allVars, history
  <2>2. TimerRuns' /\ OldestHasNone' /\ SpansHold(window', since', due')
    BY <1>4, <2>1 DEF TimerRuns, OldestHasNone
  <2> QED
    BY <1>1, <2>2 DEF CaptionInv, SpansHold
<1> QED
  BY <1>6, <1>7, <1>8, <1>9, <1>10, <1>11, <1>12 DEF HistoryNext

\* Nothing is spanned before the first sample.
LEMMA InitCaption == HistoryInit => CaptionInv
<1> SUFFICES ASSUME HistoryInit PROVE CaptionInv
  OBVIOUS
<1>1. window = <<>> /\ gauge = NotStarted /\ due = NotArmed
  BY DEF HistoryInit
<1>2. HistoryInv /\ SpansHold(window, since, due)
  BY <1>1, InitHistory, NoneHolds
<1> QED
  BY <1>1, <1>2 DEF CaptionInv, TimerRuns, OldestHasNone

\* What the caption says is what holds of the oldest sample.
LEMMA CaptionSpans == CaptionInv => CaptionSpansItsSamples
<1> SUFFICES ASSUME CaptionInv, Len(window) >= 2
             PROVE  /\ Span(window) <= Covered + REFRESH_TICK + TOLERANCE
                    /\ (\A i \in DOMAIN window : window[i].gap # Missed) =>
                         Covered <= Span(window) + TOLERANCE
  BY DEF CaptionSpansItsSamples
<1>1. /\ window \in Seq(Samples) /\ Len(window) \in Nat /\ DOMAIN window = 1 .. Len(window)
      /\ since \in 0 .. Missed /\ due \in 0 .. NotArmed
  BY LenProperties DEF CaptionInv, HistoryInv, HistoryTypeOK, Samples
<1>2. TimerRuns /\ SpansHold(window, since, due) /\ window[1].gap = 0
  BY <1>1, EmptySeq DEF CaptionInv, OldestHasNone
<1> DEFINE g == GapsOf(window)
           n == Len(window)
<1>3. SpanFrom(window, 1) = Span(window)
  BY DEF SpanFrom, Span
<1>4. Covered = GapsFrom(window, 1)
  <2>1. \A i \in 1 .. n : g[i] = window[i].gap /\ g[i] \in Nat
    <3>1. 1 \in 1 .. Len(window)
      BY <1>1
    <3>2. \A i \in 1 + 1 .. Len(window) : g[i] = window[i].gap /\ window[i].gap \in 0 .. Missed
      BY <1>1, <3>1, GapsType
    <3>3. g[1] = window[1].gap
      BY <1>1, <3>1 DEF GapsOf
    <3>4. Missed \in Nat
      BY TimeTypes
    <3> HIDE DEF g
    <3>5. ASSUME NEW i \in 1 .. n PROVE g[i] = window[i].gap /\ g[i] \in Nat
      BY <1>1, <1>2, <3>2, <3>3, <3>4
    <3> QED
      BY <3>5
  <2>2. Covered = SumFunctionOnSet(g, 1 .. n)
    <3>1. DOMAIN g = 1 .. n
      BY <1>1 DEF GapsOf
    <3>2. Covered = SumFunctionOnSet(g, DOMAIN g)
      BY DEF Covered, GapsOf, SumFunction, SumFunctionOnSet, FoldFunction
    <3> QED
      BY <3>1, <3>2
  <2>3. GapsFrom(window, 1) = SumFunctionOnSet(g, (1 .. n) \ {1})
    <3>1. 1 + 1 .. n = (1 .. n) \ {1}
      BY <1>1
    <3> QED
      BY <3>1 DEF GapsFrom
  <2>4. n \in Nat /\ n >= 2
    BY <1>1
  <2> HIDE DEF g, n
  <2>5. 1 \in 1 .. n /\ IsFiniteSet(1 .. n) /\ IsFiniteSet((1 .. n) \ {1})
    <3>1. 1 \in 1 .. n /\ IsFiniteSet(1 .. n)
      BY <2>4, FS_Interval
    <3> QED
      BY <3>1, FS_RemoveElement
  <2>6. SumFunctionOnSet(g, 1 .. n) = g[1] + SumFunctionOnSet(g, (1 .. n) \ {1})
    <3>1. \A i \in 1 .. n : g[i] \in Nat
      BY <2>1
    <3>2. IsFiniteSet(1 .. n) /\ 1 \in 1 .. n
      BY <2>5
    <3> DEFINE all == 1 .. n
    <3> HIDE DEF all
    <3>3. (\A i \in all : g[i] \in Nat) /\ IsFiniteSet(all) /\ 1 \in all
      BY <3>1, <3>2 DEF all
    <3>4. SumFunctionOnSet(g, all) = g[1] + SumFunctionOnSet(g, all \ {1})
      BY <3>3, SumLessOne
    <3> QED
      BY <3>4 DEF all
  <2>7. SumFunctionOnSet(g, (1 .. n) \ {1}) \in Nat
    <3>1. \A i \in (1 .. n) \ {1} : g[i] \in Nat
      BY <2>1
    <3> QED
      BY <2>5, <3>1, SumType
  <2>8. g[1] = 0
    BY <1>2, <2>1, <2>5
  <2> QED
    BY <2>2, <2>3, <2>6, <2>7, <2>8
<1> DEFINE gaps == GapsFrom(window, 1)
           span == SpanFrom(window, 1)
<1>5. 1 \in 1 .. Len(window) /\ gaps \in Nat /\ span \in Nat
  <2>1. 1 \in 1 .. Len(window)
    BY <1>1
  <2>2. GapsFrom(window, 1) \in Nat /\ SpanFrom(window, 1) \in Nat
    BY <1>1, <2>1, GapsType
  <2> QED
    BY <2>1, <2>2
<1>6. SpansHold(window, Missed, 0)
  BY <1>1, <1>2, LostHolds
<1>7. /\ span <= gaps + Late
      /\ Unbroken(window, 1) => gaps <= span + TOLERANCE
  BY <1>5, <1>6 DEF SpansHold
<1>8. (\A i \in DOMAIN window : window[i].gap # Missed) => Unbroken(window, 1)
  BY <1>1 DEF Unbroken
<1>9. gaps = Covered /\ span = Span(window)
  BY <1>3, <1>4
<1> HIDE DEF gaps, span
<1>10. Span(window) <= Covered + REFRESH_TICK + TOLERANCE
  <2>1. span <= gaps + REFRESH_TICK + TOLERANCE
    BY <1>5, <1>7, TimeTypes
  <2> QED
    BY <1>9, <2>1
<1>11. Unbroken(window, 1) => Covered <= Span(window) + TOLERANCE
  BY <1>7, <1>9
<1> QED
  BY <1>8, <1>10, <1>11

\* The caption names the span its samples cover, for any length of the window, any tick
\* and any tolerance below it: a sample that was late shortens the wait for the next, so
\* delays do not add up (engine.rs:399-404, 530-540; format.rs:61-76).
THEOREM CaptionIsTrue == HistorySpec => []CaptionSpansItsSamples
BY InitCaption, CaptionKeepsInv, CaptionSpans, PTL DEF HistorySpec

--------------------------------------------------------------------------------
(* The cells of the map *)

\* A sum over the places, written out.
LEMMA SixTerms ==
  ASSUME NEW f, \A i \in Places : f[i] \in Nat
  PROVE  SumFunctionOnSet(f, Places) = f[1] + f[2] + f[3] + f[4] + f[5] + f[6]
<1>1. \A i \in 1 .. 6 : f[i] \in Nat
  BY DEF Places
<1> DEFINE sum(n) == SumFunctionOnSet(f, 1 .. n)
<1>2. ASSUME NEW n \in 1 .. 6 PROVE sum(n) = sum(n - 1) + f[n]
  <2>1. 1 <= n /\ \A i \in 1 .. n : f[i] \in Nat
    BY <1>1
  <2> QED
    BY <2>1, SumToLast
<1>3. sum(0) = 0
  <2>1. 1 .. 0 = {}
    OBVIOUS
  <2> QED
    BY <2>1, SumOfNone
<1> HIDE DEF sum
<1>4. sum(1) = f[1]
  BY <1>1, <1>2, <1>3
<1>5. sum(2) = f[1] + f[2]
  BY <1>1, <1>2, <1>4
<1>6. sum(3) = f[1] + f[2] + f[3]
  BY <1>1, <1>2, <1>5
<1>7. sum(4) = f[1] + f[2] + f[3] + f[4]
  BY <1>1, <1>2, <1>6
<1>8. sum(5) = f[1] + f[2] + f[3] + f[4] + f[5]
  BY <1>1, <1>2, <1>7
<1>9. sum(6) = f[1] + f[2] + f[3] + f[4] + f[5] + f[6]
  BY <1>1, <1>2, <1>8
<1> QED
  BY <1>9 DEF sum, Places

\* Those ahead of one place, by remainder and then by map order, and its rank.
Fore(r, i) == {j \in Places \ {i} : r[j] > r[i] \/ (r[j] = r[i] /\ j < i)}

Rank(r, i) == Cardinality(Fore(r, i)) + 1

\* There are six places.
LEMMA SixPlaces ==
  /\ IsFiniteSet(Places) /\ Cardinality(Places) = 6
  /\ \A i \in Places : i \in Nat /\ Cardinality(Places \ {i}) = 5
<1>1. IsFiniteSet(Places) /\ Cardinality(Places) = 6
  <2>1. 1 \in Int /\ 6 \in Int
    OBVIOUS
  <2>2. IsFiniteSet(1 .. 6) /\ Cardinality(1 .. 6) = IF 1 > 6 THEN 0 ELSE 6 - 1 + 1
    BY <2>1, FS_Interval
  <2> QED
    BY <2>2 DEF Places
<1> QED
  BY <1>1, FS_RemoveElement DEF Places

\* Who is ahead ranks before.
LEMMA AheadRanksBefore ==
  ASSUME NEW r \in [Places -> Nat], NEW i \in Places, NEW j \in Fore(r, i)
  PROVE  Rank(r, j) < Rank(r, i)
<1>1. Fore(r, j) \subseteq Fore(r, i) /\ j \notin Fore(r, j)
  <2>1. /\ j \in Places /\ j # i /\ \A k \in Places : k \in Nat /\ r[k] \in Nat
        /\ r[j] > r[i] \/ (r[j] = r[i] /\ j < i)
    BY SixPlaces DEF Fore
  <2>2. ASSUME NEW k \in Places \ {j}, r[k] > r[j] \/ (r[k] = r[j] /\ k < j)
        PROVE  k # i /\ (r[k] > r[i] \/ (r[k] = r[i] /\ k < i))
    BY <2>1, <2>2
  <2> QED
    BY <2>2 DEF Fore
<1>2. IsFiniteSet(Fore(r, i)) /\ Fore(r, j) \in SUBSET Fore(r, i) /\ Fore(r, j) # Fore(r, i)
  BY <1>1, SixPlaces, FS_Subset DEF Fore
<1>3. /\ Cardinality(Fore(r, j)) <= Cardinality(Fore(r, i))
      /\ Cardinality(Fore(r, j)) # Cardinality(Fore(r, i))
      /\ Cardinality(Fore(r, j)) \in Nat /\ Cardinality(Fore(r, i)) \in Nat
  BY <1>2, FS_Subset, FS_CardinalityType
<1> QED
  BY <1>3 DEF Rank

\* Each place has a rank of its own.
LEMMA RanksArePlaces ==
  ASSUME NEW r \in [Places -> Nat]
  PROVE  /\ \A i \in Places : Rank(r, i) \in Places
         /\ \A i, j \in Places : Rank(r, i) = Rank(r, j) => i = j
         /\ \A k \in Places : \E i \in Places : Rank(r, i) = k
<1>1. ASSUME NEW i \in Places PROVE Rank(r, i) \in Places
  <2>1. Fore(r, i) \in SUBSET (Places \ {i}) /\ IsFiniteSet(Places \ {i})
    BY SixPlaces, FS_Subset DEF Fore
  <2>2. Cardinality(Fore(r, i)) <= 5 /\ Cardinality(Fore(r, i)) \in Nat
    BY <2>1, SixPlaces, FS_Subset, FS_CardinalityType
  <2> QED
    BY <2>2 DEF Rank, Places
<1>2. ASSUME NEW i \in Places, NEW j \in Places, Rank(r, i) = Rank(r, j) PROVE i = j
  <2>1. Rank(r, i) \in Nat
    BY <1>1, SixPlaces
  <2>2. j \notin Fore(r, i) /\ i \notin Fore(r, j)
    BY <1>2, <2>1, AheadRanksBefore
  <2>3. r[i] \in Nat /\ r[j] \in Nat /\ i \in Nat /\ j \in Nat
    BY SixPlaces
  <2> QED
    BY <2>2, <2>3 DEF Fore
<1> DEFINE p == [i \in Places |-> Rank(r, i)]
<1>3. p \in Injection(Places, Places)
  BY <1>1, <1>2 DEF Injection, IsInjective
<1>4. p \in Surjection(Places, Places)
  <2> HIDE DEF p
  <2> QED
    BY <1>3, SixPlaces, FS_Injection
<1>5. \A k \in Places : \E i \in Places : p[i] = k
  <2> HIDE DEF p
  <2> QED
    BY <1>4 DEF Surjection
<1> QED
  BY <1>1, <1>2, <1>5

\* So as many places as asked for, up to six, are the first of them.
LEMMA FirstOnes ==
  ASSUME NEW r \in [Places -> Nat], NEW n \in Nat, n <= 6
  PROVE  SumFunctionOnSet([i \in Places |-> IF Rank(r, i) <= n THEN 1 ELSE 0], Places) = n
<1> DEFINE f == [k \in Places |-> IF k <= n THEN 1 ELSE 0]
           g == [i \in Places |-> IF Rank(r, i) <= n THEN 1 ELSE 0]
           h == [i \in Places |-> Rank(r, i)]
<1>1. /\ h \in [Places -> Places]
      /\ \A x, y \in Places : h[x] = h[y] => x = y
      /\ \A z \in Places : \E x \in Places : h[x] = z
      /\ \A x \in Places : g[x] \in Nat /\ f[h[x]] = g[x]
  BY RanksArePlaces
<1>2. \A i \in Places : f[i] \in Nat
  OBVIOUS
<1>3. f[1] + f[2] + f[3] + f[4] + f[5] + f[6] = n
  BY DEF Places
<1> HIDE DEF f, g, h
<1>4. SumFunctionOnSet(f, Places) = SumFunctionOnSet(g, Places)
  BY <1>1, SixPlaces, SumRenamed
<1>5. SumFunctionOnSet(f, Places) = n
  BY <1>2, <1>3, SixTerms
<1> QED
  BY <1>4, <1>5 DEF g

\* Quotient and remainder.
LEMMA Division ==
  ASSUME NEW n \in Nat, NEW d \in Nat, d > 0
  PROVE  /\ n \div d \in Nat /\ n % d \in Nat /\ n % d < d
         /\ n = d * (n \div d) + (n % d)
OBVIOUS

\* Products over six terms.
LEMMA SixProducts ==
  ASSUME NEW c \in Nat, NEW u \in Nat, NEW v \in Nat, NEW w \in Nat,
         NEW x \in Nat, NEW y \in Nat, NEW z \in Nat
  PROVE  c * (u + v + w + x + y + z) = c * u + c * v + c * w + c * x + c * y + c * z
OBVIOUS

\* What comes out even.
LEMMA WholeMultiple ==
  ASSUME NEW s \in Nat, s > 0, NEW c \in Nat, NEW q \in Nat, NEW r \in Nat,
         s * c = s * q + r, r < 6 * s
  PROVE  c - q \in Nat /\ c - q < 6 /\ s * (c - q) = r
<1>1. s * (c - q) = r
  OBVIOUS
<1>2. ASSUME c < q PROVE FALSE
  <2>1. q - c \in Nat /\ q - c >= 1
    BY <1>2
  <2>2. s * (q - c) >= s
    BY <2>1
  <2>3. s * (q - c) = 0 - r
    OBVIOUS
  <2> QED
    BY <2>2, <2>3
<1>3. ASSUME c - q >= 6 PROVE FALSE
  <2>1. s * (c - q) >= s * 6
    BY <1>3
  <2> QED
    BY <1>1, <2>1
<1> QED
  BY <1>1, <1>2, <1>3

\* Fewer than n remainders below s do not make n times s.
LEMMA TooFewRemainders ==
  ASSUME NEW s \in Nat, s > 0, NEW k \in Nat, NEW n \in Nat, k < n, NEW r \in Nat,
         r <= (s - 1) * k
  PROVE  s * n # r
<1>1. n >= k + 1
  OBVIOUS
<1>2. s * n >= s * (k + 1)
  BY <1>1
<1>3. s * (k + 1) = s * k + s /\ (s - 1) * k = s * k - k
  OBVIOUS
<1> QED
  BY <1>2, <1>3

\* A share within one cell.
LEMMA WithinACell ==
  ASSUME NEW s \in Nat, s > 0, NEW q \in Nat, NEW r \in Nat, r < s, NEW x \in Nat,
         x = s * q + r, NEW e \in {0, 1}, e = 1 => r > 0
  PROVE  (q + e) * s < x + s /\ x < (q + e) * s + s
<1>1. CASE e = 0
  BY <1>1
<1>2. CASE e = 1
  <2>1. (q + 1) * s = s * q + s
    OBVIOUS
  <2> QED
    BY <1>2, <2>1
<1> QED
  BY <1>1, <1>2

\* A place that is among the first as many as there are cells left has a remainder: those
\* before it alone could not have left so many.
LEMMA FirstHaveRemainders ==
  ASSUME NEW s \in Nat, s > 0, NEW r \in [Places -> Nat], \A i \in Places : r[i] < s,
         NEW n \in Nat, s * n = SumFunctionOnSet(r, Places),
         NEW i \in Places, Rank(r, i) <= n, n <= 6
  PROVE  r[i] > 0
<1> SUFFICES ASSUME r[i] = 0 PROVE FALSE
  OBVIOUS
<1> DEFINE k == Rank(r, i) - 1
           d == [j \in Places |-> IF Rank(r, j) <= k THEN 1 ELSE 0]
<1>1. Rank(r, i) \in 1 .. 6 /\ k \in Nat /\ k < n /\ k <= 6
  <2>1. Rank(r, i) \in 1 .. 6
    BY RanksArePlaces DEF Places
  <2> QED
    BY <2>1
<1>2. \A j \in Places : r[j] <= (s - 1) * d[j]
  <2> SUFFICES ASSUME NEW j \in Places PROVE r[j] <= (s - 1) * d[j]
    OBVIOUS
  <2>1. CASE r[j] = 0
    <3>1. d[j] \in {0, 1} /\ (s - 1) * 0 = 0 /\ (s - 1) * 1 = s - 1
      OBVIOUS
    <3> QED
      BY <2>1, <3>1
  <2>2. CASE r[j] # 0
    <3>1. j \in Fore(r, i)
      BY <2>2 DEF Fore
    <3>2. Rank(r, j) \in Nat /\ Rank(r, j) < Rank(r, i)
      BY <3>1, AheadRanksBefore, RanksArePlaces DEF Places
    <3>3. d[j] = 1
      BY <1>1, <3>2
    <3> QED
      BY <3>3
  <2> QED
    BY <2>1, <2>2
<1>3. SumFunctionOnSet(d, Places) = k
  <2> HIDE DEF k
  <2> QED
    BY <1>1, FirstOnes
<1>4. \A j \in Places : d[j] \in Nat
  OBVIOUS
<1>5. {1, 2, 3, 4, 5, 6} \subseteq Places
  BY DEF Places
<1> HIDE DEF k, d
<1>6. d[1] + d[2] + d[3] + d[4] + d[5] + d[6] = k
  BY <1>3, <1>4, SixTerms
<1> DEFINE c == s - 1
<1>7. c \in Nat /\ \A j \in Places : c * d[j] \in Nat
  BY <1>4
<1> HIDE DEF c
<1>8. c * k = c * d[1] + c * d[2] + c * d[3] + c * d[4] + c * d[5] + c * d[6]
  BY <1>4, <1>5, <1>6, <1>7, SixProducts
<1>9. \A j \in Places : r[j] <= c * d[j]
  BY <1>2 DEF c
<1>10. r[1] + r[2] + r[3] + r[4] + r[5] + r[6] <= c * k
  BY <1>5, <1>7, <1>8, <1>9
<1>11. SumFunctionOnSet(r, Places) \in Nat /\ SumFunctionOnSet(r, Places) <= c * k
  <2>1. SumFunctionOnSet(r, Places) = r[1] + r[2] + r[3] + r[4] + r[5] + r[6]
    BY SixTerms
  <2> QED
    BY <1>5, <1>10, <2>1
<1> QED
  BY <1>1, <1>11, TooFewRemainders DEF c

\* The map of any bytes: all of its cells, and no category a whole cell off.
LEMMA CellsOfParts ==
  ASSUME NEW parts \in [Places -> Nat]
  PROVE  LET sum == SumOf(parts, Places)
             cells == AllocateCells(parts)
         IN  /\ SumOf(cells, Places) = MAP_CELLS
             /\ sum > 0 => \A i \in Places :
                  /\ cells[i] * sum < parts[i] * MAP_CELLS + sum
                  /\ parts[i] * MAP_CELLS < cells[i] * sum + sum
<1> DEFINE s == SumFunctionOnSet(parts, Places)
           c == MAP_CELLS
           x == [i \in Places |-> parts[i] * c]
           q == [i \in Places |-> x[i] \div s]
           r == [i \in Places |-> x[i] % s]
           n == c - SumFunctionOnSet(q, Places)
           e == [i \in Places |-> IF Rank(r, i) <= n THEN 1 ELSE 0]
           cells == AllocateCells(parts)
<1>1. c \in Nat /\ {1, 2, 3, 4, 5, 6} \subseteq Places
  BY ConstantsAssumption DEF Places
<1>2. s = parts[1] + parts[2] + parts[3] + parts[4] + parts[5] + parts[6] /\ s \in Nat
  <2>1. \A i \in Places : parts[i] \in Nat
    OBVIOUS
  <2>2. s = parts[1] + parts[2] + parts[3] + parts[4] + parts[5] + parts[6]
    BY <2>1, SixTerms
  <2> QED
    BY <1>1, <2>1, <2>2
<1>3. CASE s = 0
  <2> DEFINE free == [i \in Places |-> IF Category[i] = "Free" THEN c ELSE 0]
  <2>1. cells = free
    BY <1>3 DEF AllocateCells, SumOf
  <2>2. free[1] = 0 /\ free[2] = 0 /\ free[3] = 0 /\ free[4] = 0 /\ free[5] = 0 /\ free[6] = c
    BY <1>1 DEF Category
  <2>3. \A i \in Places : free[i] \in Nat
    BY <1>1
  <2> HIDE DEF free
  <2>4. SumFunctionOnSet(free, Places) = c
    BY <1>1, <2>2, <2>3, SixTerms
  <2> HIDE DEF s, cells
  <2> QED
    BY <1>3, <2>1, <2>4 DEF SumOf, s, cells
<1>4. CASE s > 0
  <2>1. ASSUME NEW i \in Places
        PROVE  /\ x[i] \in Nat /\ x[i] = parts[i] * c
               /\ q[i] \in Nat /\ r[i] \in Nat /\ r[i] < s /\ x[i] = s * q[i] + r[i]
    <3> DEFINE y == parts[i] * c
    <3>1. y \in Nat
      BY <1>1
    <3>2. x[i] = y /\ q[i] = y \div s /\ r[i] = y % s
      OBVIOUS
    <3> HIDE DEF y, x, q, r, s
    <3>3. s \in Nat /\ s > 0
      BY <1>2, <1>4
    <3>4. /\ y \div s \in Nat /\ y % s \in Nat /\ y % s < s
          /\ y = s * (y \div s) + (y % s)
      BY <3>1, <3>3, Division
    <3>5. x[i] = parts[i] * c
      BY <3>2 DEF y
    <3> QED
      BY <3>1, <3>2, <3>4, <3>5
  <2> DEFINE Q == SumFunctionOnSet(q, Places)
             R == SumFunctionOnSet(r, Places)
  <2>2. \A i \in Places : s * q[i] \in Nat
    <3> SUFFICES ASSUME NEW i \in Places PROVE s * q[i] \in Nat
      OBVIOUS
    <3>1. q[i] \in Nat /\ s \in Nat
      BY <1>2, <2>1
    <3> HIDE DEF q, s
    <3> QED
      BY <3>1
  <2>3. cells = [i \in Places |-> q[i] + e[i]]
    <3>1. \A i \in Places : Fore(r, i) = {j \in Places \ {i} : Ahead(parts, s, j, i)}
      BY DEF Fore, Ahead, Scaled
    <3>2. SumOf(parts, Places) = s
      BY DEF SumOf
    <3>3. \A i \in Places : Cardinality(Fore(r, i)) \in Nat
      BY SixPlaces, FS_Subset, FS_CardinalityType DEF Fore
    <3>4. n \in Int
      <4>1. Q \in Nat
        BY <2>1, SixPlaces, SumType
      <4> QED
        BY <1>1, <4>1
    <3>5. [i \in Places |-> Scaled(parts, i) \div s] = q
      BY DEF Scaled
    <3>6. cells = [i \in Places |->
                     q[i] + IF Cardinality(Fore(r, i)) < n THEN 1 ELSE 0]
      <4>1. cells = Shares(parts, s)
        <5>1. s # 0
          BY <1>2, <1>4
        <5> QED
          BY <3>2, <5>1 DEF AllocateCells
      <4>2. Shares(parts, s) =
              [i \in Places |-> q[i] + IF Cardinality({j \in Places \ {i} : Ahead(parts, s, j, i)})
                                            < MAP_CELLS - SumOf(q, Places) THEN 1 ELSE 0]
        BY <3>5 DEF Shares
      <4>3. MAP_CELLS - SumOf(q, Places) = n
        BY DEF SumOf
      <4> HIDE DEF cells, q, n, r, s
      <4> QED
        BY <3>1, <4>1, <4>2, <4>3
    <3>7. \A i \in Places : Cardinality(Fore(r, i)) < n <=> Rank(r, i) <= n
      BY <3>3, <3>4 DEF Rank
    <3> QED
      BY <3>6, <3>7
  <2>4. r \in [Places -> Nat]
    BY <2>1
  <2>5. /\ Q = q[1] + q[2] + q[3] + q[4] + q[5] + q[6] /\ Q \in Nat
        /\ R = r[1] + r[2] + r[3] + r[4] + r[5] + r[6] /\ R \in Nat
    <3>1. \A i \in Places : q[i] \in Nat /\ r[i] \in Nat
      BY <2>1
    <3> HIDE DEF q, r
    <3> QED
      BY <1>1, <3>1, SixTerms
  <2> HIDE DEF x, q, r, Q, R, n, cells
  <2>6. \A i \in Places : x[i] = c * parts[i]
    BY <1>1, <2>1
  <2>7. s * c = x[1] + x[2] + x[3] + x[4] + x[5] + x[6]
    <3>1. \A i \in Places : parts[i] \in Nat
      OBVIOUS
    <3>2. c * s = c * parts[1] + c * parts[2] + c * parts[3] + c * parts[4] + c * parts[5] + c * parts[6]
      BY <1>1, <1>2, <3>1, SixProducts
    <3>3. s * c = c * s
      BY <1>1, <1>2
    <3> QED
      BY <1>1, <2>6, <3>2, <3>3
  <2>8. s * Q = s * q[1] + s * q[2] + s * q[3] + s * q[4] + s * q[5] + s * q[6]
    BY <1>1, <1>2, <2>1, <2>5, SixProducts
  <2>9. s * c = s * Q + R /\ R < 6 * s
    BY <1>1, <1>2, <2>1, <2>2, <2>5, <2>7, <2>8
  <2>10. n = c - Q
    BY DEF n, Q
  <2> HIDE DEF s, c
  <2>11. n \in Nat /\ n < 6 /\ s * n = R
    BY <1>1, <1>2, <1>4, <2>5, <2>9, <2>10, WholeMultiple
  <2>12. \A i \in Places : e[i] \in {0, 1} /\ (e[i] = 1 => r[i] > 0)
    <3> SUFFICES ASSUME NEW i \in Places PROVE e[i] \in {0, 1} /\ (e[i] = 1 => r[i] > 0)
      OBVIOUS
    <3>1. e[i] = 1 => Rank(r, i) <= n
      OBVIOUS
    <3>2. n <= 6
      BY <2>11
    <3> QED
      BY <1>2, <1>4, <2>1, <2>4, <2>11, <3>1, <3>2, FirstHaveRemainders DEF R
  <2>13. SumFunctionOnSet(e, Places) = n
    <3>1. n <= 6
      BY <2>11
    <3> QED
      BY <2>4, <2>11, <3>1, FirstOnes
  <2> HIDE DEF e
  <2>14. n = e[1] + e[2] + e[3] + e[4] + e[5] + e[6]
    BY <2>12, <2>13, SixTerms
  <2>15. \A i \in Places : cells[i] = q[i] + e[i] /\ cells[i] \in Nat
    BY <2>1, <2>3, <2>12
  <2>16. SumFunctionOnSet(cells, Places) = c
    <3>1. SumFunctionOnSet(cells, Places)
            = cells[1] + cells[2] + cells[3] + cells[4] + cells[5] + cells[6]
      BY <2>15, SixTerms
    <3> QED
      BY <1>1, <2>1, <2>5, <2>10, <2>12, <2>14, <2>15, <3>1
  <2>17. ASSUME NEW i \in Places
         PROVE  cells[i] * s < parts[i] * c + s /\ parts[i] * c < cells[i] * s + s
    <3>1. /\ q[i] \in Nat /\ r[i] \in Nat /\ r[i] < s /\ x[i] \in Nat
          /\ x[i] = s * q[i] + r[i] /\ e[i] \in {0, 1} /\ (e[i] = 1 => r[i] > 0)
      BY <2>1, <2>12
    <3>2. (q[i] + e[i]) * s < x[i] + s /\ x[i] < (q[i] + e[i]) * s + s
      BY <1>2, <1>4, <3>1, WithinACell
    <3> QED
      BY <2>1, <2>15, <3>2
  <2> QED
    BY <2>16, <2>17 DEF SumOf, s, c, cells
<1> QED
  BY <1>2, <1>3, <1>4

\* The bytes of a reading's categories.
LEMMA PartTypes ==
  ASSUME TypeOK, NEW s \in Samplers, Fresh(s)
  PROVE  MemoryParts(reading[s]) \in [Places -> Nat]
<1> DEFINE m == reading[s]
<1>1. /\ m.total \in Nat /\ m.used \in Nat /\ m.app \in Nat /\ m.wired \in Nat
      /\ m.compressed \in Nat /\ m.cached \in Nat /\ m.free \in Nat
  BY DEF TypeOK, Bytes
<1> HIDE DEF m
<1>2. Other(m) \in Nat
  BY <1>1 DEF Other, Minus
<1> DEFINE other == IF ShareOfTotal(Other(m), m.total) >= 1 THEN Other(m) ELSE 0
<1>3. other \in Nat
  BY <1>2
<1> HIDE DEF other
<1>4. <<m.app, m.wired, m.compressed, other, m.cached, m.free>> \in [Places -> Nat]
  BY <1>1, <1>3 DEF Places
<1> QED
  BY <1>4 DEF MemoryParts, other, m

\* The map draws all of its cells whatever the reading, and no category is drawn a
\* whole cell over or under its share of the bytes: what the remainders leave is
\* fewer cells than there are categories with a remainder (format.rs:357-383).
THEOREM CellsFollow == HistorySpec => []CellsFollowShares
<1>1. HistoryInv => CellsFollowShares
  <2> SUFFICES ASSUME TypeOK, NEW s \in Samplers, Fresh(s)
               PROVE  LET parts == MemoryParts(reading[s])
                          sum == SumOf(parts, Places)
                          cells == AllocateCells(parts)
                      IN  /\ SumOf(cells, Places) = MAP_CELLS
                          /\ sum > 0 => \A i \in Places :
                               /\ cells[i] * sum < parts[i] * MAP_CELLS + sum
                               /\ parts[i] * MAP_CELLS < cells[i] * sum + sum
    BY DEF HistoryInv, ReadingInv, CellsFollowShares
  <2>1. MemoryParts(reading[s]) \in [Places -> Nat]
    BY PartTypes
  <2> QED
    BY <2>1, CellsOfParts
<1> QED
  BY <1>1, HistoryInvariance, PTL

================================================================================
