----------------------------- MODULE MemoryReading -----------------------------
(***************************************************************************)
(* The memory samplers of rami (src/memory.rs) and what the dropdown makes *)
(* of a sample (src/model.rs, src/format.rs): the accounting of pages, the *)
(* cadence of the swap reading, and the cells of the memory map.           *)
(*                                                                         *)
(* The main thread has a sampler, the share thread another; each counts    *)
(* its own samples.  The kernel's counts may be any of the Mac's at each   *)
(* sample, and each of its calls may fail.                                 *)
(*                                                                         *)
(* Bytes are counted in pages.  Left out: the validation of reply sizes,   *)
(* which is one more way to fail, RAMI_FORCE_PRESSURE, and the rounding    *)
(* error of 64-bit floats.                                                 *)
(***************************************************************************)
EXTENDS Naturals, FiniteSets, FiniteSetsExt

CONSTANTS
  Samplers,
  Macs,                         \* by Mac, the page counts its kernel may report
  Swap,                         \* the values of vm.swapusage
  Levels,                       \* the values of kern.memorystatus_level
  SWAP_REFRESH_INTERVAL_TICKS,
  MAP_CELLS,
  Failures                      \* the kernel calls that may fail

VARIABLES
  mac,         \* the Mac rami runs on
  kernel,      \* the page counts read last
  cached,      \* by sampler: cached_swap_used_bytes
  ticks,       \* by sampler: ticks_until_swap_refresh
  reading,     \* by sampler: the last sample
  samples      \* by sampler: good samples since the swap reading, or NeverRead

vars == <<mac, kernel, cached, ticks, reading, samples>>

\* All of the kernel's counts are of pages.  free_count includes the speculative
\* pages, which internal and external also cover; reserved is RAM outside them all.
PageCounts == [internal: Nat, external: Nat, wired: Nat, compressed: Nat, free: Nat,
               inactive: Nat, speculative: Nat, purgeable: Nat, reserved: Nat]

Memsize(k) ==
  k.internal + k.external + k.wired + k.compressed + (k.free - k.speculative) + k.reserved

ASSUME ConstantsAssumption ==
  /\ Macs \subseteq SUBSET PageCounts
  /\ Swap \subseteq Nat
  /\ Levels \subseteq 0 .. 100
  /\ SWAP_REFRESH_INTERVAL_TICKS \in Nat \ {0}
  /\ MAP_CELLS \in Nat \ {0}

\* memory.rs:56-63, 68-73 and 86-94: purgeable pages are internal ones, and the free count
\* bundles the speculative pages in.
ASSUME KernelAssumption ==
  \A m \in Macs : \A k \in m :
    /\ k.purgeable <= k.internal
    /\ k.speculative <= k.free
    /\ k.inactive + k.speculative <= k.internal + k.external

\* hw.memsize is read once, at the start (memory.rs:230-246): it is the Mac's.
ASSUME MemsizeAssumption ==
  \A m \in Macs : \A j, k \in m : Memsize(j) = Memsize(k)

--------------------------------------------------------------------------------
(* snapshot_from_counts *)

Minus(a, b) == IF a > b THEN a - b ELSE 0     \* saturating_sub

AtMost(n, bound) == IF n > bound THEN bound ELSE n

\* Rounded to the nearest percent.
Percent(part, total) ==
  IF total = 0 THEN 0 ELSE AtMost((200 * part + total) \div (2 * total), 100)

BundledFreePages(k) == k.free
FreePages(k) == Minus(k.free, k.speculative)

\* level: kern.memorystatus_level, or 101 when the read failed.
NoLevel == 101

PressurePercent(k, level) ==
  100 - IF level # NoLevel THEN level
        ELSE IF Memsize(k) = 0 THEN 100
        ELSE Percent(k.free + k.inactive + k.purgeable, Memsize(k))

Snapshot(k, swap_used, level) ==
  LET app == Minus(k.internal, k.purgeable)
      used == app + k.wired + k.compressed
  IN  [total |-> Memsize(k), used |-> used, used_percent |-> Percent(used, Memsize(k)),
       pressure_percent |-> PressurePercent(k, level),
       app |-> app, wired |-> k.wired, compressed |-> k.compressed,
       cached |-> k.external + k.purgeable, free |-> FreePages(k), swap |-> swap_used]

Other(m) == Minus(Minus(Minus(m.total, m.used), m.cached), m.free)

--------------------------------------------------------------------------------
(* memory_parts and allocate_cells *)

Category == <<"App", "Wired", "Compressed", "Other", "Cached", "Free">>

\* share_of_total: rounded, half up.
ShareOfTotal(bytes, total) ==
  IF total = 0 THEN 0 ELSE AtMost((100 * bytes + total \div 2) \div total, 100)

\* The bytes of each category, in map order; Other under one percent is not drawn.
MemoryParts(m) ==
  LET other == IF ShareOfTotal(Other(m), m.total) >= 1 THEN Other(m) ELSE 0
  IN  <<m.app, m.wired, m.compressed, other, m.cached, m.free>>

Places == 1 .. 6

SumOf(parts, places) == SumFunctionOnSet(parts, places)

Scaled(parts, i) == parts[i] * MAP_CELLS

\* Who comes first for a left-over cell: the larger remainder, then map order.
Ahead(parts, sum, i, j) ==
  LET rest(p) == Scaled(parts, p) % sum
  IN  rest(i) > rest(j) \/ (rest(i) = rest(j) /\ i < j)

RoundedShares(parts, sum) ==
  [i \in Places |-> (2 * Scaled(parts, i) + sum) \div (2 * sum)]

\* Largest remainder: whole quotas, then one more cell each for those ahead.
Shares(parts, sum) ==
  LET whole == [i \in Places |-> Scaled(parts, i) \div sum]
      missing == MAP_CELLS - SumOf(whole, Places)
      place(i) == Cardinality({j \in Places \ {i} : Ahead(parts, sum, j, i)})
  IN  [i \in Places |-> whole[i] + IF place(i) < missing THEN 1 ELSE 0]

\* How many cells each category gets, in map order.
AllocateCells(parts) ==
  LET sum == SumOf(parts, Places)
  IN  IF sum = 0 THEN [i \in Places |-> IF Category[i] = "Free" THEN MAP_CELLS ELSE 0]
      ELSE Shares(parts, sum)

--------------------------------------------------------------------------------
(* The samplers *)

NeverRead == SWAP_REFRESH_INTERVAL_TICKS
Failed == [swap |-> "failed"]
NoReading == [swap |-> "none"]

Fresh(s) == reading[s] \notin {Failed, NoReading}

Init ==
  /\ mac \in Macs /\ kernel \in mac
  /\ cached = [s \in Samplers |-> 0]
  /\ ticks = [s \in Samplers |-> 0]
  /\ reading = [s \in Samplers |-> NoReading]
  /\ samples = [s \in Samplers |-> NeverRead]

MayFail(call) == IF call \in Failures THEN BOOLEAN ELSE {TRUE}

ReadSwap(s) ==
  /\ \E swap \in Swap : cached' = [cached EXCEPT ![s] = swap]
  /\ samples' = [samples EXCEPT ![s] = 0]

\* An error in a call ends the sample there.
SampleFails(s) ==
  /\ reading' = [reading EXCEPT ![s] = Failed]
  /\ UNCHANGED <<kernel, cached, samples>>

CountedDownFirst(s, read) == SWAP_REFRESH_INTERVAL_TICKS - 1

\* ticks_until_swap_refresh where the swap reading is due: it stays due until a
\* read succeeds.
DueTicks(s, read) == IF read THEN SWAP_REFRESH_INTERVAL_TICKS - 1 ELSE ticks[s]

Sampled(s) ==
  /\ kernel' \in mac
  /\ \E level \in Levels \union IF "level" \in Failures THEN {NoLevel} ELSE {} :
       reading' = [reading EXCEPT ![s] = Snapshot(kernel', cached'[s], level)]

\* The swap reading is due.
SampleWithSwap(s) ==
  /\ ticks[s] = 0
  /\ \E read \in MayFail("swap") :
       /\ ticks' = [ticks EXCEPT ![s] = DueTicks(s, read)]
       /\ IF read THEN ReadSwap(s) /\ Sampled(s) ELSE SampleFails(s)

SampleCached(s) ==
  /\ ticks[s] > 0
  /\ ticks' = [ticks EXCEPT ![s] = ticks[s] - 1]
  /\ samples' = [samples EXCEPT ![s] = AtMost(samples[s] + 1, NeverRead)]
  /\ UNCHANGED cached
  /\ Sampled(s)

Sample(s) ==
  /\ \/ SampleWithSwap(s) \/ SampleCached(s)
     \/ "statistics" \in Failures /\ SampleFails(s) /\ UNCHANGED ticks
  /\ UNCHANGED mac

Next == \E s \in Samplers : Sample(s)

Spec == Init /\ [][Next]_vars

--------------------------------------------------------------------------------
(* Properties *)

Bytes == {"total", "used", "app", "wired", "compressed", "cached", "free", "swap"}

TypeOK ==
  /\ mac \in Macs /\ kernel \in mac
  /\ cached \in [Samplers -> Swap \union {0}]
  /\ ticks \in [Samplers -> 0 .. SWAP_REFRESH_INTERVAL_TICKS - 1]
  /\ \A s \in Samplers : Fresh(s) =>
       /\ \A b \in Bytes : reading[s][b] \in Nat
       /\ reading[s].used_percent \in 0 .. 100
       /\ reading[s].pressure_percent \in 0 .. 100
  /\ samples \in [Samplers -> 0 .. NeverRead]

\* Used, Cached and Free count every page the kernel reports exactly once, so what
\* is left, Other, is the RAM the counts do not cover: no speculative or purgeable
\* page is in two categories (memory.rs:68-94, model.rs:22-31).
EveryPageOnce ==
  LET m == Snapshot(kernel, 0, NoLevel)
  IN  /\ m.used + m.cached + m.free + kernel.reserved = m.total
      /\ Other(m) = kernel.reserved

\* The map always has MAP_CELLS cells, and no category is off its exact share by a
\* whole cell; rounding each share on its own would lose or invent cells
\* (format.rs:357-383).
CellsFollowShares ==
  \A s \in Samplers : Fresh(s) =>
    LET parts == MemoryParts(reading[s])
        sum == SumOf(parts, Places)
        cells == AllocateCells(parts)
        exact(i) == parts[i] * MAP_CELLS
    IN  /\ SumOf(cells, Places) = MAP_CELLS
        /\ sum > 0 => \A i \in Places :
             cells[i] * sum < exact(i) + sum /\ exact(i) < cells[i] * sum + sum

\* A sample never shows swap older than the interval's samples, nor the zero a
\* sampler starts with: a failed swap reading fails its sample and is due again at
\* the next (memory.rs:302-310).
SwapIsRecent ==
  \A s \in Samplers : Fresh(s) => samples[s] < SWAP_REFRESH_INTERVAL_TICKS

================================================================================
