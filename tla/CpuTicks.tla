-------------------------------- MODULE CpuTicks --------------------------------
(***************************************************************************)
(* The CPU sampler of rami, src/cpu.rs: per-processor tick counters of 32  *)
(* bits that wrap, the baseline the tracker keeps between samples, and the *)
(* percentages of the ticks in between.                                    *)
(*                                                                         *)
(* elapsed is what really happened since the baseline; the code never sees *)
(* it.  A counter is taken to move less than once around between two       *)
(* samples: at 100 ticks a second 2^32 of them are 497 days.               *)
(*                                                                         *)
(* Left out: the copying of the kernel's buffer, and the rounding error of *)
(* 64-bit floats.                                                          *)
(***************************************************************************)
EXTENDS Naturals, Sequences, FiniteSetsExt

CONSTANTS
  MaxProcessors,  \* the kernel reports at most so many
  Width,          \* 2^32: the counters count modulo Width
  Moves,          \* by processor: the counters that move
  Failures        \* {"read"} when the kernel call may fail

VARIABLES
  processors,   \* how many the kernel reports
  ticks,        \* their counters
  previous,     \* CpuTracker.previous; empty when it is None
  snapshot,     \* what the last sample returned
  elapsed,      \* the ticks since the baseline, by processor and counter
  good_reads    \* readings since a reset or a failed one, up to two

vars == <<processors, ticks, previous, snapshot, elapsed, good_reads>>

Counter == {"user", "system", "idle", "nice"}
Ticks == [Counter -> 0 .. Width - 1]
Still == [c \in Counter |-> 0]

NoSnapshot == [state |-> "Loading", user |-> 0, system |-> 0]
Failed == [state |-> "Unavailable", user |-> 0, system |-> 0]

ASSUME ConstantsAssumption ==
  /\ MaxProcessors \in Nat
  /\ Width \in Nat \ {0}
  /\ Moves \in [1 .. MaxProcessors -> SUBSET Counter]

--------------------------------------------------------------------------------
(* snapshot_from_ticks *)

SaturatingSub(a, b) == IF a > b THEN a - b ELSE 0

WrappingSub(a, b) == (a + Width - b) % Width

\* What the counters moved between two readings of the same processors.
Delta(before, after, counters) ==
  SumFunction([at \in (DOMAIN before) \X counters |->
                 WrappingSub(after[at[1]][at[2]], before[at[1]][at[2]])])

\* Rounded to the nearest percent.
Percent(part, total) == IF total = 0 THEN 0 ELSE (200 * part + total) \div (2 * total)

\* The counters that make the user percentage.
UserCounters == {"user", "nice"}

SnapshotFromTicks(before, after) ==
  LET user == Delta(before, after, UserCounters)
      system == Delta(before, after, {"system"})
      total == user + system + Delta(before, after, {"idle"})
  IN  IF Len(before) # Len(after) \/ after = <<>> THEN NoSnapshot
      ELSE [state |-> "Available", user |-> Percent(user, total),
            system |-> Percent(system, total)]

--------------------------------------------------------------------------------
(* The tracker and the sampler *)

Reading == SubSeq(ticks, 1, processors)

Since(baseline) ==
  /\ previous' = baseline
  /\ elapsed' = [p \in 1 .. MaxProcessors |-> Still]

Init ==
  /\ processors \in 0 .. MaxProcessors
  /\ ticks = [p \in 1 .. MaxProcessors |-> Still]
  /\ previous = <<>>
  /\ snapshot = NoSnapshot
  /\ elapsed = [p \in 1 .. MaxProcessors |-> Still]
  /\ good_reads = 0

SampleSucceeds ==
  /\ snapshot' = SnapshotFromTicks(previous, Reading)
  /\ Since(Reading)
  /\ good_reads' = IF good_reads < 2 THEN good_reads + 1 ELSE 2

KeepBaseline == UNCHANGED <<previous, elapsed>>

DropBaseline == Since(<<>>)

\* A failed read costs the baseline: the next delta would span the gap.
SampleFails ==
  /\ snapshot' = Failed
  /\ DropBaseline
  /\ good_reads' = 0

Sample ==
  /\ SampleSucceeds \/ ("read" \in Failures /\ SampleFails)
  /\ UNCHANGED <<processors, ticks>>

\* The engine resets the sampler when the menu closes and on every Show CPU toggle.
Reset ==
  /\ DropBaseline
  /\ good_reads' = 0
  /\ UNCHANGED <<processors, ticks, snapshot>>

--------------------------------------------------------------------------------
(* The kernel *)

Advance(p, c) ==
  /\ c \in Moves[p] /\ elapsed[p][c] < Width - 1
  /\ ticks' = [ticks EXCEPT ![p][c] = (@ + 1) % Width]
  /\ elapsed' = [elapsed EXCEPT ![p][c] = @ + 1]
  /\ UNCHANGED <<processors, previous, snapshot, good_reads>>

\* From now on it reports another number of processors.
Replug ==
  /\ \E n \in (0 .. MaxProcessors) \ {processors} : processors' = n
  /\ UNCHANGED <<ticks, previous, snapshot, elapsed, good_reads>>

Next ==
  \/ Sample \/ Reset \/ Replug
  \/ \E p \in 1 .. MaxProcessors, c \in Counter : Advance(p, c)

Spec == Init /\ [][Next]_vars

--------------------------------------------------------------------------------
(* Properties *)

TypeOK ==
  /\ processors \in 0 .. MaxProcessors
  /\ ticks \in [1 .. MaxProcessors -> Ticks]
  /\ previous \in Seq(Ticks) /\ Len(previous) <= MaxProcessors
  /\ snapshot \in [state: {"Loading", "Available", "Unavailable"},
                   user: 0 .. 100, system: 0 .. 100]
  /\ elapsed \in [1 .. MaxProcessors -> Ticks]
  /\ good_reads \in 0 .. 2

\* No reading spans a reset or a failed read: percentages come from two readings in
\* a row (cpu.rs:39-50, 68-76).
SpansNoGap == snapshot.state = "Available" /\ good_reads > 0 => good_reads = 2

Passed(counters) ==
  SumFunction([at \in (1 .. processors) \X counters |-> elapsed[at[1]][at[2]]])

\* The percentages are those of the ticks that really passed since the baseline, on
\* all the processors reported and through any wrap of a counter; nice time is user
\* time (cpu.rs:150-209).
MeasuresWhatElapsed ==
  [][SampleSucceeds /\ snapshot'.state = "Available" =>
       /\ snapshot'.user = Percent(Passed({"user", "nice"}), Passed(Counter))
       /\ snapshot'.system = Percent(Passed({"system"}), Passed(Counter))]_vars

================================================================================
