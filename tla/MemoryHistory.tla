----------------------------- MODULE MemoryHistory -----------------------------
(***************************************************************************)
(* The history of rami's own samples: the window of src/trend.rs, which of *)
(* the engine's samples enter it (update_trend in src/engine.rs), the mark *)
(* on the icon, and the caption of the history row (src/format.rs).        *)
(*                                                                         *)
(* The samples are MemoryReading's, of the dropdown's sampler.  They are   *)
(* taken by the repeating timer and by whatever else refreshes; time is in *)
(* fractions of a tick, and the timer may fire up to its tolerance late.   *)
(*                                                                         *)
(* gap and since are history variables: the code keeps no times and takes  *)
(* every sample to be one tick after the one before.                       *)
(***************************************************************************)
EXTENDS MemoryReading, Sequences

CONSTANTS
  Dropdown,               \* the main thread's sampler
  MEMORY_WINDOW_SAMPLES,
  RISING_BYTES,
  RISING_FAST_BYTES,
  REFRESH_TICK,           \* REFRESH_TICK_SECONDS in units of time
  TOLERANCE               \* by how much the timer may be late

VARIABLES
  auto_refresh_enabled,
  due,      \* time left until the timer fires at the latest, or NotArmed
  window,   \* the samples, oldest first, each with the time since the one before
  gauge,    \* the icon: the used bytes and the trend, as last drawn
  since     \* time since the last recorded sample, up to LongGap, or Missed

history == <<auto_refresh_enabled, due, window, gauge, since>>
allVars == <<vars, history>>

ASSUME HistoryAssumption ==
  /\ Dropdown \in Samplers
  /\ MEMORY_WINDOW_SAMPLES \in Nat \ {0}
  /\ RISING_BYTES \in Nat /\ RISING_FAST_BYTES \in Nat
  /\ REFRESH_TICK \in Nat \ {0}
  /\ TOLERANCE \in 0 .. REFRESH_TICK - 1

MemoryTrend == {"Stable", "Rising", "RisingFast"}

NotStarted == [trend |-> "not started"]
Placeholder == [trend |-> "failed"]
NotArmed == REFRESH_TICK + TOLERANCE + 1
LongGap == REFRESH_TICK + TOLERANCE + 1    \* longer than any time between two ticks
Missed == LongGap + 1                      \* a tick's sample failed or the Mac slept

--------------------------------------------------------------------------------
(* MemoryTrendTracker *)

\* A sample is used bytes and, what the code does not know, the time since the one
\* before; the oldest has none before it.
Recorded(t, used) ==
  LET longer == Append(t, [used |-> used, gap |-> since])
      kept == IF Len(longer) > MEMORY_WINDOW_SAMPLES THEN Tail(longer) ELSE longer
  IN  [kept EXCEPT ![1].gap = 0]

ClassifyMemoryTrend(now, oldest) ==
  CASE now >= oldest + RISING_FAST_BYTES -> "RisingFast"
    [] now >= oldest + RISING_BYTES /\ now < oldest + RISING_FAST_BYTES -> "Rising"
    [] OTHER -> "Stable"

ClassifiesFirst(before, after) == before

\* record classifies against what is the oldest sample once the new one is in.
RecordsFirst(before, after) == after

\* The trend of used bytes against the oldest sample.
Classify(t, used) ==
  IF t = <<>> THEN "Stable" ELSE ClassifyMemoryTrend(used, t[1].used)

--------------------------------------------------------------------------------
(* history_caption: the span of time it names.  The range beside it, the least and *)
(* the greatest share of the same samples, is left out.                            *)

Span(t) == (Len(t) - 1) * REFRESH_TICK

--------------------------------------------------------------------------------
(* The engine *)

AdvancesAlways(manual, t) == TRUE

\* Ticks are recorded; another refresh only starts an empty window.
Advances(manual, t) == ~manual \/ t = <<>>

\* The window this refresh begins with is t.
Refresh(manual, t) ==
  /\ Sample(Dropdown)
  /\ IF reading'[Dropdown] = Failed
     THEN /\ window' = t
          /\ gauge' = Placeholder
          /\ since' = IF manual THEN since ELSE Missed
     ELSE LET used == reading'[Dropdown].used
              records == auto_refresh_enabled' /\ Advances(manual, t)
          IN  /\ window' = IF records THEN Recorded(t, used) ELSE t
              /\ gauge' = [used |-> used, trend |-> Classify(RecordsFirst(t, window'), used)]
              /\ since' = IF records THEN 0 ELSE since

Armed == IF auto_refresh_enabled' THEN REFRESH_TICK + TOLERANCE ELSE NotArmed

HistoryInit ==
  /\ Init
  /\ auto_refresh_enabled \in BOOLEAN
  /\ due = NotArmed
  /\ window = <<>> /\ gauge = NotStarted
  /\ since = 0

Startup ==
  /\ gauge = NotStarted
  /\ UNCHANGED auto_refresh_enabled
  /\ Refresh(TRUE, window)
  /\ due' = Armed

\* The timer fires in its tolerance and stays on its schedule.
Tick ==
  /\ due <= TOLERANCE
  /\ due' = due + REFRESH_TICK
  /\ UNCHANGED auto_refresh_enabled
  /\ Refresh(FALSE, window)

\* A menu open or the toggle of a module or the login item.
ManualRefresh ==
  /\ gauge # NotStarted
  /\ UNCHANGED <<auto_refresh_enabled, due>>
  /\ Refresh(TRUE, window)

\* trend_tracker.clear()
Cleared == <<>>

ToggleAutoRefresh ==
  /\ gauge # NotStarted
  /\ auto_refresh_enabled' = ~auto_refresh_enabled
  /\ due' = Armed
  /\ Refresh(TRUE, Cleared)

\* Time passes, but not past a timer that is due.
TimePasses ==
  /\ gauge # NotStarted
  /\ due # 0
  /\ due' = IF due = NotArmed THEN due ELSE due - 1
  /\ since' = IF since < LongGap THEN since + 1 ELSE since
  /\ UNCHANGED <<vars, auto_refresh_enabled, window, gauge>>

\* The Mac sleeps: its clock goes on, its timers do not.
Sleep ==
  /\ gauge # NotStarted
  /\ since' = Missed
  /\ UNCHANGED <<vars, auto_refresh_enabled, due, window, gauge>>

HistoryNext ==
  Startup \/ Tick \/ ManualRefresh \/ ToggleAutoRefresh \/ TimePasses \/ Sleep

HistorySpec == HistoryInit /\ [][HistoryNext]_allVars

--------------------------------------------------------------------------------
(* Properties *)

HistoryTypeOK ==
  /\ TypeOK
  /\ auto_refresh_enabled \in BOOLEAN
  /\ due \in 0 .. NotArmed
  /\ window \in Seq([used: Nat, gap: 0 .. Missed])
  /\ Len(window) <= MEMORY_WINDOW_SAMPLES
  /\ gauge \in {NotStarted, Placeholder} \union [used: Nat, trend: MemoryTrend]
  /\ since \in 0 .. Missed

\* The time the window really covers.
Covered == SumFunction([i \in DOMAIN window |-> window[i].gap])

\* The caption names the span its samples cover: it claims at most a tick too much,
\* when the first sample was taken by hand between two ticks, and too little only where a
\* tick's sample failed or the Mac slept, whatever was opened and toggled meanwhile
\* (engine.rs:399-404, 530-540; format.rs:61-76).
CaptionSpansItsSamples ==
  Len(window) >= 2 =>
    /\ Span(window) <= Covered + REFRESH_TICK + TOLERANCE
    /\ (\A i \in DOMAIN window : window[i].gap # Missed) =>
         Covered <= Span(window) + TOLERANCE

\* The mark on the icon is about the history the dropdown draws: it says rising exactly
\* when the used bytes on the icon are that far above the leftmost sample, and nothing
\* when there is no history, as after Auto-Refresh was turned off (engine.rs:399-407,
\* 491-505, 530-540; trend.rs:38-53).
MarkMatchesHistory ==
  gauge \notin {NotStarted, Placeholder} =>
    CASE gauge.trend = "Stable" ->
           window = <<>> \/ gauge.used < window[1].used + RISING_BYTES
      [] gauge.trend = "Rising" ->
           window # <<>> /\ gauge.used >= window[1].used + RISING_BYTES
      [] gauge.trend = "RisingFast" ->
           window # <<>> /\ gauge.used >= window[1].used + RISING_FAST_BYTES

================================================================================
