----------------------------- MODULE RefreshEngine -----------------------------
(***************************************************************************)
(* The refresh lifecycle of rami: the reducer of src/engine.rs together    *)
(* with what its effects and ports do in src/app.rs, i.e. the three kinds  *)
(* of timer, the worker threads behind ScanRunner and their channels, and  *)
(* the dropdown as last drawn.                                             *)
(*                                                                         *)
(* One action is one callback of the shell: the engine step it dispatches  *)
(* and the effects of that step, which run to completion on the main       *)
(* thread.  Worker threads and AppKit are the environment.                 *)
(*                                                                         *)
(* Left out, because no transition reads it: the launch-at-login status,   *)
(* the text of rows and titles, the byte counts of a snapshot, and the     *)
(* diagnostics copy, which only reads the state.                           *)
(***************************************************************************)
EXTENDS Naturals

CONSTANTS
  Scans,                    \* app-scan worker threads that may be alive at once
  Fetches,                  \* shared-Mac fetch threads that may be alive at once
  Generation,               \* values of the two u64 generation counters
  AppRefreshIntervalTicks,  \* ticks between app scans while the menu is open
  SharedStaleTicks,         \* ticks after which a shared reading is stale
  MemoryWindowSamples,      \* length of the trend window
  MaxReopenTimers,          \* bound: reopen one-shots pending at once
  SharedMacConfigured,      \* sharedMacHost is set
  StoredSettings,           \* the settings the store may hold at launch
  Clickable,                \* the Settings items the user clicks
  Failures                  \* the port calls that may fail

VARIABLES
  started,              \* Startup was dispatched
  on,                   \* the engine's settings, by item
  menu_open,            \* engine: between MenuWillOpen and MenuDidClose
  menu_closing,         \* AppKit: an item was clicked, the menu is going away
  clicked,              \* AppKit: the clicked item whose action is not sent yet
  turned_on,            \* history: the module turned on since the menu was last opened
  apps,                 \* app_memory, its countdown, baseline and scan flags
  scan,                 \* scan workers and the app channel
  shared,               \* the shared Mac's view, its age and fetch flags
  fetch,                \* fetch workers and the shared channel
  last_snapshot,        \* whether the last memory sample succeeded
  last_cpu_state,
  cpu_baseline,         \* CpuTracker.previous is Some
  last_gpu_state,
  trend,                \* number of samples in the trend window
  refresh_timer_armed,  \* the engine's belief about the repeating timer
  refresh_timer,        \* the shell's repeating timer
  drain_timer,          \* the shell's single drain one-shot is pending
  reopen_timers,        \* pending reopen one-shots
  menu_reopen_for,      \* the module the next reopen is for
  shown                 \* the dropdown as last drawn

appkit == <<menu_closing, clicked, turned_on>>
modules == <<apps, scan, shared, fetch, last_cpu_state, cpu_baseline,
             last_gpu_state>>
memory == <<last_snapshot, trend>>
timers == <<refresh_timer_armed, refresh_timer, drain_timer, reopen_timers>>
vars == <<started, on, menu_open, appkit, modules, memory, timers,
          menu_reopen_for, shown>>

--------------------------------------------------------------------------------
(* Vocabulary.  A definition directly before one of the code's, alike but for *)
(* one slip (NotBumped before Bumped), is a bug the properties must notice.   *)

Setting == {"AutoRefresh", "ShowAppUsage", "ShowCpu", "ShowGpu",
            "ShareOverTailscale", "ShowSharedMac", "LaunchAtLogin"}
Persisted == Setting \ {"LaunchAtLogin"}
Module == {"ShowAppUsage", "ShowCpu", "ShowGpu", "ShowSharedMac"}
NoItem == "NoItem"

AppMemorySnapshot == {"Hidden", "Loading", "Unavailable", "Loaded", "LoadedWithDeltas"}
CpuModuleState == {"Loading", "Available", "Unavailable", "Disabled"}
GpuModuleState == {"Available", "Unavailable", "Disabled"}
SharedMac == {"Hidden", "Loading", "Offline", "Reading"}

\* A worker thread: nothing, running, or its answer queued in the channel.
Worker == [stage: {"idle", "running", "ok", "err"}, generation: Generation]
Idle == [stage |-> "idle", generation |-> 0]

AppsState == [memory: AppMemorySnapshot, baseline: BOOLEAN, in_flight: BOOLEAN,
              ticks: 0 .. AppRefreshIntervalTicks - 1, generation: Generation]
SharedState == [view: SharedMac, ticks: 0 .. SharedStaleTicks,
                age: 0 .. SharedStaleTicks, quiet: BOOLEAN, in_flight: BOOLEAN,
                generation: Generation]

Placeholder == [cpu |-> "None", gpu |-> "None", apps |-> "None", shared |-> "None"]

ASSUME ConstantsAssumption ==
  /\ 0 \in Generation
  /\ AppRefreshIntervalTicks \in Nat \ {0}
  /\ SharedStaleTicks \in Nat \ {0}
  /\ MemoryWindowSamples \in Nat \ {0}
  /\ SharedMacConfigured \in BOOLEAN
  /\ StoredSettings \subseteq [Persisted -> BOOLEAN]
  /\ Clickable \subseteq Setting

\* The counters are u64 and wrap: no worker lives through 2^64 bumps, so the
\* successor of a generation is a value no live worker carries.
ASSUME GenerationAssumption ==
  \A S \in {Scans, Fetches} : \A tag \in [S -> Generation], g \in Generation :
    \E next \in Generation : next # g /\ \A w \in S : tag[w] # next

--------------------------------------------------------------------------------
(* Workers and channels *)

Live(workers) == {w \in DOMAIN workers : workers[w].stage # "idle"}

\* The live workers whose answer would still be accepted.
Current(workers, generation) ==
  {w \in Live(workers) : workers[w].generation = generation}

AnyAnswers(workers, generation) ==
  {w \in DOMAIN workers : workers[w].stage \in {"ok", "err"}}

\* Queued answers a drain accepts; every other queued answer it throws away.
Answers(workers, generation) ==
  {w \in Current(workers, generation) : workers[w].stage \in {"ok", "err"}}

\* The workers after a drain emptied the channel.
Polled(workers) ==
  [w \in DOMAIN workers |->
     IF workers[w].stage \in {"ok", "err"} THEN Idle ELSE workers[w]]

NotBumped(generation, workers) == generation

\* wrapping_add(1)
Bumped(generation, workers) ==
  CHOOSE next \in Generation :
    next # generation /\ \A w \in Live(workers) : workers[w].generation # next

\* A thread is spawned for each start; the workers are those after a drain.
Start(workers, w, generation) ==
  [workers EXCEPT ![w] = [stage |-> "running", generation |-> generation]]

Land(workers, w, stage) == [workers EXCEPT ![w].stage = stage]

--------------------------------------------------------------------------------
(* The pure parts of the engine's handlers *)

SharedVisible(settings) == settings["ShowSharedMac"] /\ SharedMacConfigured

Shows(item) ==
  CASE item \in Module \ {"ShowSharedMac"} -> on[item]
    [] item = "ShowSharedMac" -> SharedVisible(on)
    [] OTHER -> FALSE

AppScanDecision(open, manual, ticks) ==
  CASE ~open -> [scan |-> FALSE, ticks |-> ticks]
    [] open /\ (manual \/ ticks = 0) ->
         [scan |-> TRUE, ticks |-> AppRefreshIntervalTicks - 1]
    [] OTHER -> [scan |-> FALSE, ticks |-> ticks - 1]

ClearAppUsageKeepsGeneration(a) ==
  [a EXCEPT !.memory = "Hidden", !.baseline = FALSE, !.in_flight = FALSE]
ClearAppUsageKeepsBaseline(a) ==
  [a EXCEPT !.memory = "Hidden", !.in_flight = FALSE,
            !.generation = Bumped(a.generation, scan)]
ClearAppUsageKeepsInFlight(a) ==
  [a EXCEPT !.memory = "Hidden", !.baseline = FALSE,
            !.generation = Bumped(a.generation, scan)]

ClearAppUsage(a) ==
  [a EXCEPT !.memory = "Hidden", !.baseline = FALSE, !.in_flight = FALSE,
            !.generation = Bumped(a.generation, scan)]

\* fresh: the baseline is at most APP_DELTA_BASELINE_MAX_AGE old.
DrainAppScanResults(a, fresh) ==
  LET answers == Answers(scan, a.generation)
  IN  IF answers = {} THEN a
      ELSE IF \E w \in answers : scan[w].stage = "ok"
      THEN [a EXCEPT !.in_flight = FALSE, !.baseline = TRUE,
              !.memory = IF a.baseline /\ fresh THEN "LoadedWithDeltas" ELSE "Loaded"]
      ELSE [a EXCEPT !.in_flight = FALSE, !.baseline = FALSE, !.memory = "Unavailable"]

DrainSharedFetch(s, visible) ==
  LET answers == Answers(fetch, s.generation)
      done == [s EXCEPT !.in_flight = FALSE]
  IN  IF answers = {} THEN s
      ELSE IF ~visible THEN done
      ELSE IF \E w \in answers : fetch[w].stage = "ok"
      THEN [done EXCEPT !.view = "Reading", !.ticks = 0, !.age = 0, !.quiet = FALSE]
      ELSE [done EXCEPT !.view = "Offline"]

MarkStaleIgnoresAge(s) ==
  IF ~SharedVisible(on) THEN [s EXCEPT !.view = "Hidden"]
  ELSE IF s.view = "Hidden" THEN [s EXCEPT !.view = "Loading"] ELSE s
MarkStaleMissesFirstOpen(s) ==
  IF ~SharedVisible(on) THEN [s EXCEPT !.view = "Hidden"]
  ELSE IF s.ticks >= SharedStaleTicks /\ s.view # "Offline"
  THEN [s EXCEPT !.view = "Loading"] ELSE s

MarkStaleSharedReading(s) ==
  IF ~SharedVisible(on) THEN [s EXCEPT !.view = "Hidden"]
  ELSE IF \/ s.view = "Hidden"
          \/ s.ticks >= SharedStaleTicks /\ s.view # "Offline"
  THEN [s EXCEPT !.view = "Loading"]
  ELSE s

\* One tick period on.  Both counters stop at the only value they are compared
\* with; age counts the periods since the reading whether or not a Tick was delivered
\* in each, and quiet says that in one of them none was.
Older(n) == IF n < SharedStaleTicks THEN n + 1 ELSE n

MenuRender == [cpu |-> last_cpu_state, gpu |-> last_gpu_state,
               apps |-> apps.memory, shared |-> shared.view]

--------------------------------------------------------------------------------
(* Sampling, and the refresh every handler below ends in.  on' and menu_open'  *)
(* are bound by the handler; its other parameters are the state the handler    *)
(* leaves before it calls refresh.                                             *)

MayFail(port) == IF port \in Failures THEN BOOLEAN ELSE {TRUE}

\* baseline: whether the CPU sampler holds a first reading to subtract.
SampleCpuIfVisible(baseline) ==
  \/ /\ ~(menu_open' /\ on'["ShowCpu"])
     /\ last_cpu_state' = IF on'["ShowCpu"] THEN "Loading" ELSE "Disabled"
     /\ cpu_baseline' = baseline
  \/ /\ menu_open' /\ on'["ShowCpu"]
     /\ \E ok \in MayFail("cpu") :
          /\ last_cpu_state' = IF ~ok THEN "Unavailable"
                               ELSE IF baseline THEN "Available" ELSE "Loading"
          /\ cpu_baseline' = ok

SampleGpuIfVisible ==
  IF menu_open' /\ on'["ShowGpu"]
  THEN \E ok \in MayFail("gpu") :
         last_gpu_state' = IF ok THEN "Available" ELSE "Unavailable"
  ELSE last_gpu_state' = IF on'["ShowGpu"] THEN "Unavailable" ELSE "Disabled"

RefreshApps(a0, manual, sampled, fresh) ==
  LET a == DrainAppScanResults(a0, fresh)
      decision == AppScanDecision(menu_open', manual, a.ticks)
      start == sampled /\ on'["ShowAppUsage"] /\ decision.scan /\ ~a.in_flight
  IN  /\ apps' = CASE ~sampled -> a
                   [] sampled /\ ~on'["ShowAppUsage"] -> ClearAppUsage(a)
                   [] OTHER -> [a EXCEPT !.ticks = decision.ticks,
                                         !.in_flight = a.in_flight \/ decision.scan]
      /\ \/ ~start /\ scan' = Polled(scan)
         \/ start /\ \E w \in Scans : /\ w \notin Live(Polled(scan))
                                      /\ scan' = Start(Polled(scan), w, a.generation)

\* An open menu with nothing in flight asks again.
Asks(s0) == /\ menu_open'
            /\ SharedVisible(on')
            /\ ~DrainSharedFetch(s0, SharedVisible(on')).in_flight

RefreshShared(s0, ask) ==
  LET s == DrainSharedFetch(s0, SharedVisible(on'))
  IN  /\ shared' = [s EXCEPT !.in_flight = s.in_flight \/ ask]
      /\ \/ ~ask /\ fetch' = Polled(fetch)
         \/ ask /\ \E w \in Fetches : /\ w \notin Live(Polled(fetch))
                                      /\ fetch' = Start(Polled(fetch), w, s.generation)

\* The trend window: only a timer tick, or a window still empty, adds to it.
UpdateTrend(t, manual) ==
  IF on'["AutoRefresh"] /\ (~manual \/ t = 0)
  THEN IF t < MemoryWindowSamples THEN t + 1 ELSE t
  ELSE t

SampledRefresh(manual, a0, s0, baseline, t0, schedule) ==
  /\ last_snapshot' = TRUE
  /\ trend' = UpdateTrend(t0, manual)
  /\ \E fresh \in BOOLEAN : RefreshApps(a0, manual, TRUE, fresh)
  /\ IF menu_open'
     THEN /\ RefreshShared(s0, Asks(s0))
          /\ SampleCpuIfVisible(baseline)
          /\ SampleGpuIfVisible
          /\ shown' = MenuRender'
     ELSE /\ shared' = s0
          /\ cpu_baseline' = baseline
          /\ UNCHANGED <<fetch, last_cpu_state, last_gpu_state, shown>>
  /\ drain_timer' = (drain_timer \/ Asks(s0) \/ schedule)

FailedRefresh(a0, s0, baseline, t0, schedule) ==
  /\ last_snapshot' = FALSE
  /\ trend' = t0
  /\ \E fresh \in BOOLEAN : RefreshApps(a0, FALSE, FALSE, fresh)
  /\ shared' = s0
  /\ cpu_baseline' = baseline
  /\ shown' = Placeholder
  /\ drain_timer' = (drain_timer \/ schedule)
  /\ UNCHANGED <<fetch, last_cpu_state, last_gpu_state>>

\* schedule: the handler itself also schedules a drain.
Refresh(manual, a0, s0, baseline, t0, schedule) ==
  \/ SampledRefresh(manual, a0, s0, baseline, t0, schedule)
  \/ "memory" \in Failures /\ FailedRefresh(a0, s0, baseline, t0, schedule)

--------------------------------------------------------------------------------
(* The engine's events *)

Init ==
  /\ started = FALSE
  /\ on \in StoredSettings
  /\ menu_open = FALSE /\ menu_closing = FALSE
  /\ clicked = NoItem /\ turned_on = NoItem
  /\ apps = [memory |-> IF on["ShowAppUsage"] THEN "Loading" ELSE "Hidden",
             baseline |-> FALSE, ticks |-> 0, in_flight |-> FALSE, generation |-> 0]
  /\ scan = [w \in Scans |-> Idle]
  /\ shared = [view |-> "Hidden", ticks |-> 0, age |-> 0, quiet |-> FALSE,
               in_flight |-> FALSE, generation |-> 0]
  /\ fetch = [w \in Fetches |-> Idle]
  /\ last_snapshot = FALSE
  /\ last_cpu_state = "Loading" /\ cpu_baseline = FALSE
  /\ last_gpu_state = "Unavailable"
  /\ trend = 0
  /\ refresh_timer_armed = FALSE /\ refresh_timer = FALSE
  /\ drain_timer = FALSE /\ reopen_timers = 0
  /\ menu_reopen_for = NoItem
  /\ shown = Placeholder

SyncNeverCancels ==
  /\ refresh_timer_armed' = on'["AutoRefresh"]
  /\ refresh_timer' = (refresh_timer \/ on'["AutoRefresh"])

\* sync_auto_refresh_timer and its effect on the shell's timer.
SyncAutoRefreshTimer ==
  /\ refresh_timer_armed' = on'["AutoRefresh"]
  /\ refresh_timer' = IF on'["AutoRefresh"] # refresh_timer_armed
                      THEN on'["AutoRefresh"] ELSE refresh_timer

\* Share(true): when the port cannot be bound the shell dispatches ShareFailed,
\* which takes the setting back.
Share(settings) ==
  \E bound \in MayFail("share") :
    on' = [settings EXCEPT !["ShareOverTailscale"] = @ /\ bound]

Startup ==
  /\ ~started
  /\ started' = TRUE
  /\ Share(on)
  /\ UNCHANGED menu_open
  /\ Refresh(TRUE, apps, shared, cpu_baseline, trend, FALSE)
  /\ SyncAutoRefreshTimer
  /\ UNCHANGED <<appkit, reopen_timers, menu_reopen_for>>

Tick ==
  LET s == [shared EXCEPT !.ticks = Older(shared.ticks), !.age = Older(shared.age)]
  IN  /\ refresh_timer
      /\ UNCHANGED <<on, menu_open>>
      /\ IF on["AutoRefresh"] THEN Refresh(FALSE, apps, s, cpu_baseline, trend, FALSE)
         ELSE /\ shared' = s
              /\ UNCHANGED <<apps, scan, fetch, last_cpu_state, cpu_baseline,
                             last_gpu_state, memory, drain_timer, shown>>
      /\ UNCHANGED <<started, appkit, refresh_timer_armed, refresh_timer,
                     reopen_timers, menu_reopen_for>>

\* Five seconds with no timer armed: no event, only time.
QuietPeriod ==
  /\ started /\ ~refresh_timer
  /\ shared' = [shared EXCEPT !.age = Older(shared.age), !.quiet = TRUE]
  /\ UNCHANGED <<started, on, menu_open, appkit, apps, scan, fetch, last_cpu_state,
                 cpu_baseline, last_gpu_state, memory, timers, menu_reopen_for, shown>>

NoReschedule(s) == FALSE

\* The drain goes on polling while an answer is awaited.
Reschedule(s) == s.in_flight

NoWarmUp == UNCHANGED <<last_cpu_state, cpu_baseline>>

\* The one reading a drain takes: the second one a Loading CPU row needs.
WarmUpCpu ==
  IF last_cpu_state = "Loading" THEN SampleCpuIfVisible(cpu_baseline)
  ELSE UNCHANGED <<last_cpu_state, cpu_baseline>>

RerenderUnsampled == shown' = MenuRender'

\* The dropdown is drawn again from the last successful sample.
Rerender == shown' = IF last_snapshot THEN MenuRender' ELSE shown

DrainTimerFires ==
  /\ drain_timer
  /\ UNCHANGED <<on, menu_open>>
  /\ IF menu_open
     THEN
        /\ \E fresh \in BOOLEAN : apps' = DrainAppScanResults(apps, fresh)
        /\ scan' = Polled(scan)
        /\ shared' = DrainSharedFetch(shared, SharedVisible(on))
        /\ fetch' = Polled(fetch)
        /\ drain_timer' = Reschedule(shared')
        /\ WarmUpCpu
        /\ UNCHANGED last_gpu_state
        /\ Rerender
     ELSE drain_timer' = FALSE /\ UNCHANGED <<modules, shown>>
  /\ UNCHANGED <<started, appkit, memory, refresh_timer_armed, refresh_timer,
                 reopen_timers, menu_reopen_for>>

StillReopens == UNCHANGED menu_reopen_for

\* The menu is there: nothing is left to reopen it for.
NothingToReopen == menu_reopen_for' = NoItem

MenuWillOpen ==
  /\ started /\ ~menu_open /\ clicked = NoItem
  /\ menu_open' = TRUE /\ turned_on' = NoItem
  /\ NothingToReopen
  /\ UNCHANGED on
  /\ Refresh(TRUE, apps, MarkStaleSharedReading(shared), cpu_baseline, trend, TRUE)
  /\ UNCHANGED <<started, menu_closing, clicked, refresh_timer_armed, refresh_timer>>

\* The user opens the dropdown.
OpenMenu == MenuWillOpen /\ UNCHANGED reopen_timers

MenuDidClose ==
  /\ menu_open
  /\ menu_open' = FALSE /\ menu_closing' = FALSE
  /\ apps' = [apps EXCEPT !.ticks = 0]
  /\ cpu_baseline' = FALSE
  /\ shared' = [shared EXCEPT !.generation = Bumped(shared.generation, fetch),
                              !.in_flight = FALSE]
  /\ drain_timer' = FALSE
  /\ UNCHANGED <<started, on, clicked, turned_on, scan, fetch, last_cpu_state,
                 last_gpu_state, memory, refresh_timer_armed, refresh_timer,
                 reopen_timers, menu_reopen_for, shown>>

\* The one-shot fires in the default run-loop mode, so never while the menu
\* tracks.  PopUpMenu re-enters menuWillOpen: before the callback returns.
ReopenMenuTimerFires ==
  /\ reopen_timers > 0 /\ ~menu_open /\ clicked = NoItem
  /\ reopen_timers' = reopen_timers - 1
  /\ \/ Shows(menu_reopen_for) /\ MenuWillOpen
     \/ /\ ~Shows(menu_reopen_for)
        /\ menu_reopen_for' = NoItem
        /\ UNCHANGED <<started, on, menu_open, appkit, modules, memory, shown,
                       refresh_timer_armed, refresh_timer, drain_timer>>

--------------------------------------------------------------------------------
(* The Settings items.  Clicking one closes the menu and sends its action; the  *)
(* engine is written for either order, so both are modelled.  Until both have   *)
(* happened AppKit delivers no other menu event.                                *)

ClickItem(item) ==
  /\ menu_open /\ ~menu_closing /\ clicked = NoItem
  /\ item = "ShowSharedMac" => SharedMacConfigured
  /\ reopen_timers < MaxReopenTimers
  /\ clicked' = item /\ menu_closing' = TRUE
  /\ UNCHANGED <<started, on, menu_open, turned_on, modules, memory, timers,
                 menu_reopen_for, shown>>

\* What every toggle starts with: the item's action arrives.
Clicked(item) ==
  /\ clicked = item
  /\ clicked' = NoItem
  /\ turned_on' = IF item \in Module /\ ~Shows(item) THEN item ELSE NoItem
  /\ UNCHANGED <<started, menu_open, menu_closing>>

Flipped(item) == [on EXCEPT ![item] = ~on[item]]

ReopenWithoutTimer(item, wanted) ==
  /\ menu_reopen_for' = IF wanted THEN item ELSE menu_reopen_for
  /\ UNCHANGED reopen_timers

ScheduleMenuReopen(item, wanted) ==
  /\ menu_reopen_for' = IF wanted THEN item ELSE menu_reopen_for
  /\ reopen_timers' = IF wanted THEN reopen_timers + 1 ELSE reopen_timers

ToggleAutoRefresh ==
  /\ Clicked("AutoRefresh")
  /\ on' = Flipped("AutoRefresh")
  /\ SyncAutoRefreshTimer
  /\ Refresh(TRUE, apps, shared, cpu_baseline, 0, FALSE)
  /\ UNCHANGED <<reopen_timers, menu_reopen_for>>

ToggleShowAppUsage ==
  /\ Clicked("ShowAppUsage")
  /\ on' = Flipped("ShowAppUsage")
  /\ LET a == IF on'["ShowAppUsage"] THEN [apps EXCEPT !.memory = "Loading", !.ticks = 0]
              ELSE ClearAppUsage(apps)
     IN  Refresh(TRUE, a, shared, cpu_baseline, trend, FALSE)
  /\ ScheduleMenuReopen("ShowAppUsage", on'["ShowAppUsage"])
  /\ UNCHANGED <<refresh_timer_armed, refresh_timer>>

ToggleShowCpu ==
  /\ Clicked("ShowCpu")
  /\ on' = Flipped("ShowCpu")
  /\ Refresh(TRUE, apps, shared, FALSE, trend, on'["ShowCpu"] /\ menu_open)
  /\ ScheduleMenuReopen("ShowCpu", on'["ShowCpu"])
  /\ UNCHANGED <<refresh_timer_armed, refresh_timer>>

ToggleShowGpu ==
  /\ Clicked("ShowGpu")
  /\ on' = Flipped("ShowGpu")
  /\ Refresh(TRUE, apps, shared, cpu_baseline, trend, FALSE)
  /\ ScheduleMenuReopen("ShowGpu", on'["ShowGpu"])
  /\ UNCHANGED <<refresh_timer_armed, refresh_timer>>

ToggleShowSharedMac ==
  /\ Clicked("ShowSharedMac")
  /\ on' = Flipped("ShowSharedMac")
  /\ LET view == IF SharedVisible(on') THEN "Loading" ELSE "Hidden"
     IN  Refresh(TRUE, apps, [shared EXCEPT !.view = view], cpu_baseline, trend, FALSE)
  /\ ScheduleMenuReopen("ShowSharedMac", SharedVisible(on'))
  /\ UNCHANGED <<refresh_timer_armed, refresh_timer>>

ToggleShareOverTailscale ==
  /\ Clicked("ShareOverTailscale")
  /\ Share(Flipped("ShareOverTailscale"))
  /\ UNCHANGED <<modules, memory, timers, menu_reopen_for, shown>>

ToggleLaunchAtLogin ==
  /\ Clicked("LaunchAtLogin")
  /\ UNCHANGED on
  /\ Refresh(TRUE, apps, shared, cpu_baseline, trend, FALSE)
  /\ UNCHANGED <<refresh_timer_armed, refresh_timer, reopen_timers, menu_reopen_for>>

Toggle ==
  \/ ToggleAutoRefresh \/ ToggleShowAppUsage \/ ToggleShowCpu \/ ToggleShowGpu
  \/ ToggleShowSharedMac \/ ToggleShareOverTailscale \/ ToggleLaunchAtLogin

--------------------------------------------------------------------------------
(* Worker threads send their one result into the channel and end. *)

ScanCompletes(w) ==
  /\ scan[w].stage = "running"
  /\ \E ok \in MayFail("scan") : scan' = Land(scan, w, IF ok THEN "ok" ELSE "err")
  /\ UNCHANGED <<started, on, menu_open, appkit, apps, shared, fetch, last_cpu_state,
                 cpu_baseline, last_gpu_state, memory, timers, menu_reopen_for, shown>>

FetchCompletes(w) ==
  /\ fetch[w].stage = "running"
  /\ \E ok \in MayFail("fetch") : fetch' = Land(fetch, w, IF ok THEN "ok" ELSE "err")
  /\ UNCHANGED <<started, on, menu_open, appkit, apps, scan, shared, last_cpu_state,
                 cpu_baseline, last_gpu_state, memory, timers, menu_reopen_for, shown>>

--------------------------------------------------------------------------------

Next ==
  \/ Startup \/ Tick \/ QuietPeriod \/ DrainTimerFires
  \/ OpenMenu \/ MenuDidClose \/ ReopenMenuTimerFires
  \/ \E item \in Clickable : ClickItem(item)
  \/ Toggle
  \/ \E w \in Scans : ScanCompletes(w)
  \/ \E w \in Fetches : FetchCompletes(w)

Spec == Init /\ [][Next]_vars

\* Startup follows launch; armed timers fire; a clicked item's action is sent
\* and the menu it was in closes; worker threads end (the process scan is a
\* bounded loop, a fetch has a two-second deadline).  The user owes nothing.
Fairness ==
  /\ WF_vars(Startup)
  /\ WF_vars(Tick)
  /\ WF_vars(DrainTimerFires)
  /\ WF_vars(ReopenMenuTimerFires)
  /\ WF_vars(Toggle)
  /\ WF_vars(menu_closing /\ MenuDidClose)
  /\ \A w \in Scans : WF_vars(ScanCompletes(w))
  /\ \A w \in Fetches : WF_vars(FetchCompletes(w))

FairSpec == Spec /\ Fairness

--------------------------------------------------------------------------------
(* Properties *)

TypeOK ==
  /\ started \in BOOLEAN
  /\ on \in [Persisted -> BOOLEAN]
  /\ menu_open \in BOOLEAN /\ menu_closing \in BOOLEAN
  /\ clicked \in Setting \union {NoItem} /\ turned_on \in Module \union {NoItem}
  /\ apps \in AppsState
  /\ scan \in [Scans -> Worker]
  /\ shared \in SharedState
  /\ fetch \in [Fetches -> Worker]
  /\ last_snapshot \in BOOLEAN
  /\ last_cpu_state \in CpuModuleState /\ cpu_baseline \in BOOLEAN
  /\ last_gpu_state \in GpuModuleState
  /\ trend \in 0 .. MemoryWindowSamples
  /\ refresh_timer_armed \in BOOLEAN /\ refresh_timer \in BOOLEAN
  /\ drain_timer \in BOOLEAN
  /\ reopen_timers \in Nat
  /\ menu_reopen_for \in Setting \union {NoItem}
  /\ shown \in [cpu: CpuModuleState, gpu: GpuModuleState, apps: AppMemorySnapshot,
                shared: SharedMac] \union {Placeholder}

\* A flag in flight stands for exactly one live worker whose answer the engine
\* would still take, and a clear flag for none: no answer is awaited that no
\* thread owes, and no second thread answers the same question.
SingleFlight(in_flight, generation, workers) ==
  /\ \A v, w \in Current(workers, generation) : v = w
  /\ in_flight <=> Current(workers, generation) # {}

\* Hiding the app list or failing its scan never leaves the engine waiting for a
\* scan that will not come, or accepting one from before (engine.rs:656-744).
OneScanInFlight == SingleFlight(apps.in_flight, apps.generation, scan)

\* The same for asking the shared Mac, across closing and reopening the menu
\* (engine.rs:354-362, 508-514, 713-736).
OneFetchInFlight == SingleFlight(shared.in_flight, shared.generation, fetch)

\* An answer from before the menu closed is never taken: once it is closed, no
\* live fetch carries the current generation (engine.rs:260-262).
NoFetchOutlivesItsMenu == ~menu_open => Current(fetch, shared.generation) = {}

\* While the app list is hidden no scan already running can bring rows back, nor
\* is a baseline kept for deltas across the gap (engine.rs:738-744).
HiddenAppsStayHidden ==
  ~on["ShowAppUsage"] =>
    /\ apps.memory = "Hidden" /\ ~apps.baseline
    /\ Current(scan, apps.generation) = {}

\* While the menu is open and the shared Mac's answer is awaited a drain is
\* scheduled, so that it is shown with Auto-Refresh off too (engine.rs:508-514,
\* 565-571).
AwaitedAnswerHasDrain == menu_open /\ shared.in_flight => drain_timer

\* With Auto-Refresh off no tick will sample the CPU again, so a row still on
\* Loading has a drain coming that will, with a first reading to subtract
\* (engine.rs:553-559).
LoadingCpuIsWarmedUp ==
  menu_open /\ ~menu_closing /\ last_snapshot /\ on["ShowCpu"] /\ last_cpu_state = "Loading" =>
    \/ on["AutoRefresh"]
    \/ drain_timer /\ cpu_baseline

\* The open dropdown shows the engine's present state, or the placeholder after
\* a failed sample: every handler that changes a module re-renders it, and a
\* drain never draws old readings over the placeholder (engine.rs:509-526, 577-584).
OpenDropdownIsCurrent ==
  menu_open => shown = IF last_snapshot THEN MenuRender ELSE Placeholder

\* What an open dropdown draws agrees with the settings: hidden modules are
\* absent, wanted ones are not (engine.rs:414-418, 457-463, 618-654, 692-704).
OpenDropdownMatchesSettings ==
  menu_open /\ shown # Placeholder =>
    /\ shown.apps = "Hidden" <=> ~on["ShowAppUsage"]
    /\ shown.cpu = "Disabled" <=> ~on["ShowCpu"]
    /\ shown.gpu = "Disabled" <=> ~on["ShowGpu"]
    /\ shown.shared = "Hidden" <=> ~SharedVisible(on)

\* The shell ticks exactly while Auto-Refresh is on, and the engine's belief
\* about the timer is the timer (engine.rs:276-278, 604-616; app.rs:257-283).
TimerFollowsAutoRefresh ==
  /\ refresh_timer_armed = refresh_timer
  /\ started => refresh_timer = on["AutoRefresh"]

\* With Auto-Refresh off there is no history: nothing but ticks is worth
\* recording, and the samples before it went off are gone (engine.rs:402-406, 530-540).
NoHistoryWithoutTicks == ~on["AutoRefresh"] => trend = 0

--------------------------------------------------------------------------------
(* Action properties *)

\* The history advances by ticks only: a toggle or a menu open may seed an empty
\* window or clear it, never extend it (engine.rs:530-540).
HistoryAdvancesByTicks ==
  [][trend' > trend => trend = 0 \/ Tick]_vars

\* A dropdown that opens on a reading older than a minute says Loading, not the
\* reading, as long as Auto-Refresh has been on since: the age is counted in ticks
\* (engine.rs:48-50, 335-337, 696-711).
OpensOnFreshReading ==
  [][~menu_open /\ menu_open' /\ shared'.view = "Reading" /\ ~shared'.quiet =>
       shared'.age < SharedStaleTicks]_vars

--------------------------------------------------------------------------------
(* Refinement: either section a worker fills is an Asking.  The request is the    *)
(* worker of the current generation, whatever others are still alive.             *)

Request(workers, generation) ==
  LET current == Current(workers, generation)
  IN  IF current = {} THEN "none" ELSE workers[CHOOSE w \in current : TRUE].stage

Says(view) ==
  CASE view \in {"Reading", "Loaded", "LoadedWithDeltas"} -> "Answer"
    [] view \in {"Offline", "Unavailable"} -> "Failure"
    [] OTHER -> view

AskingSharedMac ==
  INSTANCE Asking WITH
    view <- Says(shared.view),
    request <- Request(fetch, shared.generation),
    open <- menu_open,
    sampled <- last_snapshot,
    Outlives <- FALSE

AskingApps ==
  INSTANCE Asking WITH
    view <- Says(apps.memory),
    request <- Request(scan, apps.generation),
    open <- menu_open,
    sampled <- last_snapshot,
    Outlives <- TRUE

--------------------------------------------------------------------------------
(* Liveness, under FairSpec *)

\* An open dropdown does not sit on CPU Loading, Auto-Refresh on or off
\* (engine.rs:553-575).
CpuLeavesLoading ==
  (menu_open /\ last_snapshot /\ last_cpu_state = "Loading") ~>
    (~menu_open \/ ~last_snapshot \/ last_cpu_state # "Loading")

\* With Auto-Refresh on, neither does the app list: a tick takes the scan that the
\* one drain after opening came too early for (engine.rs:484-501, 664-690).
AppsLeaveLoading ==
  (menu_open /\ last_snapshot /\ on["AutoRefresh"] /\ apps.memory = "Loading") ~>
    (~menu_open \/ ~last_snapshot \/ ~on["AutoRefresh"] \/ apps.memory # "Loading")

\* The shared Mac's section shows the answer to the ask of this menu and no other, is
\* never on Loading in a sampled dropdown without an ask under way, and leaves Loading,
\* Auto-Refresh on or off (engine.rs:354-362, 506-519, 560-585, 713-736).
SharedMacIsAsked == AskingSharedMac!LiveSpec

\* The app list shows the answer of the scan started since it was last hidden and no
\* other, whatever menus opened and closed meanwhile, and is never on Loading in a
\* sampled dropdown without a scan under way (engine.rs:408-423, 494-501, 656-694,
\* 738-744).
AppListIsAsked == AskingApps!Spec

\* A reopen one-shot brings the menu back only for a module that was turned on since
\* the menu was last open and is still visible: never for one hidden again, and not a
\* second time, however many one-shots are pending (engine.rs:341-353, 364-374).
ReopensForModuleTurnedOn ==
  [][ReopenMenuTimerFires /\ menu_open' => turned_on # NoItem /\ Shows(turned_on)]_vars

\* A module just turned on is shown: the menu comes back, or the user brings it back
\* first; and it comes back for nothing else (engine.rs:341-353, 364-374, 587-602).
ModuleTurnedOnIsShown ==
  /\ ReopensForModuleTurnedOn
  /\ \A item \in Module \cap Clickable : (turned_on = item) ~> (turned_on # item)

================================================================================
