-------------------------- MODULE RefreshEngineProofs --------------------------
(***************************************************************************)
(* What holds of RefreshEngine for every value of its constants.           *)
(*                                                                         *)
(* The first lemmas are about the workers and their channel alone: what a  *)
(* drain, a start, an answer and a generation bump do to the set of        *)
(* workers whose answer is still wanted.  The next lift them to the parts  *)
(* of a refresh; the theorems take one step per action.                    *)
(*                                                                         *)
(* The second part is about what the dropdown shows: it agrees with the    *)
(* settings, a row on Loading has somebody at work on it, and a stale      *)
(* reading does not open as current; then, that the menu comes back by     *)
(* itself only for a module just turned on.  The last part shows that      *)
(* either section a worker fills implements Asking, step by step; that     *)
(* Loading ends is left to TLC.                                            *)
(***************************************************************************)
EXTENDS RefreshEngine, TLAPS

--------------------------------------------------------------------------------
(* Workers *)

\* After a bump no live worker carries the current generation.
LEMMA BumpedIsFresh ==
  ASSUME NEW S \in {Scans, Fetches}, NEW workers \in [S -> Worker],
         NEW g \in Generation
  PROVE  /\ Bumped(g, workers) \in Generation
         /\ Current(workers, Bumped(g, workers)) = {}
         /\ Current(Polled(workers), Bumped(g, workers)) = {}
<1> DEFINE tag == [w \in S |-> workers[w].generation]
<1>1. tag \in [S -> Generation]
  BY DEF Worker
<1>2. PICK next \in Generation : next # g /\ \A w \in S : tag[w] # next
  BY <1>1, GenerationAssumption
<1>3. /\ next # g
      /\ \A w \in Live(workers) : workers[w].generation # next
  BY <1>2 DEF Live
<1>4. /\ Bumped(g, workers) \in Generation
      /\ \A w \in Live(workers) : workers[w].generation # Bumped(g, workers)
  BY <1>3 DEF Bumped
<1>5. \A w \in Live(Polled(workers)) :
        w \in Live(workers) /\ Polled(workers)[w].generation = workers[w].generation
  BY DEF Live, Polled, Idle
<1> QED
  BY <1>4, <1>5 DEF Current

\* A drain takes out of the channel exactly the answers, and keeps the rest.
LEMMA PolledWorkers ==
  ASSUME NEW S, NEW workers \in [S -> Worker], NEW g
  PROVE  /\ Polled(workers) \in [S -> Worker]
         /\ Current(Polled(workers), g) = Current(workers, g) \ Answers(workers, g)
<1>1. Polled(workers) \in [S -> Worker]
  BY ConstantsAssumption DEF Polled, Worker, Idle
<1>2. ASSUME NEW w
      PROVE  w \in Current(Polled(workers), g) <=>
               w \in Current(workers, g) /\ w \notin Answers(workers, g)
  BY DEF Current, Live, Polled, Answers, Idle
<1> QED
  BY <1>1, <1>2

\* Draining a single flight leaves a single flight: the flag goes with the answer.
LEMMA DrainKeepsSingleFlight ==
  ASSUME NEW S, NEW workers \in [S -> Worker], NEW g, NEW f \in BOOLEAN,
         SingleFlight(f, g, workers)
  PROVE  SingleFlight(f /\ Answers(workers, g) = {}, g, Polled(workers))
<1>1. Current(Polled(workers), g) = Current(workers, g) \ Answers(workers, g)
  BY PolledWorkers
<1>2. Answers(workers, g) \subseteq Current(workers, g)
  BY DEF Answers
<1> QED
  BY <1>1, <1>2 DEF SingleFlight

\* Starting a worker in an idle slot when none is in flight.
LEMMA StartMakesSingleFlight ==
  ASSUME NEW S, NEW workers \in [S -> Worker], NEW g \in Generation,
         SingleFlight(FALSE, g, workers), NEW w \in S, w \notin Live(workers)
  PROVE  /\ Start(workers, w, g) \in [S -> Worker]
         /\ SingleFlight(TRUE, g, Start(workers, w, g))
<1>1. Start(workers, w, g) \in [S -> Worker]
  BY DEF Start, Worker
<1>2. Current(workers, g) = {}
  BY DEF SingleFlight
<1>3. ASSUME NEW v
      PROVE  v \in Current(Start(workers, w, g), g) <=> v = w
  BY <1>2 DEF Current, Live, Start
<1> QED
  BY <1>1, <1>3 DEF SingleFlight

\* A result reaching the channel changes neither the workers nor their tags.
LEMMA LandKeepsCurrent ==
  ASSUME NEW S, NEW workers \in [S -> Worker], NEW g, NEW w \in S,
         workers[w].stage = "running", NEW stage \in {"ok", "err"}
  PROVE  /\ Land(workers, w, stage) \in [S -> Worker]
         /\ Current(Land(workers, w, stage), g) = Current(workers, g)
<1>1. Land(workers, w, stage) \in [S -> Worker]
  BY DEF Land, Worker
<1>2. ASSUME NEW v
      PROVE  v \in Current(Land(workers, w, stage), g) <=> v \in Current(workers, g)
  BY DEF Current, Live, Land, Worker
<1> QED
  BY <1>1, <1>2

--------------------------------------------------------------------------------
(* The app scan's part of a refresh *)

\* No trace of the app list, and nobody at work on one.
HiddenApps(a, workers) ==
  a.memory = "Hidden" /\ ~a.baseline /\ Current(workers, a.generation) = {}

\* A drain of the app channel takes at most the one answer in flight.
LEMMA DrainApps ==
  ASSUME NEW a \in AppsState, scan \in [Scans -> Worker], NEW fresh \in BOOLEAN,
         SingleFlight(a.in_flight, a.generation, scan)
  PROVE  /\ DrainAppScanResults(a, fresh) \in AppsState
         /\ DrainAppScanResults(a, fresh).generation = a.generation
         /\ SingleFlight(DrainAppScanResults(a, fresh).in_flight, a.generation,
                         Polled(scan))
         /\ HiddenApps(a, scan) => HiddenApps(DrainAppScanResults(a, fresh), Polled(scan))
<1> DEFINE d == DrainAppScanResults(a, fresh)
<1>1. d \in AppsState /\ d.generation = a.generation
  BY DEF DrainAppScanResults, AppsState, AppMemorySnapshot
<1>2. d.in_flight = (a.in_flight /\ Answers(scan, a.generation) = {})
  BY DEF DrainAppScanResults, AppsState
<1>3. SingleFlight(d.in_flight, a.generation, Polled(scan))
  BY <1>2, DrainKeepsSingleFlight DEF AppsState
<1>4. ASSUME HiddenApps(a, scan)
      PROVE  HiddenApps(d, Polled(scan))
  <2>1. Answers(scan, a.generation) = {}
    BY <1>4 DEF HiddenApps, Answers
  <2>2. d = a
    BY <2>1 DEF DrainAppScanResults
  <2>3. Current(Polled(scan), a.generation) = {}
    BY <1>4, PolledWorkers DEF HiddenApps
  <2> QED
    BY <1>4, <2>2, <2>3 DEF HiddenApps
<1> QED
  BY <1>1, <1>3, <1>4

\* clear_app_usage abandons whatever scan is running.
LEMMA ClearApps ==
  ASSUME NEW a \in AppsState, scan \in [Scans -> Worker]
  PROVE  /\ ClearAppUsage(a) \in AppsState
         /\ SingleFlight(ClearAppUsage(a).in_flight, ClearAppUsage(a).generation, scan)
         /\ SingleFlight(ClearAppUsage(a).in_flight, ClearAppUsage(a).generation, Polled(scan))
         /\ HiddenApps(ClearAppUsage(a), scan)
         /\ HiddenApps(ClearAppUsage(a), Polled(scan))
<1>1. a.generation \in Generation
  BY DEF AppsState
<1>2. /\ Bumped(a.generation, scan) \in Generation
      /\ Current(scan, Bumped(a.generation, scan)) = {}
      /\ Current(Polled(scan), Bumped(a.generation, scan)) = {}
  BY <1>1, BumpedIsFresh
<1>3. /\ ClearAppUsage(a) \in AppsState
      /\ ClearAppUsage(a).generation = Bumped(a.generation, scan)
      /\ ClearAppUsage(a).in_flight = FALSE
      /\ ClearAppUsage(a).memory = "Hidden" /\ ~ClearAppUsage(a).baseline
  BY <1>2 DEF ClearAppUsage, AppsState, AppMemorySnapshot
<1> QED
  BY <1>2, <1>3 DEF SingleFlight, HiddenApps

\* Whatever a refresh does about apps, a single flight stays one, and a hidden
\* list stays hidden.
LEMMA RefreshAppsKeepsFlight ==
  ASSUME NEW a0 \in AppsState, scan \in [Scans -> Worker],
         SingleFlight(a0.in_flight, a0.generation, scan),
         on' \in [Persisted -> BOOLEAN], menu_open' \in BOOLEAN,
         NEW manual \in BOOLEAN, NEW sampled \in BOOLEAN, NEW fresh \in BOOLEAN,
         ~on'["ShowAppUsage"] => HiddenApps(a0, scan),
         RefreshApps(a0, manual, sampled, fresh)
  PROVE  /\ apps' \in AppsState
         /\ scan' \in [Scans -> Worker]
         /\ SingleFlight(apps'.in_flight, apps'.generation, scan')
         /\ ~on'["ShowAppUsage"] => HiddenApps(apps', scan')
<1> DEFINE a == DrainAppScanResults(a0, fresh)
           decision == AppScanDecision(menu_open', manual, a.ticks)
           start == sampled /\ on'["ShowAppUsage"] /\ decision.scan /\ ~a.in_flight
<1>1. /\ a \in AppsState
      /\ SingleFlight(a.in_flight, a.generation, Polled(scan))
      /\ ~on'["ShowAppUsage"] => HiddenApps(a, Polled(scan))
  BY DrainApps
<1>2. Polled(scan) \in [Scans -> Worker]
  BY PolledWorkers
<1>3. decision.scan \in BOOLEAN /\ decision.ticks \in 0 .. AppRefreshIntervalTicks - 1
  BY <1>1, ConstantsAssumption DEF AppScanDecision, AppsState
<1>4. CASE ~start
  <2>1. scan' = Polled(scan)
    BY <1>4 DEF RefreshApps
  <2>2. CASE ~sampled
    BY <1>1, <1>2, <2>1, <2>2 DEF RefreshApps
  <2>3. CASE sampled /\ ~on'["ShowAppUsage"]
    <3>1. apps' = ClearAppUsage(a)
      BY <2>3 DEF RefreshApps
    <3> QED
      BY <1>1, <1>2, <2>1, <3>1, ClearApps
  <2>4. CASE sampled /\ on'["ShowAppUsage"]
    <3>1. apps' = [a EXCEPT !.ticks = decision.ticks,
                            !.in_flight = a.in_flight \/ decision.scan]
      BY <2>4 DEF RefreshApps
    <3>2. (a.in_flight \/ decision.scan) = a.in_flight
      BY <1>1, <1>3, <1>4, <2>4 DEF AppsState
    <3>3. /\ apps' \in AppsState
          /\ apps'.in_flight = a.in_flight /\ apps'.generation = a.generation
      BY <1>1, <1>3, <3>1, <3>2 DEF AppsState
    <3> QED
      BY <1>1, <1>2, <2>1, <2>4, <3>3
  <2> QED
    BY <2>2, <2>3, <2>4
<1>5. CASE start
  <2>1. PICK w \in Scans : /\ w \notin Live(Polled(scan))
                           /\ scan' = Start(Polled(scan), w, a.generation)
    BY <1>5 DEF RefreshApps
  <2>2. apps' = [a EXCEPT !.ticks = decision.ticks,
                          !.in_flight = a.in_flight \/ decision.scan]
    BY <1>5 DEF RefreshApps
  <2>3. /\ apps' \in AppsState
        /\ apps'.in_flight = TRUE /\ apps'.generation = a.generation
    BY <1>1, <1>3, <1>5, <2>2 DEF AppsState
  <2>4. SingleFlight(FALSE, a.generation, Polled(scan))
    BY <1>1, <1>5 DEF AppsState
  <2>5. a.generation \in Generation
    BY <1>1 DEF AppsState
  <2> QED
    BY <1>2, <1>5, <2>1, <2>3, <2>4, <2>5, StartMakesSingleFlight
<1> QED
  BY <1>4, <1>5

--------------------------------------------------------------------------------
(* The shared Mac's part of a refresh *)

\* A drain of the shared channel takes at most the one answer in flight.
LEMMA DrainShared ==
  ASSUME NEW s \in SharedState, fetch \in [Fetches -> Worker], NEW visible \in BOOLEAN,
         SingleFlight(s.in_flight, s.generation, fetch)
  PROVE  /\ DrainSharedFetch(s, visible) \in SharedState
         /\ DrainSharedFetch(s, visible).generation = s.generation
         /\ DrainSharedFetch(s, visible).in_flight => s.in_flight
         /\ SingleFlight(DrainSharedFetch(s, visible).in_flight, s.generation,
                         Polled(fetch))
<1> DEFINE d == DrainSharedFetch(s, visible)
<1>1. d \in SharedState /\ d.generation = s.generation
  <2> DEFINE done == [s EXCEPT !.in_flight = FALSE]
             Read(r) == [r EXCEPT !.view = "Reading", !.ticks = 0, !.age = 0,
                                  !.quiet = FALSE]
             Missed(r) == [r EXCEPT !.view = "Offline"]
  <2>1. done \in SharedState /\ done.generation = s.generation
    BY DEF SharedState
  <2>2. ASSUME NEW r \in SharedState, r.generation = s.generation
        PROVE  /\ Read(r) \in SharedState /\ Read(r).generation = s.generation
               /\ Missed(r) \in SharedState /\ Missed(r).generation = s.generation
    <3>1. 0 \in 0 .. SharedStaleTicks
      BY ConstantsAssumption
    <3>2. {"Reading", "Offline"} \subseteq SharedMac
      BY DEF SharedMac
    <3> QED
      BY <2>2, <3>1, <3>2 DEF SharedState
  <2>3. /\ Read(done) \in SharedState /\ Read(done).generation = s.generation
        /\ Missed(done) \in SharedState /\ Missed(done).generation = s.generation
    <3> HIDE DEF done, Read, Missed
    <3> QED
      BY <2>1, <2>2
  <2>4. d \in {s, done, Read(done), Missed(done)}
    BY DEF DrainSharedFetch
  <2> HIDE DEF done, Read, Missed, d
  <2> QED
    BY <2>1, <2>3, <2>4
<1>2. d.in_flight = (s.in_flight /\ Answers(fetch, s.generation) = {})
  BY DEF DrainSharedFetch, SharedState
<1>3. SingleFlight(d.in_flight, s.generation, Polled(fetch))
  BY <1>2, DrainKeepsSingleFlight DEF SharedState
<1> QED
  BY <1>1, <1>2, <1>3

\* Draining and asking again keep a single flight; asking is the only way up.
LEMMA RefreshSharedKeepsFlight ==
  ASSUME NEW s0 \in SharedState, fetch \in [Fetches -> Worker],
         SingleFlight(s0.in_flight, s0.generation, fetch),
         on' \in [Persisted -> BOOLEAN], menu_open' \in BOOLEAN,
         RefreshShared(s0, Asks(s0))
  PROVE  /\ shared' \in SharedState
         /\ fetch' \in [Fetches -> Worker]
         /\ SingleFlight(shared'.in_flight, shared'.generation, fetch')
         /\ shared'.in_flight => s0.in_flight \/ Asks(s0)
<1> DEFINE s == DrainSharedFetch(s0, SharedVisible(on'))
<1>1. SharedVisible(on') \in BOOLEAN
  BY ConstantsAssumption DEF SharedVisible, Persisted, Setting
<1>2. /\ s \in SharedState
      /\ s.generation = s0.generation
      /\ s.in_flight => s0.in_flight
      /\ SingleFlight(s.in_flight, s.generation, Polled(fetch))
  BY <1>1, DrainShared
<1>3. Polled(fetch) \in [Fetches -> Worker]
  BY PolledWorkers
<1>4. Asks(s0) \in BOOLEAN
  BY <1>1, <1>2 DEF Asks, SharedState
<1>5. /\ shared' \in SharedState
      /\ shared'.generation = s.generation
      /\ shared'.in_flight = (s.in_flight \/ Asks(s0))
  BY <1>2, <1>4 DEF RefreshShared, SharedState
<1>6. CASE ~Asks(s0)
  <2>1. fetch' = Polled(fetch)
    BY <1>6 DEF RefreshShared
  <2>2. shared'.in_flight = s.in_flight
    BY <1>2, <1>5, <1>6 DEF SharedState
  <2> QED
    BY <1>2, <1>3, <1>5, <2>1, <2>2
<1>7. CASE Asks(s0)
  <2>1. PICK w \in Fetches : /\ w \notin Live(Polled(fetch))
                             /\ fetch' = Start(Polled(fetch), w, s.generation)
    BY <1>7 DEF RefreshShared
  <2>2. s.in_flight = FALSE
    BY <1>2, <1>7 DEF Asks, SharedState
  <2>3. s.generation \in Generation
    BY <1>2 DEF SharedState
  <2>4. SingleFlight(FALSE, s.generation, Polled(fetch))
    BY <1>2, <2>2
  <2>5. /\ Start(Polled(fetch), w, s.generation) \in [Fetches -> Worker]
        /\ SingleFlight(TRUE, s.generation, Start(Polled(fetch), w, s.generation))
    BY <1>3, <2>1, <2>3, <2>4, StartMakesSingleFlight
  <2>6. shared'.in_flight = TRUE
    BY <1>2, <1>5, <1>7 DEF SharedState
  <2> QED
    BY <1>5, <1>7, <2>1, <2>5, <2>6
<1> QED
  BY <1>6, <1>7

--------------------------------------------------------------------------------
(* The inductive invariant *)

\* The safety properties of the runs, made inductive by their conjunction: a
\* flag in flight is tied to the workers by the generations, the generations to
\* the menu by NoFetchOutlivesItsMenu, and the drain timer to the flag.
Inv ==
  /\ TypeOK
  /\ OneScanInFlight
  /\ HiddenAppsStayHidden
  /\ OneFetchInFlight
  /\ NoFetchOutlivesItsMenu
  /\ AwaitedAnswerHasDrain
  /\ OpenDropdownIsCurrent
  /\ TimerFollowsAutoRefresh
  /\ NoHistoryWithoutTicks

\* What a refresh establishes, whatever handler it ends.
Refreshed ==
  /\ apps' \in AppsState /\ scan' \in [Scans -> Worker]
  /\ shared' \in SharedState /\ fetch' \in [Fetches -> Worker]
  /\ last_snapshot' \in BOOLEAN
  /\ last_cpu_state' \in CpuModuleState /\ cpu_baseline' \in BOOLEAN
  /\ last_gpu_state' \in GpuModuleState
  /\ trend' \in 0 .. MemoryWindowSamples
  /\ drain_timer' \in BOOLEAN
  /\ shown' \in [cpu: CpuModuleState, gpu: GpuModuleState, apps: AppMemorySnapshot,
                 shared: SharedMac] \union {Placeholder}
  /\ OneScanInFlight' /\ HiddenAppsStayHidden'
  /\ OneFetchInFlight' /\ NoFetchOutlivesItsMenu' /\ AwaitedAnswerHasDrain'
  /\ OpenDropdownIsCurrent' /\ NoHistoryWithoutTicks'

\* The state a handler hands to refresh.
Refreshable(a0, s0, baseline, t0, schedule) ==
  /\ on' \in [Persisted -> BOOLEAN] /\ menu_open' \in BOOLEAN
  /\ menu_open => menu_open'
  /\ a0 \in AppsState /\ SingleFlight(a0.in_flight, a0.generation, scan)
  /\ ~on'["ShowAppUsage"] => HiddenApps(a0, scan)
  /\ s0 \in SharedState
  /\ s0.in_flight = shared.in_flight /\ s0.generation = shared.generation
  /\ baseline \in BOOLEAN
  /\ t0 \in 0 .. MemoryWindowSamples /\ (~on'["AutoRefresh"] => t0 = 0)
  /\ schedule \in BOOLEAN
  /\ menu_open' /\ shared.in_flight => drain_timer \/ schedule

\* A CPU sample leaves one of the module's states.
LEMMA CpuSampleType ==
  ASSUME NEW baseline \in BOOLEAN, SampleCpuIfVisible(baseline)
  PROVE  last_cpu_state' \in CpuModuleState /\ cpu_baseline' \in BOOLEAN
BY DEF SampleCpuIfVisible, MayFail, CpuModuleState

\* The window keeps its length, and stays empty without Auto-Refresh.
LEMMA TrendType ==
  ASSUME NEW t \in 0 .. MemoryWindowSamples, NEW manual \in BOOLEAN,
         ~on'["AutoRefresh"] => t = 0
  PROVE  /\ UpdateTrend(t, manual) \in 0 .. MemoryWindowSamples
         /\ ~on'["AutoRefresh"] => UpdateTrend(t, manual) = 0
BY ConstantsAssumption DEF UpdateTrend

\* A refresh with a memory reading.
LEMMA SampledRefreshKeepsInv ==
  ASSUME Inv, NEW a0, NEW s0, NEW baseline, NEW t0, NEW schedule,
         NEW manual \in BOOLEAN,
         Refreshable(a0, s0, baseline, t0, schedule),
         SampledRefresh(manual, a0, s0, baseline, t0, schedule)
  PROVE  Refreshed
<1> USE DEF Refreshable
<1>1. PICK fresh \in BOOLEAN : RefreshApps(a0, manual, TRUE, fresh)
  BY DEF SampledRefresh
<1>2. /\ apps' \in AppsState /\ scan' \in [Scans -> Worker]
      /\ SingleFlight(apps'.in_flight, apps'.generation, scan')
      /\ ~on'["ShowAppUsage"] => HiddenApps(apps', scan')
  BY <1>1, RefreshAppsKeepsFlight DEF Inv, TypeOK
<1>3. OneScanInFlight' /\ HiddenAppsStayHidden'
  BY <1>2 DEF OneScanInFlight, HiddenAppsStayHidden, HiddenApps, SingleFlight, Current, Live
<1>4. SingleFlight(s0.in_flight, s0.generation, fetch)
  BY DEF Inv, OneFetchInFlight
<1>5. /\ trend' \in 0 .. MemoryWindowSamples
      /\ NoHistoryWithoutTicks'
      /\ last_snapshot' = TRUE
      /\ drain_timer' = (drain_timer \/ Asks(s0) \/ schedule)
      /\ drain_timer' \in BOOLEAN
  BY TrendType DEF SampledRefresh, NoHistoryWithoutTicks
<1>6. CASE menu_open'
  <2>1. /\ RefreshShared(s0, Asks(s0)) /\ SampleCpuIfVisible(baseline)
        /\ SampleGpuIfVisible /\ shown' = MenuRender'
    BY <1>6 DEF SampledRefresh
  <2>2. /\ shared' \in SharedState /\ fetch' \in [Fetches -> Worker]
        /\ SingleFlight(shared'.in_flight, shared'.generation, fetch')
        /\ shared'.in_flight => s0.in_flight \/ Asks(s0)
    BY <1>4, <2>1, RefreshSharedKeepsFlight DEF Inv, TypeOK
  <2>3. OneFetchInFlight' /\ NoFetchOutlivesItsMenu' /\ AwaitedAnswerHasDrain'
    <3>1. OneFetchInFlight'
      BY <2>2 DEF OneFetchInFlight, SingleFlight, Current, Live
    <3>2. AwaitedAnswerHasDrain'
      BY <1>5, <1>6, <2>2 DEF AwaitedAnswerHasDrain
    <3> QED
      BY <1>6, <3>1, <3>2 DEF NoFetchOutlivesItsMenu
  <2>4. /\ last_cpu_state' \in CpuModuleState /\ cpu_baseline' \in BOOLEAN
        /\ last_gpu_state' \in GpuModuleState
    BY <2>1, CpuSampleType DEF SampleGpuIfVisible, MayFail, GpuModuleState
  <2>5. shown' \in [cpu: CpuModuleState, gpu: GpuModuleState, apps: AppMemorySnapshot,
                    shared: SharedMac]
    BY <1>2, <2>1, <2>2, <2>4 DEF MenuRender, AppsState, SharedState
  <2>6. OpenDropdownIsCurrent'
    BY <1>5, <2>1 DEF OpenDropdownIsCurrent, MenuRender
  <2> QED
    BY <1>2, <1>3, <1>5, <2>2, <2>3, <2>4, <2>5, <2>6 DEF Refreshed
<1>7. CASE ~menu_open'
  <2>1. /\ shared' = s0 /\ cpu_baseline' = baseline
        /\ UNCHANGED <<fetch, last_cpu_state, last_gpu_state, shown>>
    BY <1>7 DEF SampledRefresh
  <2>2. OneFetchInFlight'
    BY <1>4, <2>1 DEF OneFetchInFlight, SingleFlight, Current, Live
  <2>3. NoFetchOutlivesItsMenu'
    BY <1>7, <2>1 DEF Inv, NoFetchOutlivesItsMenu, Current, Live
  <2>4. AwaitedAnswerHasDrain' /\ OpenDropdownIsCurrent'
    BY <1>7 DEF AwaitedAnswerHasDrain, OpenDropdownIsCurrent
  <2> QED
    BY <1>2, <1>3, <1>5, <2>1, <2>2, <2>3, <2>4 DEF Refreshed, Inv, TypeOK
<1> QED
  BY <1>6, <1>7

\* A refresh without one.
LEMMA FailedRefreshKeepsInv ==
  ASSUME Inv, NEW a0, NEW s0, NEW baseline, NEW t0, NEW schedule,
         Refreshable(a0, s0, baseline, t0, schedule),
         FailedRefresh(a0, s0, baseline, t0, schedule)
  PROVE  Refreshed
<1> USE DEF Refreshable
<1>1. PICK fresh \in BOOLEAN : RefreshApps(a0, FALSE, FALSE, fresh)
  BY DEF FailedRefresh
<1>2. /\ apps' \in AppsState /\ scan' \in [Scans -> Worker]
      /\ SingleFlight(apps'.in_flight, apps'.generation, scan')
      /\ ~on'["ShowAppUsage"] => HiddenApps(apps', scan')
  BY <1>1, RefreshAppsKeepsFlight DEF Inv, TypeOK
<1>3. OneScanInFlight' /\ HiddenAppsStayHidden'
  BY <1>2 DEF OneScanInFlight, HiddenAppsStayHidden, HiddenApps, SingleFlight, Current, Live
<1>4. /\ last_snapshot' = FALSE /\ trend' = t0 /\ shared' = s0
      /\ cpu_baseline' = baseline /\ shown' = Placeholder
      /\ drain_timer' = (drain_timer \/ schedule)
      /\ UNCHANGED <<fetch, last_cpu_state, last_gpu_state>>
  BY DEF FailedRefresh
<1>5. OneFetchInFlight'
  <2>1. SingleFlight(s0.in_flight, s0.generation, fetch)
    BY DEF Inv, OneFetchInFlight
  <2> QED
    BY <1>4, <2>1 DEF OneFetchInFlight, SingleFlight, Current, Live
<1>6. NoFetchOutlivesItsMenu'
  BY <1>4 DEF Inv, NoFetchOutlivesItsMenu, Current, Live
<1>7. AwaitedAnswerHasDrain' /\ OpenDropdownIsCurrent' /\ NoHistoryWithoutTicks'
  BY <1>4 DEF AwaitedAnswerHasDrain, OpenDropdownIsCurrent, NoHistoryWithoutTicks
<1>8. drain_timer' \in BOOLEAN /\ last_snapshot' \in BOOLEAN
  BY <1>4
<1> QED
  BY <1>2, <1>3, <1>4, <1>5, <1>6, <1>7, <1>8 DEF Refreshed, Inv, TypeOK

\* Any refresh.
LEMMA RefreshKeepsInv ==
  ASSUME Inv, NEW a0, NEW s0, NEW baseline, NEW t0, NEW schedule,
         NEW manual \in BOOLEAN,
         Refreshable(a0, s0, baseline, t0, schedule),
         Refresh(manual, a0, s0, baseline, t0, schedule)
  PROVE  Refreshed
BY SampledRefreshKeepsInv, FailedRefreshKeepsInv DEF Refresh

\* What a handler that ends in a refresh has left to show.
LEMMA HandlerKeepsInv ==
  ASSUME Refreshed, started' \in BOOLEAN, on' \in [Persisted -> BOOLEAN],
         menu_open' \in BOOLEAN, menu_closing' \in BOOLEAN,
         clicked' \in Setting \union {NoItem}, turned_on' \in Module \union {NoItem},
         refresh_timer_armed' \in BOOLEAN, refresh_timer' \in BOOLEAN,
         reopen_timers' \in Nat, menu_reopen_for' \in Setting \union {NoItem},
         TimerFollowsAutoRefresh'
  PROVE  Inv'
<1>1. TypeOK'
  BY DEF TypeOK, Refreshed
<1> QED
  BY <1>1 DEF Refreshed, Inv

--------------------------------------------------------------------------------
(* Settings *)

\* Flipping an item, or failing to share, leaves every other item alone.
LEMMA FlippedSettings ==
  ASSUME NEW item \in Persisted, on \in [Persisted -> BOOLEAN]
  PROVE  /\ Flipped(item) \in [Persisted -> BOOLEAN]
         /\ Flipped(item)[item] = ~on[item]
         /\ \A other \in Persisted \ {item} : Flipped(item)[other] = on[other]
BY DEF Flipped

\* Sharing may refuse to start; no other setting follows from it.
LEMMA ShareTouchesOneItem ==
  ASSUME NEW settings \in [Persisted -> BOOLEAN], Share(settings)
  PROVE  /\ on' \in [Persisted -> BOOLEAN]
         /\ \A other \in Persisted \ {"ShareOverTailscale"} : on'[other] = settings[other]
<1>1. PICK bound \in MayFail("share") :
        on' = [settings EXCEPT !["ShareOverTailscale"] = @ /\ bound]
  BY DEF Share
<1>2. bound \in BOOLEAN
  BY DEF MayFail
<1>3. (settings["ShareOverTailscale"] /\ bound) \in BOOLEAN
  BY <1>2
<1> QED
  BY <1>1, <1>3

\* The settings by name.
LEMMA PersistedItems ==
  /\ {"AutoRefresh", "ShowAppUsage", "ShowCpu", "ShowGpu", "ShareOverTailscale",
      "ShowSharedMac"} \subseteq Persisted
  /\ Persisted \subseteq Setting
BY DEF Persisted, Setting

\* Syncing the timer makes it follow the setting.
LEMMA SyncedTimer ==
  ASSUME Inv, on' \in [Persisted -> BOOLEAN], SyncAutoRefreshTimer
  PROVE  /\ refresh_timer_armed' \in BOOLEAN /\ refresh_timer' \in BOOLEAN
         /\ TimerFollowsAutoRefresh'
<1>1. on'["AutoRefresh"] \in BOOLEAN
  BY PersistedItems
<1>2. refresh_timer_armed = refresh_timer /\ refresh_timer \in BOOLEAN
  BY DEF Inv, TimerFollowsAutoRefresh, TypeOK
<1>3. refresh_timer_armed' = on'["AutoRefresh"] /\ refresh_timer' = on'["AutoRefresh"]
  BY <1>1, <1>2 DEF SyncAutoRefreshTimer
<1> QED
  BY <1>1, <1>3 DEF TimerFollowsAutoRefresh

\* The running timer follows a setting nobody touched.
LEMMA KeptTimer ==
  ASSUME Inv, UNCHANGED <<started, refresh_timer_armed, refresh_timer>>,
         on'["AutoRefresh"] = on["AutoRefresh"]
  PROVE  /\ refresh_timer_armed' \in BOOLEAN /\ refresh_timer' \in BOOLEAN
         /\ TimerFollowsAutoRefresh'
BY DEF Inv, TypeOK, TimerFollowsAutoRefresh

--------------------------------------------------------------------------------
(* One lemma per action *)

\* The invariant holds at first.
LEMMA InitInv ==
  ASSUME Init
  PROVE  Inv
<1>1. on \in [Persisted -> BOOLEAN]
  BY ConstantsAssumption DEF Init
<1>2. Idle \in Worker
  BY ConstantsAssumption DEF Idle, Worker
<1>3. apps \in AppsState /\ shared \in SharedState
  BY ConstantsAssumption DEF Init, AppsState, SharedState, AppMemorySnapshot, SharedMac
<1>4. scan \in [Scans -> Worker] /\ fetch \in [Fetches -> Worker]
  BY <1>2 DEF Init
<1>5. TypeOK
  <2>1. trend \in 0 .. MemoryWindowSamples /\ reopen_timers \in Nat
    BY ConstantsAssumption DEF Init
  <2>2. last_cpu_state \in CpuModuleState /\ last_gpu_state \in GpuModuleState
    BY DEF Init, CpuModuleState, GpuModuleState
  <2> QED
    BY <1>1, <1>3, <1>4, <2>1, <2>2 DEF Init, TypeOK
<1>6. \A g : Current(scan, g) = {} /\ Current(fetch, g) = {}
  BY DEF Init, Current, Live, Idle
<1>7. OneScanInFlight /\ OneFetchInFlight /\ NoFetchOutlivesItsMenu
  BY <1>6 DEF Init, OneScanInFlight, OneFetchInFlight, NoFetchOutlivesItsMenu, SingleFlight
<1>8. HiddenAppsStayHidden
  BY <1>1, <1>6, PersistedItems DEF Init, HiddenAppsStayHidden
<1> QED
  BY <1>5, <1>7, <1>8
     DEF Init, Inv, AwaitedAnswerHasDrain, OpenDropdownIsCurrent,
         TimerFollowsAutoRefresh, NoHistoryWithoutTicks

LEMMA StartupKeepsInv ==
  ASSUME Inv, Startup
  PROVE  Inv'
<1>1. on' \in [Persisted -> BOOLEAN] /\ on'["AutoRefresh"] = on["AutoRefresh"]
                                    /\ on'["ShowAppUsage"] = on["ShowAppUsage"]
  BY ShareTouchesOneItem, PersistedItems DEF Startup, Inv, TypeOK
<1>2. Refreshable(apps, shared, cpu_baseline, trend, FALSE)
  BY <1>1 DEF Startup, Refreshable, Inv, TypeOK, OneScanInFlight, HiddenAppsStayHidden,
              HiddenApps, AwaitedAnswerHasDrain, NoHistoryWithoutTicks
<1>3. Refreshed
  BY <1>2, RefreshKeepsInv DEF Startup
<1> QED
  BY <1>1, <1>3, SyncedTimer, HandlerKeepsInv DEF Startup, Inv, TypeOK, appkit

\* Time alone: only the age of the shared reading moves.
LEMMA AgeingKeepsInv ==
  ASSUME Inv, shared' \in SharedState,
         shared'.view = shared.view, shared'.in_flight = shared.in_flight,
         shared'.generation = shared.generation,
         UNCHANGED <<started, on, menu_open, appkit, apps, scan, fetch, last_cpu_state,
                     cpu_baseline, last_gpu_state, memory, timers, menu_reopen_for, shown>>
  PROVE  Inv'
<1> USE DEF appkit, memory, timers
<1>1. TypeOK'
  BY DEF Inv, TypeOK
<1>2. OneScanInFlight' /\ HiddenAppsStayHidden'
  BY DEF Inv, OneScanInFlight, HiddenAppsStayHidden, SingleFlight, Current, Live
<1>3. OneFetchInFlight' /\ NoFetchOutlivesItsMenu'
  BY DEF Inv, OneFetchInFlight, NoFetchOutlivesItsMenu, SingleFlight, Current, Live
<1>4. AwaitedAnswerHasDrain' /\ OpenDropdownIsCurrent'
  BY DEF Inv, AwaitedAnswerHasDrain, OpenDropdownIsCurrent, MenuRender
<1> QED
  BY <1>1, <1>2, <1>3, <1>4 DEF Inv, TimerFollowsAutoRefresh, NoHistoryWithoutTicks

\* An age is counted to its bound.
LEMMA OlderType ==
  ASSUME NEW n \in 0 .. SharedStaleTicks
  PROVE  Older(n) \in 0 .. SharedStaleTicks
BY ConstantsAssumption DEF Older

LEMMA TickKeepsInv ==
  ASSUME Inv, Tick
  PROVE  Inv'
<1> DEFINE s == [shared EXCEPT !.ticks = Older(shared.ticks), !.age = Older(shared.age)]
<1>1. shared \in SharedState
  BY DEF Inv, TypeOK
<1>2. Older(shared.ticks) \in 0 .. SharedStaleTicks /\ Older(shared.age) \in 0 .. SharedStaleTicks
  BY <1>1, OlderType DEF SharedState
<1>3. /\ s \in SharedState
      /\ s.view = shared.view
      /\ s.in_flight = shared.in_flight /\ s.generation = shared.generation
  BY <1>1, <1>2 DEF SharedState
<1>4. /\ UNCHANGED <<started, on, menu_open, menu_closing, clicked, turned_on,
                     refresh_timer_armed, refresh_timer, reopen_timers, menu_reopen_for>>
  BY DEF Tick, appkit
<1> HIDE DEF s
<1>5. CASE on["AutoRefresh"]
  <2>1. Refresh(FALSE, apps, s, cpu_baseline, trend, FALSE)
    BY <1>5 DEF Tick, s
  <2>2. Refreshable(apps, s, cpu_baseline, trend, FALSE)
    BY <1>3, <1>4 DEF Refreshable, Inv, TypeOK, OneScanInFlight, HiddenAppsStayHidden,
                     HiddenApps, AwaitedAnswerHasDrain, NoHistoryWithoutTicks
  <2>3. Refreshed
    BY <2>1, <2>2, RefreshKeepsInv
  <2> QED
    BY <1>4, <2>3, KeptTimer, HandlerKeepsInv DEF Inv, TypeOK
<1>6. CASE ~on["AutoRefresh"]
  <2>1. /\ shared' = s
        /\ UNCHANGED <<apps, scan, fetch, last_cpu_state, cpu_baseline, last_gpu_state,
                       memory, drain_timer, shown>>
    BY <1>6 DEF Tick, s
  <2> QED
    BY <1>3, <1>4, <2>1, AgeingKeepsInv DEF appkit, timers
<1> QED
  BY <1>5, <1>6

LEMMA QuietPeriodKeepsInv ==
  ASSUME Inv, QuietPeriod
  PROVE  Inv'
<1>1. shared \in SharedState
  BY DEF Inv, TypeOK
<1>2. Older(shared.age) \in 0 .. SharedStaleTicks
  BY <1>1, OlderType DEF SharedState
<1>3. /\ shared' \in SharedState
      /\ shared'.view = shared.view
      /\ shared'.in_flight = shared.in_flight /\ shared'.generation = shared.generation
  BY <1>1, <1>2 DEF QuietPeriod, SharedState
<1> QED
  BY <1>3, AgeingKeepsInv DEF QuietPeriod

\* A drain takes answers, never asks: what is still in flight keeps its drain.
LEMMA DrainTimerFiresKeepsInv ==
  ASSUME Inv, DrainTimerFires
  PROVE  Inv'
<1>1. /\ UNCHANGED <<started, on, menu_open, menu_closing, clicked, turned_on, last_snapshot,
                     trend, refresh_timer_armed, refresh_timer, reopen_timers,
                     menu_reopen_for>>
  BY DEF DrainTimerFires, appkit, memory
<1>2. TimerFollowsAutoRefresh' /\ NoHistoryWithoutTicks'
  BY <1>1 DEF Inv, TimerFollowsAutoRefresh, NoHistoryWithoutTicks
<1>3. CASE menu_open
  <2>1. PICK fresh \in BOOLEAN : apps' = DrainAppScanResults(apps, fresh)
    BY <1>3 DEF DrainTimerFires
  <2>2. /\ scan' = Polled(scan) /\ fetch' = Polled(fetch)
        /\ shared' = DrainSharedFetch(shared, SharedVisible(on))
        /\ drain_timer' = shared'.in_flight
        /\ WarmUpCpu /\ UNCHANGED last_gpu_state /\ Rerender
    BY <1>3 DEF DrainTimerFires, Reschedule
  <2>3. /\ apps' \in AppsState /\ scan' \in [Scans -> Worker]
        /\ apps'.generation = apps.generation
        /\ SingleFlight(apps'.in_flight, apps.generation, scan')
        /\ HiddenApps(apps, scan) => HiddenApps(apps', scan')
    BY <2>1, <2>2, DrainApps, PolledWorkers DEF Inv, TypeOK, OneScanInFlight
  <2>4. OneScanInFlight' /\ HiddenAppsStayHidden'
    BY <1>1, <2>3 DEF Inv, OneScanInFlight, HiddenAppsStayHidden, HiddenApps,
                      SingleFlight, Current, Live
  <2>5. /\ shared' \in SharedState /\ fetch' \in [Fetches -> Worker]
        /\ shared'.generation = shared.generation
        /\ SingleFlight(shared'.in_flight, shared.generation, fetch')
    <3>1. SharedVisible(on) \in BOOLEAN
      BY ConstantsAssumption, PersistedItems DEF SharedVisible, Inv, TypeOK
    <3> QED
      BY <2>2, <3>1, DrainShared, PolledWorkers DEF Inv, TypeOK, OneFetchInFlight
  <2>6. OneFetchInFlight' /\ NoFetchOutlivesItsMenu' /\ AwaitedAnswerHasDrain'
    <3>1. OneFetchInFlight'
      BY <2>5 DEF OneFetchInFlight, SingleFlight, Current, Live
    <3> QED
      BY <1>1, <1>3, <2>2, <3>1 DEF NoFetchOutlivesItsMenu, AwaitedAnswerHasDrain
  <2>7. last_cpu_state' \in CpuModuleState /\ cpu_baseline' \in BOOLEAN
    BY <2>2, CpuSampleType DEF WarmUpCpu, Inv, TypeOK
  <2>8. drain_timer' \in BOOLEAN
    BY <2>2, <2>5 DEF SharedState
  <2>9. /\ shown' \in [cpu: CpuModuleState, gpu: GpuModuleState, apps: AppMemorySnapshot,
                       shared: SharedMac] \union {Placeholder}
        /\ OpenDropdownIsCurrent'
    <3>1. MenuRender' \in [cpu: CpuModuleState, gpu: GpuModuleState,
                           apps: AppMemorySnapshot, shared: SharedMac]
      BY <2>2, <2>3, <2>5, <2>7 DEF MenuRender, AppsState, SharedState, Inv, TypeOK
    <3>2. CASE last_snapshot
      BY <1>1, <2>2, <3>1, <3>2 DEF Rerender, OpenDropdownIsCurrent
    <3>3. CASE ~last_snapshot
      BY <1>1, <1>3, <2>2, <3>3 DEF Rerender, OpenDropdownIsCurrent, Inv, TypeOK
    <3> QED
      BY <3>2, <3>3
  <2>10. TypeOK'
    BY <1>1, <2>2, <2>3, <2>5, <2>7, <2>8, <2>9 DEF Inv, TypeOK
  <2> QED
    BY <1>2, <2>4, <2>6, <2>9, <2>10 DEF Inv
<1>4. CASE ~menu_open
  <2>1. drain_timer' = FALSE /\ UNCHANGED <<apps, scan, shared, fetch, last_cpu_state,
                                          cpu_baseline, last_gpu_state, shown>>
    BY <1>4 DEF DrainTimerFires, modules
  <2>2. TypeOK'
    BY <1>1, <2>1 DEF Inv, TypeOK
  <2>3. OneScanInFlight' /\ HiddenAppsStayHidden' /\ OneFetchInFlight'
        /\ NoFetchOutlivesItsMenu'
    BY <1>1, <2>1 DEF Inv, OneScanInFlight, HiddenAppsStayHidden, OneFetchInFlight,
                      NoFetchOutlivesItsMenu, SingleFlight, Current, Live
  <2>4. AwaitedAnswerHasDrain' /\ OpenDropdownIsCurrent'
    BY <1>1, <1>4 DEF AwaitedAnswerHasDrain, OpenDropdownIsCurrent
  <2> QED
    BY <1>2, <2>2, <2>3, <2>4 DEF Inv
<1> QED
  BY <1>3, <1>4

\* Opening asks only with nothing in flight, and schedules the drain itself.
LEMMA MenuWillOpenKeepsInv ==
  ASSUME Inv, MenuWillOpen, reopen_timers' \in Nat
  PROVE  Inv'
<1> DEFINE s == MarkStaleSharedReading(shared)
<1>1. /\ s \in SharedState
      /\ s.in_flight = shared.in_flight /\ s.generation = shared.generation
  BY DEF MarkStaleSharedReading, SharedState, SharedMac, Inv, TypeOK
<1>2. /\ menu_open' = TRUE /\ menu_reopen_for' = NoItem /\ turned_on' = NoItem
      /\ UNCHANGED <<on, started, menu_closing, clicked, refresh_timer_armed, refresh_timer>>
      /\ Refresh(TRUE, apps, s, cpu_baseline, trend, TRUE)
  BY DEF MenuWillOpen, NothingToReopen
<1> HIDE DEF s
<1>3. Refreshable(apps, s, cpu_baseline, trend, TRUE)
  BY <1>1, <1>2 DEF Refreshable, Inv, TypeOK, OneScanInFlight, HiddenAppsStayHidden,
                   HiddenApps, NoHistoryWithoutTicks
<1>4. Refreshed
  BY <1>2, <1>3, RefreshKeepsInv
<1> QED
  BY <1>2, <1>4, KeptTimer, HandlerKeepsInv DEF Inv, TypeOK

\* Closing abandons whatever fetch is running.
LEMMA MenuDidCloseKeepsInv ==
  ASSUME Inv, MenuDidClose
  PROVE  Inv'
<1>1. /\ menu_open' = FALSE /\ menu_closing' = FALSE /\ cpu_baseline' = FALSE
      /\ drain_timer' = FALSE
      /\ apps' = [apps EXCEPT !.ticks = 0]
      /\ shared' = [shared EXCEPT !.generation = Bumped(shared.generation, fetch),
                                  !.in_flight = FALSE]
      /\ UNCHANGED <<started, on, clicked, turned_on, scan, fetch, last_cpu_state,
                     last_gpu_state, last_snapshot, trend, refresh_timer_armed, refresh_timer,
                     reopen_timers, menu_reopen_for, shown>>
  BY DEF MenuDidClose, memory
<1>2. /\ Bumped(shared.generation, fetch) \in Generation
      /\ Current(fetch, Bumped(shared.generation, fetch)) = {}
  BY BumpedIsFresh DEF Inv, TypeOK, SharedState
<1>3. /\ apps' \in AppsState
      /\ apps'.in_flight = apps.in_flight /\ apps'.generation = apps.generation
      /\ apps'.memory = apps.memory /\ apps'.baseline = apps.baseline
  BY <1>1, ConstantsAssumption DEF AppsState, Inv, TypeOK
<1>4. /\ shared' \in SharedState
      /\ shared'.in_flight = FALSE
      /\ shared'.generation = Bumped(shared.generation, fetch)
  BY <1>1, <1>2 DEF SharedState, Inv, TypeOK
<1>5. TypeOK'
  BY <1>1, <1>3, <1>4 DEF Inv, TypeOK
<1>6. OneScanInFlight' /\ HiddenAppsStayHidden'
  BY <1>1, <1>3 DEF Inv, OneScanInFlight, HiddenAppsStayHidden, SingleFlight, Current, Live
<1>7. OneFetchInFlight' /\ NoFetchOutlivesItsMenu'
  <2>1. Current(fetch', shared'.generation) = {}
    BY <1>1, <1>2, <1>4
  <2> QED
    BY <1>4, <2>1 DEF OneFetchInFlight, NoFetchOutlivesItsMenu, SingleFlight, Current, Live
<1> QED
  BY <1>1, <1>5, <1>6, <1>7
     DEF Inv, AwaitedAnswerHasDrain, OpenDropdownIsCurrent, TimerFollowsAutoRefresh,
         NoHistoryWithoutTicks

\* The menu's own steps that sample nothing.
LEMMA MenuOnlyKeepsInv ==
  ASSUME Inv,
         menu_closing' \in BOOLEAN, clicked' \in Setting \union {NoItem},
         turned_on' \in Module \union {NoItem},
         reopen_timers' \in Nat, menu_reopen_for' \in Setting \union {NoItem},
         on' \in [Persisted -> BOOLEAN],
         on'["AutoRefresh"] = on["AutoRefresh"], on'["ShowAppUsage"] = on["ShowAppUsage"],
         UNCHANGED <<started, menu_open, modules, memory, refresh_timer_armed,
                     refresh_timer, drain_timer, shown>>
  PROVE  Inv'
<1> USE DEF modules, memory
<1>1. TypeOK'
  BY DEF Inv, TypeOK
<1>2. OneScanInFlight' /\ HiddenAppsStayHidden' /\ OneFetchInFlight'
      /\ NoFetchOutlivesItsMenu'
  BY DEF Inv, OneScanInFlight, HiddenAppsStayHidden, OneFetchInFlight,
         NoFetchOutlivesItsMenu, SingleFlight, Current, Live
<1>3. AwaitedAnswerHasDrain' /\ OpenDropdownIsCurrent'
  BY DEF Inv, AwaitedAnswerHasDrain, OpenDropdownIsCurrent, MenuRender
<1> QED
  BY <1>1, <1>2, <1>3 DEF Inv, TimerFollowsAutoRefresh, NoHistoryWithoutTicks

LEMMA ReopenMenuTimerFiresKeepsInv ==
  ASSUME Inv, ReopenMenuTimerFires
  PROVE  Inv'
<1>1. reopen_timers' \in Nat
  BY DEF ReopenMenuTimerFires, Inv, TypeOK
<1>2. CASE MenuWillOpen
  BY <1>1, <1>2, MenuWillOpenKeepsInv
<1>3. CASE /\ menu_reopen_for' = NoItem
           /\ UNCHANGED <<started, on, menu_open, appkit, modules, memory, shown,
                          refresh_timer_armed, refresh_timer, drain_timer>>
  BY <1>1, <1>3, MenuOnlyKeepsInv DEF Inv, TypeOK, appkit
<1> QED
  BY <1>2, <1>3 DEF ReopenMenuTimerFires

LEMMA OpenMenuKeepsInv ==
  ASSUME Inv, OpenMenu
  PROVE  Inv'
<1>1. reopen_timers' \in Nat
  BY DEF OpenMenu, Inv, TypeOK
<1> QED
  BY <1>1, MenuWillOpenKeepsInv DEF OpenMenu

LEMMA ClickItemKeepsInv ==
  ASSUME Inv, NEW item \in Clickable, ClickItem(item)
  PROVE  Inv'
<1>1. item \in Setting
  BY ConstantsAssumption
<1> QED
  BY <1>1, MenuOnlyKeepsInv DEF ClickItem, timers, Inv, TypeOK

\* What every toggle that ends in a refresh has in common.
LEMMA ToggleKeepsInv ==
  ASSUME Inv, NEW item, Clicked(item), on' \in [Persisted -> BOOLEAN],
         NEW a0, NEW s0, NEW baseline, NEW t0, NEW schedule,
         Refreshable(a0, s0, baseline, t0, schedule),
         Refresh(TRUE, a0, s0, baseline, t0, schedule),
         refresh_timer_armed' \in BOOLEAN, refresh_timer' \in BOOLEAN,
         TimerFollowsAutoRefresh',
         reopen_timers' \in Nat, menu_reopen_for' \in Setting \union {NoItem}
  PROVE  Inv'
<1>1. Refreshed
  BY RefreshKeepsInv
<1>2. /\ started' \in BOOLEAN /\ menu_open' \in BOOLEAN /\ menu_closing' \in BOOLEAN
      /\ clicked' \in Setting \union {NoItem} /\ turned_on' \in Module \union {NoItem}
  BY DEF Clicked, Inv, TypeOK
<1> QED
  BY <1>1, <1>2, HandlerKeepsInv

\* What a scheduled reopen leaves is of its type.
LEMMA ReopenType ==
  ASSUME Inv, NEW item \in Persisted, NEW wanted \in BOOLEAN,
         ScheduleMenuReopen(item, wanted)
  PROVE  reopen_timers' \in Nat /\ menu_reopen_for' \in Setting \union {NoItem}
<1>1. reopen_timers \in Nat /\ menu_reopen_for \in Setting \union {NoItem}
  BY DEF Inv, TypeOK
<1>2. item \in Setting
  BY PersistedItems
<1> QED
  BY <1>1, <1>2 DEF ScheduleMenuReopen

\* The history is cleared before the refresh: it starts again from nothing.
LEMMA ToggleAutoRefreshKeepsInv ==
  ASSUME Inv, ToggleAutoRefresh
  PROVE  Inv'
<1>1. /\ Clicked("AutoRefresh") /\ on' = Flipped("AutoRefresh") /\ SyncAutoRefreshTimer
      /\ Refresh(TRUE, apps, shared, cpu_baseline, 0, FALSE)
      /\ UNCHANGED <<reopen_timers, menu_reopen_for, menu_open>>
  BY DEF ToggleAutoRefresh, Clicked
<1>2. on' \in [Persisted -> BOOLEAN] /\ on'["ShowAppUsage"] = on["ShowAppUsage"]
  BY <1>1, FlippedSettings, PersistedItems DEF Inv, TypeOK
<1>3. 0 \in 0 .. MemoryWindowSamples
  BY ConstantsAssumption
<1>4. Refreshable(apps, shared, cpu_baseline, 0, FALSE)
  BY <1>1, <1>2, <1>3 DEF Refreshable, Inv, TypeOK, OneScanInFlight, HiddenAppsStayHidden,
                         HiddenApps, AwaitedAnswerHasDrain
<1> QED
  BY <1>1, <1>2, <1>4, SyncedTimer, ToggleKeepsInv DEF Inv, TypeOK

LEMMA ToggleShowAppUsageKeepsInv ==
  ASSUME Inv, ToggleShowAppUsage
  PROVE  Inv'
<1> DEFINE a == IF on'["ShowAppUsage"] THEN [apps EXCEPT !.memory = "Loading", !.ticks = 0]
                ELSE ClearAppUsage(apps)
<1>1. /\ Clicked("ShowAppUsage") /\ on' = Flipped("ShowAppUsage")
      /\ Refresh(TRUE, a, shared, cpu_baseline, trend, FALSE)
      /\ ScheduleMenuReopen("ShowAppUsage", on'["ShowAppUsage"])
      /\ UNCHANGED <<started, menu_open, refresh_timer_armed, refresh_timer>>
  BY DEF ToggleShowAppUsage, Clicked
<1>2. on' \in [Persisted -> BOOLEAN] /\ on'["AutoRefresh"] = on["AutoRefresh"]
  BY <1>1, FlippedSettings, PersistedItems DEF Inv, TypeOK
<1>3. /\ a \in AppsState /\ SingleFlight(a.in_flight, a.generation, scan)
      /\ ~on'["ShowAppUsage"] => HiddenApps(a, scan)
  <2>1. CASE on'["ShowAppUsage"]
    <3>1. a = [apps EXCEPT !.memory = "Loading", !.ticks = 0]
      BY <2>1
    <3> HIDE DEF a
    <3>2. 0 \in 0 .. AppRefreshIntervalTicks - 1
      BY ConstantsAssumption
    <3>3. /\ a \in AppsState
          /\ a.in_flight = apps.in_flight /\ a.generation = apps.generation
      BY <3>1, <3>2 DEF Inv, TypeOK, AppsState, AppMemorySnapshot
    <3> QED
      BY <2>1, <3>3 DEF Inv, OneScanInFlight
  <2>2. CASE ~on'["ShowAppUsage"]
    BY <2>2, ClearApps DEF Inv, TypeOK
  <2> QED
    BY <2>1, <2>2
<1> HIDE DEF a
<1>4. Refreshable(a, shared, cpu_baseline, trend, FALSE)
  BY <1>1, <1>2, <1>3 DEF Refreshable, Inv, TypeOK, AwaitedAnswerHasDrain,
                         NoHistoryWithoutTicks
<1>5. on'["ShowAppUsage"] \in BOOLEAN
  BY <1>2, PersistedItems
<1> QED
  BY <1>1, <1>2, <1>4, <1>5, KeptTimer, ReopenType, PersistedItems, ToggleKeepsInv

LEMMA ToggleShowCpuKeepsInv ==
  ASSUME Inv, ToggleShowCpu
  PROVE  Inv'
<1>1. /\ Clicked("ShowCpu") /\ on' = Flipped("ShowCpu")
      /\ Refresh(TRUE, apps, shared, FALSE, trend, on'["ShowCpu"] /\ menu_open)
      /\ ScheduleMenuReopen("ShowCpu", on'["ShowCpu"])
      /\ UNCHANGED <<started, menu_open, refresh_timer_armed, refresh_timer>>
  BY DEF ToggleShowCpu, Clicked
<1>2. /\ on' \in [Persisted -> BOOLEAN]
      /\ on'["AutoRefresh"] = on["AutoRefresh"] /\ on'["ShowAppUsage"] = on["ShowAppUsage"]
  BY <1>1, FlippedSettings, PersistedItems DEF Inv, TypeOK
<1>3. on'["ShowCpu"] \in BOOLEAN /\ (on'["ShowCpu"] /\ menu_open) \in BOOLEAN
  BY <1>2, PersistedItems DEF Inv, TypeOK
<1>4. Refreshable(apps, shared, FALSE, trend, on'["ShowCpu"] /\ menu_open)
  BY <1>1, <1>2, <1>3 DEF Refreshable, Inv, TypeOK, OneScanInFlight, HiddenAppsStayHidden,
                         HiddenApps, AwaitedAnswerHasDrain, NoHistoryWithoutTicks
<1> QED
  BY <1>1, <1>2, <1>3, <1>4, KeptTimer, ReopenType, PersistedItems, ToggleKeepsInv

LEMMA ToggleShowGpuKeepsInv ==
  ASSUME Inv, ToggleShowGpu
  PROVE  Inv'
<1>1. /\ Clicked("ShowGpu") /\ on' = Flipped("ShowGpu")
      /\ Refresh(TRUE, apps, shared, cpu_baseline, trend, FALSE)
      /\ ScheduleMenuReopen("ShowGpu", on'["ShowGpu"])
      /\ UNCHANGED <<started, menu_open, refresh_timer_armed, refresh_timer>>
  BY DEF ToggleShowGpu, Clicked
<1>2. /\ on' \in [Persisted -> BOOLEAN]
      /\ on'["AutoRefresh"] = on["AutoRefresh"] /\ on'["ShowAppUsage"] = on["ShowAppUsage"]
  BY <1>1, FlippedSettings, PersistedItems DEF Inv, TypeOK
<1>3. on'["ShowGpu"] \in BOOLEAN
  BY <1>2, PersistedItems
<1>4. Refreshable(apps, shared, cpu_baseline, trend, FALSE)
  BY <1>1, <1>2 DEF Refreshable, Inv, TypeOK, OneScanInFlight, HiddenAppsStayHidden,
                   HiddenApps, AwaitedAnswerHasDrain, NoHistoryWithoutTicks
<1> QED
  BY <1>1, <1>2, <1>3, <1>4, KeptTimer, ReopenType, PersistedItems, ToggleKeepsInv

LEMMA ToggleShowSharedMacKeepsInv ==
  ASSUME Inv, ToggleShowSharedMac
  PROVE  Inv'
<1> DEFINE s == [shared EXCEPT !.view = IF SharedVisible(on') THEN "Loading" ELSE "Hidden"]
<1>1. /\ Clicked("ShowSharedMac") /\ on' = Flipped("ShowSharedMac")
      /\ Refresh(TRUE, apps, s, cpu_baseline, trend, FALSE)
      /\ ScheduleMenuReopen("ShowSharedMac", SharedVisible(on'))
      /\ UNCHANGED <<started, menu_open, refresh_timer_armed, refresh_timer>>
  BY DEF ToggleShowSharedMac, Clicked
<1>2. /\ on' \in [Persisted -> BOOLEAN]
      /\ on'["AutoRefresh"] = on["AutoRefresh"] /\ on'["ShowAppUsage"] = on["ShowAppUsage"]
  BY <1>1, FlippedSettings, PersistedItems DEF Inv, TypeOK
<1>3. SharedVisible(on') \in BOOLEAN
  BY <1>2, PersistedItems, ConstantsAssumption DEF SharedVisible
<1>4. /\ s \in SharedState
      /\ s.in_flight = shared.in_flight /\ s.generation = shared.generation
  BY DEF Inv, TypeOK, SharedState, SharedMac
<1> HIDE DEF s
<1>5. Refreshable(apps, s, cpu_baseline, trend, FALSE)
  BY <1>1, <1>2, <1>4 DEF Refreshable, Inv, TypeOK, OneScanInFlight, HiddenAppsStayHidden,
                         HiddenApps, AwaitedAnswerHasDrain, NoHistoryWithoutTicks
<1> QED
  BY <1>1, <1>2, <1>3, <1>5, KeptTimer, ReopenType, PersistedItems, ToggleKeepsInv

LEMMA ToggleShareOverTailscaleKeepsInv ==
  ASSUME Inv, ToggleShareOverTailscale
  PROVE  Inv'
<1>1. /\ Flipped("ShareOverTailscale") \in [Persisted -> BOOLEAN]
      /\ Flipped("ShareOverTailscale")["AutoRefresh"] = on["AutoRefresh"]
      /\ Flipped("ShareOverTailscale")["ShowAppUsage"] = on["ShowAppUsage"]
  BY FlippedSettings, PersistedItems DEF Inv, TypeOK
<1>2. /\ on' \in [Persisted -> BOOLEAN]
      /\ on'["AutoRefresh"] = on["AutoRefresh"] /\ on'["ShowAppUsage"] = on["ShowAppUsage"]
  BY <1>1, ShareTouchesOneItem, PersistedItems DEF ToggleShareOverTailscale
<1> QED
  BY <1>2, MenuOnlyKeepsInv DEF ToggleShareOverTailscale, Clicked, timers, Inv, TypeOK

LEMMA ToggleLaunchAtLoginKeepsInv ==
  ASSUME Inv, ToggleLaunchAtLogin
  PROVE  Inv'
<1>1. /\ Clicked("LaunchAtLogin")
      /\ Refresh(TRUE, apps, shared, cpu_baseline, trend, FALSE)
      /\ UNCHANGED <<on, started, menu_open, refresh_timer_armed, refresh_timer,
                     reopen_timers, menu_reopen_for>>
  BY DEF ToggleLaunchAtLogin, Clicked
<1>2. Refreshable(apps, shared, cpu_baseline, trend, FALSE)
  BY <1>1 DEF Refreshable, Inv, TypeOK, OneScanInFlight, HiddenAppsStayHidden,
              HiddenApps, AwaitedAnswerHasDrain, NoHistoryWithoutTicks
<1> QED
  BY <1>1, <1>2, KeptTimer, ToggleKeepsInv DEF Inv, TypeOK

LEMMA ScanCompletesKeepsInv ==
  ASSUME Inv, NEW w \in Scans, ScanCompletes(w)
  PROVE  Inv'
<1>1. PICK stage \in {"ok", "err"} : scan' = Land(scan, w, stage)
  BY DEF ScanCompletes
<1>2. /\ scan[w].stage = "running"
      /\ UNCHANGED <<started, on, menu_open, appkit, apps, shared, fetch, last_cpu_state,
                     cpu_baseline, last_gpu_state, memory, timers, menu_reopen_for, shown>>
  BY DEF ScanCompletes
<1>3. /\ scan' \in [Scans -> Worker]
      /\ \A g : Current(scan', g) = Current(scan, g)
  BY <1>1, <1>2, LandKeepsCurrent DEF Inv, TypeOK
<1>4. TypeOK'
  BY <1>2, <1>3 DEF Inv, TypeOK, appkit, memory, timers
<1>5. OneScanInFlight' /\ HiddenAppsStayHidden'
  BY <1>2, <1>3 DEF Inv, OneScanInFlight, HiddenAppsStayHidden, SingleFlight
<1>6. OneFetchInFlight' /\ NoFetchOutlivesItsMenu'
  BY <1>2 DEF Inv, OneFetchInFlight, NoFetchOutlivesItsMenu, SingleFlight, Current, Live
<1>7. AwaitedAnswerHasDrain' /\ OpenDropdownIsCurrent'
  BY <1>2 DEF Inv, AwaitedAnswerHasDrain, OpenDropdownIsCurrent, MenuRender, memory, timers
<1> QED
  BY <1>2, <1>4, <1>5, <1>6, <1>7
     DEF Inv, TimerFollowsAutoRefresh, NoHistoryWithoutTicks, memory, timers

LEMMA FetchCompletesKeepsInv ==
  ASSUME Inv, NEW w \in Fetches, FetchCompletes(w)
  PROVE  Inv'
<1>1. PICK stage \in {"ok", "err"} : fetch' = Land(fetch, w, stage)
  BY DEF FetchCompletes
<1>2. /\ fetch[w].stage = "running"
      /\ UNCHANGED <<started, on, menu_open, appkit, apps, scan, shared, last_cpu_state,
                     cpu_baseline, last_gpu_state, memory, timers, menu_reopen_for, shown>>
  BY DEF FetchCompletes
<1>3. /\ fetch' \in [Fetches -> Worker]
      /\ \A g : Current(fetch', g) = Current(fetch, g)
  BY <1>1, <1>2, LandKeepsCurrent DEF Inv, TypeOK
<1>4. TypeOK'
  BY <1>2, <1>3 DEF Inv, TypeOK, appkit, memory, timers
<1>5. OneScanInFlight' /\ HiddenAppsStayHidden'
  BY <1>2 DEF Inv, OneScanInFlight, HiddenAppsStayHidden, SingleFlight, Current, Live
<1>6. OneFetchInFlight' /\ NoFetchOutlivesItsMenu'
  BY <1>2, <1>3 DEF Inv, OneFetchInFlight, NoFetchOutlivesItsMenu, SingleFlight
<1>7. AwaitedAnswerHasDrain' /\ OpenDropdownIsCurrent'
  BY <1>2 DEF Inv, AwaitedAnswerHasDrain, OpenDropdownIsCurrent, MenuRender, memory, timers
<1> QED
  BY <1>2, <1>4, <1>5, <1>6, <1>7
     DEF Inv, TimerFollowsAutoRefresh, NoHistoryWithoutTicks, memory, timers

\* Nothing happens.
LEMMA StutterKeepsInv ==
  ASSUME Inv, UNCHANGED vars
  PROVE  Inv'
<1>1. shared' \in SharedState
  BY DEF Inv, TypeOK, vars, modules
<1> QED
  BY <1>1, AgeingKeepsInv DEF vars, modules

--------------------------------------------------------------------------------
(* Theorems *)

\* Inv is inductive: every callback of the shell and every worker step keeps it.
LEMMA NextKeepsInv ==
  ASSUME Inv, [Next]_vars
  PROVE  Inv'
<1>1. CASE Startup
  BY <1>1, StartupKeepsInv
<1>2. CASE Tick
  BY <1>2, TickKeepsInv
<1>3. CASE QuietPeriod
  BY <1>3, QuietPeriodKeepsInv
<1>4. CASE DrainTimerFires
  BY <1>4, DrainTimerFiresKeepsInv
<1>5. CASE OpenMenu
  BY <1>5, OpenMenuKeepsInv
<1>6. CASE MenuDidClose
  BY <1>6, MenuDidCloseKeepsInv
<1>7. CASE ReopenMenuTimerFires
  BY <1>7, ReopenMenuTimerFiresKeepsInv
<1>8. CASE \E item \in Clickable : ClickItem(item)
  BY <1>8, ClickItemKeepsInv
<1>9. CASE Toggle
  <2>1. CASE ToggleAutoRefresh
    BY <2>1, ToggleAutoRefreshKeepsInv
  <2>2. CASE ToggleShowAppUsage
    BY <2>2, ToggleShowAppUsageKeepsInv
  <2>3. CASE ToggleShowCpu
    BY <2>3, ToggleShowCpuKeepsInv
  <2>4. CASE ToggleShowGpu
    BY <2>4, ToggleShowGpuKeepsInv
  <2>5. CASE ToggleShowSharedMac
    BY <2>5, ToggleShowSharedMacKeepsInv
  <2>6. CASE ToggleShareOverTailscale
    BY <2>6, ToggleShareOverTailscaleKeepsInv
  <2>7. CASE ToggleLaunchAtLogin
    BY <2>7, ToggleLaunchAtLoginKeepsInv
  <2> QED
    BY <1>9, <2>1, <2>2, <2>3, <2>4, <2>5, <2>6, <2>7 DEF Toggle
<1>10. CASE \E w \in Scans : ScanCompletes(w)
  BY <1>10, ScanCompletesKeepsInv
<1>11. CASE \E w \in Fetches : FetchCompletes(w)
  BY <1>11, FetchCompletesKeepsInv
<1>12. CASE UNCHANGED vars
  BY <1>12, StutterKeepsInv
<1> QED
  BY <1>1, <1>2, <1>3, <1>4, <1>5, <1>6, <1>7, <1>8, <1>9, <1>10, <1>11, <1>12 DEF Next

\* So it always holds.
LEMMA Invariance == Spec => []Inv
<1>1. Init => Inv
  BY InitInv
<1>2. Inv /\ [Next]_vars => Inv'
  BY NextKeepsInv
<1> QED
  BY <1>1, <1>2, PTL DEF Spec

\* Every variable keeps its type, the trend window its length and the counters
\* their range, in every behaviour of the engine.
THEOREM TypeCorrect == Spec => []TypeOK
<1>1. Inv => TypeOK
  BY DEF Inv
<1> QED
  BY <1>1, Invariance, PTL

\* app_scan_in_flight is set exactly while one thread owes the answer the engine
\* waits for, whatever was hidden, shown or failed in between (engine.rs:656-744).
THEOREM OneScanAtATime == Spec => []OneScanInFlight
<1>1. Inv => OneScanInFlight
  BY DEF Inv
<1> QED
  BY <1>1, Invariance, PTL

\* The same for shared_fetch_in_flight, across closing and reopening the menu; and
\* no answer from before a close is ever taken (engine.rs:354-362, 508-514, 713-736).
THEOREM OneFetchAtATime == Spec => [](OneFetchInFlight /\ NoFetchOutlivesItsMenu)
<1>1. Inv => OneFetchInFlight /\ NoFetchOutlivesItsMenu
  BY DEF Inv
<1> QED
  BY <1>1, Invariance, PTL

\* An awaited answer of the shared Mac always has a drain coming for it while the
\* menu is open (engine.rs:508-514, 560-585).
THEOREM AnswersAreDrained == Spec => []AwaitedAnswerHasDrain
<1>1. Inv => AwaitedAnswerHasDrain
  BY DEF Inv
<1> QED
  BY <1>1, Invariance, PTL

\* A hidden app list stays hidden, with no baseline and no scan that could bring it
\* back (engine.rs:414-418, 738-744).
THEOREM HiddenAppList == Spec => []HiddenAppsStayHidden
<1>1. Inv => HiddenAppsStayHidden
  BY DEF Inv
<1> QED
  BY <1>1, Invariance, PTL

\* The open dropdown is never behind the engine (engine.rs:509-526, 577-584).
THEOREM DropdownIsCurrent == Spec => []OpenDropdownIsCurrent
<1>1. Inv => OpenDropdownIsCurrent
  BY DEF Inv
<1> QED
  BY <1>1, Invariance, PTL

\* The timer ticks exactly while Auto-Refresh is on, and there is no history while
\* it is off (engine.rs:397-407, 530-540, 604-616).
THEOREM AutoRefresh == Spec => [](TimerFollowsAutoRefresh /\ NoHistoryWithoutTicks)
<1>1. Inv => TimerFollowsAutoRefresh /\ NoHistoryWithoutTicks
  BY DEF Inv
<1> QED
  BY <1>1, Invariance, PTL

\* A refresh no tick asked for adds at most one sample, and only to an empty window.
LEMMA ManualRefreshTrend ==
  ASSUME NEW t0 \in 0 .. MemoryWindowSamples, NEW a0, NEW s0, NEW baseline, NEW schedule,
         Refresh(TRUE, a0, s0, baseline, t0, schedule)
  PROVE  trend' \in {t0, t0 + 1} /\ (t0 # 0 => trend' = t0)
BY DEF Refresh, SampledRefresh, FailedRefresh, UpdateTrend

\* The history grows by ticks only (engine.rs:530-540).
THEOREM HistoryGrowsByTicks == Spec => HistoryAdvancesByTicks
<1>1. ASSUME Inv, [Next]_vars
      PROVE  [trend' > trend => trend = 0 \/ Tick]_vars
  <2> SUFFICES ASSUME Next, ~Tick, trend # 0
               PROVE  ~(trend' > trend)
    BY <1>1
  <2>1. trend \in 1 .. MemoryWindowSamples
    BY <1>1, ConstantsAssumption DEF Inv, TypeOK
  <2>2. CASE trend' = trend
    BY <2>1, <2>2
  <2>3. CASE ToggleAutoRefresh
    <3>1. 0 \in 0 .. MemoryWindowSamples
      BY ConstantsAssumption
    <3>2. Refresh(TRUE, apps, shared, cpu_baseline, 0, FALSE)
      BY <2>3 DEF ToggleAutoRefresh
    <3>3. trend' \in {0, 0 + 1}
      BY <3>1, <3>2, ManualRefreshTrend
    <3> QED
      BY <2>1, <3>3
  <2>4. CASE \E a, s, baseline, schedule : Refresh(TRUE, a, s, baseline, trend, schedule)
    <3>1. PICK a, s, baseline, schedule : Refresh(TRUE, a, s, baseline, trend, schedule)
      BY <2>4
    <3>2. trend \in 0 .. MemoryWindowSamples
      BY <2>1
    <3>3. trend' = trend
      BY <3>1, <3>2, ManualRefreshTrend
    <3> QED
      BY <2>1, <3>3
  <2>5. \/ trend' = trend \/ ToggleAutoRefresh
        \/ \E a, s, baseline, schedule : Refresh(TRUE, a, s, baseline, trend, schedule)
    <3>1. CASE Startup
      BY <3>1 DEF Startup
    <3>2. CASE MenuWillOpen
      BY <3>2 DEF MenuWillOpen
    <3>3. CASE ReopenMenuTimerFires
      BY <3>2, <3>3 DEF ReopenMenuTimerFires, memory
    <3>4. CASE Toggle
      BY <3>4 DEF Toggle, ToggleShowAppUsage, ToggleShowCpu, ToggleShowGpu,
                  ToggleShowSharedMac, ToggleShareOverTailscale, ToggleLaunchAtLogin, memory
    <3>5. CASE QuietPeriod \/ DrainTimerFires \/ MenuDidClose
      BY <3>5 DEF QuietPeriod, DrainTimerFires, MenuDidClose, memory
    <3>6. CASE \/ \E item \in Clickable : ClickItem(item)
               \/ \E w \in Scans : ScanCompletes(w)
               \/ \E w \in Fetches : FetchCompletes(w)
      BY <3>6 DEF ClickItem, ScanCompletes, FetchCompletes, memory
    <3> QED
      BY <3>1, <3>2, <3>3, <3>4, <3>5, <3>6 DEF Next, OpenMenu
  <2> QED
    BY <2>2, <2>3, <2>4, <2>5
<1> QED
  BY <1>1, Invariance, PTL DEF Spec, HistoryAdvancesByTicks

--------------------------------------------------------------------------------
(* What the dropdown shows: the inductive invariant *)

\* The menu is not open before Startup, and is closing while a click is under way.
MenuOrder ==
  /\ menu_open => started
  /\ menu_open /\ clicked # NoItem => menu_closing

\* Only a hidden list is Hidden, and a list that loads with nobody at work on it is
\* scanned by the next sampled refresh, which an open menu has had.
AppsShown ==
  /\ on["ShowAppUsage"] => apps.memory # "Hidden"
  /\ apps.memory = "Loading" /\ ~apps.in_flight =>
       apps.ticks = 0 /\ ~(menu_open /\ last_snapshot)

\* The same for the shared Mac's section, and its age in ticks is its age as long as
\* no period went by without one.
SharedShown ==
  /\ menu_open => (shared.view = "Hidden" <=> ~SharedVisible(on))
  /\ menu_open /\ last_snapshot /\ shared.view = "Loading" => shared.in_flight
  /\ ~shared.quiet => shared.ticks = shared.age

\* The CPU and GPU rows of an open menu follow their settings.
RowsShown ==
  menu_open /\ last_snapshot =>
    /\ last_cpu_state = "Disabled" <=> ~on["ShowCpu"]
    /\ last_gpu_state = "Disabled" <=> ~on["ShowGpu"]

\* Inductive together with Inv.
DropdownInv ==
  /\ MenuOrder
  /\ AppsShown
  /\ SharedShown
  /\ RowsShown
  /\ LoadingCpuIsWarmedUp

--------------------------------------------------------------------------------
(* What one refresh shows *)

\* A drain leaves the list as it was when there is no answer, and settles it
\* otherwise.
LEMMA DrainedApps ==
  ASSUME NEW a \in AppsState, NEW fresh \in BOOLEAN
  PROVE  /\ Answers(scan, a.generation) = {} => DrainAppScanResults(a, fresh) = a
         /\ Answers(scan, a.generation) # {} =>
              /\ DrainAppScanResults(a, fresh).memory
                   \in {"Loaded", "LoadedWithDeltas", "Unavailable"}
              /\ ~DrainAppScanResults(a, fresh).in_flight
         /\ DrainAppScanResults(a, fresh).ticks = a.ticks
BY DEF DrainAppScanResults, AppsState

\* The same for the shared Mac, whose answer is dropped when it is hidden.
LEMMA DrainedShared ==
  ASSUME NEW s \in SharedState, NEW visible \in BOOLEAN
  PROVE  /\ Answers(fetch, s.generation) = {} => DrainSharedFetch(s, visible) = s
         /\ Answers(fetch, s.generation) # {} =>
              /\ DrainSharedFetch(s, visible).view
                   \in IF visible THEN {"Reading", "Offline"} ELSE {s.view}
              /\ ~DrainSharedFetch(s, visible).in_flight
         /\ \/ /\ DrainSharedFetch(s, visible).ticks = s.ticks
               /\ DrainSharedFetch(s, visible).age = s.age
               /\ DrainSharedFetch(s, visible).quiet = s.quiet
            \/ /\ DrainSharedFetch(s, visible).ticks = 0
               /\ DrainSharedFetch(s, visible).age = 0
BY DEF DrainSharedFetch, SharedState

\* The list a handler hands to refresh.
AppsReady(a0) ==
  /\ on'["ShowAppUsage"] => a0.memory # "Hidden"
  /\ a0.memory = "Loading" /\ ~a0.in_flight => a0.ticks = 0

\* A refresh leaves the app list as its setting and its scan have it.
LEMMA RefreshShowsApps ==
  ASSUME Inv, NEW a0 \in AppsState, AppsReady(a0),
         SingleFlight(a0.in_flight, a0.generation, scan),
         NEW manual \in BOOLEAN, NEW sampled \in BOOLEAN, NEW fresh \in BOOLEAN,
         on' \in [Persisted -> BOOLEAN], menu_open' \in BOOLEAN,
         last_snapshot' = sampled,
         RefreshApps(a0, manual, sampled, fresh)
  PROVE  AppsShown'
<1> DEFINE a == DrainAppScanResults(a0, fresh)
           decision == AppScanDecision(menu_open', manual, a.ticks)
<1>1. a \in AppsState /\ scan \in [Scans -> Worker]
  BY DrainApps DEF Inv, TypeOK
<1>2. AppsReady(a)
  <2>1. CASE Answers(scan, a0.generation) = {}
    BY <2>1, DrainedApps
  <2>2. CASE Answers(scan, a0.generation) # {}
    BY <2>2, DrainedApps DEF AppsReady
  <2> QED
    BY <2>1, <2>2
<1> HIDE DEF a
<1>3. /\ decision.scan \in BOOLEAN
      /\ menu_open' /\ ~decision.scan => a.ticks # 0
      /\ ~menu_open' => ~decision.scan /\ decision.ticks = a.ticks
  BY DEF AppScanDecision
<1>4. CASE ~sampled
  <2>1. apps' = a
    BY <1>4 DEF RefreshApps, a
  <2> QED
    BY <1>2, <1>4, <2>1 DEF AppsShown, AppsReady
<1>5. CASE sampled /\ ~on'["ShowAppUsage"]
  <2>1. apps' = ClearAppUsage(a)
    BY <1>5 DEF RefreshApps, a
  <2>2. apps'.memory = "Hidden"
    BY <1>1, <2>1 DEF ClearAppUsage, AppsState
  <2> QED
    BY <1>5, <2>2 DEF AppsShown
<1>6. CASE sampled /\ on'["ShowAppUsage"]
  <2>1. apps' = [a EXCEPT !.ticks = decision.ticks,
                          !.in_flight = a.in_flight \/ decision.scan]
    BY <1>6 DEF RefreshApps, a
  <2>2. /\ apps'.memory = a.memory /\ apps'.ticks = decision.ticks
        /\ apps'.in_flight = (a.in_flight \/ decision.scan)
    BY <1>1, <2>1 DEF AppsState
  <2> HIDE DEF decision
  <2>3. ASSUME apps'.memory = "Loading", ~apps'.in_flight
        PROVE  apps'.ticks = 0 /\ ~menu_open'
    <3>1. a.memory = "Loading" /\ ~a.in_flight /\ ~decision.scan
      BY <1>1, <1>3, <2>2, <2>3 DEF AppsState
    <3> QED
      BY <1>2, <1>3, <2>2, <3>1 DEF AppsReady
  <2> QED
    BY <1>2, <1>6, <2>2, <2>3 DEF AppsShown, AppsReady
<1> QED
  BY <1>4, <1>5, <1>6

\* The shared Mac a handler hands to refresh.
SharedReady(s0) ==
  /\ menu_open' => (s0.view = "Hidden" <=> ~SharedVisible(on'))
  /\ ~s0.quiet => s0.ticks = s0.age

\* And the shared Mac's section as its setting and its fetch have it.
LEMMA RefreshShowsShared ==
  ASSUME Inv, NEW s0 \in SharedState, SharedReady(s0),
         SingleFlight(s0.in_flight, s0.generation, fetch),
         on' \in [Persisted -> BOOLEAN], menu_open' \in BOOLEAN,
         \/ menu_open' /\ RefreshShared(s0, Asks(s0))
         \/ shared' = s0 /\ ~(menu_open' /\ last_snapshot')
  PROVE  SharedShown'
<1> DEFINE s == DrainSharedFetch(s0, SharedVisible(on'))
<1>1. SharedVisible(on') \in BOOLEAN
  BY ConstantsAssumption DEF SharedVisible, Persisted, Setting
<1>2. CASE shared' = s0 /\ ~(menu_open' /\ last_snapshot')
  BY <1>2 DEF SharedShown, SharedReady
<1>3. CASE menu_open' /\ RefreshShared(s0, Asks(s0))
  <2>1. s \in SharedState /\ fetch \in [Fetches -> Worker]
    BY <1>1, DrainShared DEF Inv, TypeOK
  <2>2. s.view = "Hidden" <=> ~SharedVisible(on')
    BY <1>1, <1>3, DrainedShared DEF SharedReady
  <2>3. ~s.quiet => s.ticks = s.age
    BY <1>1, DrainedShared DEF SharedReady
  <2>4. shared' = [s EXCEPT !.in_flight = s.in_flight \/ Asks(s0)]
    BY <1>3 DEF RefreshShared
  <2>5. Asks(s0) <=> menu_open' /\ SharedVisible(on') /\ ~s.in_flight
    BY DEF Asks
  <2> HIDE DEF s
  <2>6. /\ shared'.view = s.view /\ shared'.quiet = s.quiet
        /\ shared'.ticks = s.ticks /\ shared'.age = s.age
        /\ shared'.in_flight = (s.in_flight \/ Asks(s0))
    BY <2>1, <2>4 DEF SharedState
  <2>7. SharedVisible(on') => shared'.in_flight
    BY <1>3, <2>1, <2>5, <2>6 DEF SharedState
  <2> QED
    BY <1>3, <2>2, <2>3, <2>6, <2>7 DEF SharedShown
<1> QED
  BY <1>2, <1>3

\* A reading of the CPU in an open menu: Loading only with a first reading taken.
LEMMA CpuSampleShows ==
  ASSUME NEW baseline \in BOOLEAN, on' \in [Persisted -> BOOLEAN], menu_open',
         SampleCpuIfVisible(baseline)
  PROVE  /\ last_cpu_state' = "Disabled" <=> ~on'["ShowCpu"]
         /\ on'["ShowCpu"] /\ last_cpu_state' = "Loading" => ~baseline /\ cpu_baseline'
<1>1. CASE on'["ShowCpu"]
  <2>1. PICK ok \in BOOLEAN :
          /\ last_cpu_state' = IF ~ok THEN "Unavailable"
                               ELSE IF baseline THEN "Available" ELSE "Loading"
          /\ cpu_baseline' = ok
    BY <1>1 DEF SampleCpuIfVisible, MayFail
  <2>2. CASE ok
    BY <1>1, <2>1, <2>2
  <2>3. CASE ~ok
    BY <1>1, <2>1, <2>3
  <2> QED
    BY <2>2, <2>3
<1>2. CASE ~on'["ShowCpu"]
  BY <1>2 DEF SampleCpuIfVisible
<1> QED
  BY <1>1, <1>2

\* What every handler that ends in a refresh leaves on show.
Ready(a0, s0, schedule) ==
  /\ AppsReady(a0)
  /\ SharedReady(s0)
  /\ menu_open' /\ ~menu_closing' => on'["AutoRefresh"] \/ schedule

\* A refresh leaves the whole dropdown so.
LEMMA RefreshShows ==
  ASSUME Inv, NEW a0, NEW s0, NEW baseline, NEW t0, NEW schedule,
         NEW manual \in BOOLEAN,
         Refreshable(a0, s0, baseline, t0, schedule), Ready(a0, s0, schedule),
         Refresh(manual, a0, s0, baseline, t0, schedule)
  PROVE  AppsShown' /\ SharedShown' /\ RowsShown' /\ LoadingCpuIsWarmedUp'
<1> USE DEF Refreshable, Ready
<1>1. SingleFlight(s0.in_flight, s0.generation, fetch)
  BY DEF Inv, OneFetchInFlight
<1>2. CASE SampledRefresh(manual, a0, s0, baseline, t0, schedule)
  <2>1. /\ last_snapshot' = TRUE
        /\ \E fresh \in BOOLEAN : RefreshApps(a0, manual, TRUE, fresh)
        /\ drain_timer' = (drain_timer \/ Asks(s0) \/ schedule)
    BY <1>2 DEF SampledRefresh
  <2>2. AppsShown'
    BY <2>1, RefreshShowsApps
  <2>3. CASE menu_open'
    <3>1. RefreshShared(s0, Asks(s0)) /\ SampleCpuIfVisible(baseline) /\ SampleGpuIfVisible
      BY <1>2, <2>3 DEF SampledRefresh
    <3>2. SharedShown'
      BY <1>1, <2>3, <3>1, RefreshShowsShared
    <3>3. /\ last_cpu_state' = "Disabled" <=> ~on'["ShowCpu"]
          /\ on'["ShowCpu"] /\ last_cpu_state' = "Loading" => cpu_baseline'
      BY <2>3, <3>1, CpuSampleShows
    <3>4. last_gpu_state' = "Disabled" <=> ~on'["ShowGpu"]
      BY <2>3, <3>1 DEF SampleGpuIfVisible
    <3>5. RowsShown'
      BY <3>3, <3>4 DEF RowsShown
    <3>6. LoadingCpuIsWarmedUp'
      BY <2>1, <3>3 DEF LoadingCpuIsWarmedUp
    <3> QED
      BY <2>2, <3>2, <3>5, <3>6
  <2>4. CASE ~menu_open'
    <3>1. shared' = s0
      BY <1>2, <2>4 DEF SampledRefresh
    <3>2. SharedShown'
      BY <1>1, <2>4, <3>1, RefreshShowsShared
    <3> QED
      BY <2>2, <2>4, <3>2 DEF RowsShown, LoadingCpuIsWarmedUp
  <2> QED
    BY <2>3, <2>4
<1>3. CASE FailedRefresh(a0, s0, baseline, t0, schedule)
  <2>1. /\ last_snapshot' = FALSE /\ shared' = s0
        /\ \E fresh \in BOOLEAN : RefreshApps(a0, FALSE, FALSE, fresh)
    BY <1>3 DEF FailedRefresh
  <2>2. AppsShown'
    BY <2>1, RefreshShowsApps
  <2>3. SharedShown'
    BY <1>1, <2>1, RefreshShowsShared
  <2> QED
    BY <2>1, <2>2, <2>3 DEF RowsShown, LoadingCpuIsWarmedUp
<1> QED
  BY <1>2, <1>3 DEF Refresh

--------------------------------------------------------------------------------
(* The callbacks that end in a refresh *)

\* What a handler may do to the two sections before it refreshes: show Loading where
\* one appears or the menu opens, hide what is off, and leave a flight alone.
From(a0, s0) ==
  /\ on'["ShowAppUsage"] =>
       /\ a0.in_flight = apps.in_flight /\ a0.generation = apps.generation
       /\ \/ a0.memory = apps.memory
          \/ apps.memory = "Hidden" /\ a0.memory = "Loading"
  /\ s0.view \in {shared.view, "Hidden"}
       \union IF shared.view = "Hidden" \/ ~menu_open THEN {"Loading"} ELSE {}

Refreshes ==
  \E manual \in BOOLEAN : \E a0, s0, baseline, t0, schedule :
    /\ Refreshable(a0, s0, baseline, t0, schedule)
    /\ Ready(a0, s0, schedule)
    /\ From(a0, s0)
    /\ Refresh(manual, a0, s0, baseline, t0, schedule)

LEMMA StartupRefreshes ==
  ASSUME Inv, DropdownInv, Startup
  PROVE  Refreshes /\ MenuOrder'
<1>1. /\ on' \in [Persisted -> BOOLEAN]
      /\ \A item \in Persisted \ {"ShareOverTailscale"} : on'[item] = on[item]
  BY ShareTouchesOneItem DEF Startup, Inv, TypeOK
<1>2. /\ on'["AutoRefresh"] = on["AutoRefresh"] /\ on'["ShowAppUsage"] = on["ShowAppUsage"]
      /\ SharedVisible(on') = SharedVisible(on)
  BY <1>1 DEF SharedVisible, Persisted, Setting
<1>3. Refreshable(apps, shared, cpu_baseline, trend, FALSE)
  BY <1>1, <1>2 DEF Startup, Refreshable, Inv, TypeOK, OneScanInFlight, HiddenAppsStayHidden,
                   HiddenApps, AwaitedAnswerHasDrain, NoHistoryWithoutTicks
<1>4. Ready(apps, shared, FALSE)
  BY <1>2 DEF Startup, Ready, AppsReady, SharedReady, DropdownInv, MenuOrder, AppsShown,
              SharedShown
<1>5. From(apps, shared)
  BY DEF From
<1>6. MenuOrder'
  BY DEF Startup, DropdownInv, MenuOrder, appkit
<1> QED
  BY <1>3, <1>4, <1>5, <1>6 DEF Refreshes, Startup

LEMMA TickRefreshes ==
  ASSUME Inv, DropdownInv, Tick, on["AutoRefresh"]
  PROVE  Refreshes /\ MenuOrder'
<1> DEFINE s == [shared EXCEPT !.ticks = Older(shared.ticks), !.age = Older(shared.age)]
<1>1. shared \in SharedState
  BY DEF Inv, TypeOK
<1>2. Older(shared.ticks) \in 0 .. SharedStaleTicks /\ Older(shared.age) \in 0 .. SharedStaleTicks
  BY <1>1, OlderType DEF SharedState
<1>3. /\ s \in SharedState
      /\ s.view = shared.view /\ s.quiet = shared.quiet
      /\ s.ticks = Older(shared.ticks) /\ s.age = Older(shared.age)
      /\ s.in_flight = shared.in_flight /\ s.generation = shared.generation
  BY <1>1, <1>2 DEF SharedState
<1>4. Refresh(FALSE, apps, s, cpu_baseline, trend, FALSE) /\ UNCHANGED <<on, menu_open>>
  BY DEF Tick
<1> HIDE DEF s
<1>5. Refreshable(apps, s, cpu_baseline, trend, FALSE)
  BY <1>3, <1>4 DEF Refreshable, Inv, TypeOK, OneScanInFlight, HiddenAppsStayHidden,
                   HiddenApps, AwaitedAnswerHasDrain, NoHistoryWithoutTicks
<1>6. Ready(apps, s, FALSE)
  BY <1>3, <1>4 DEF Ready, AppsReady, SharedReady, DropdownInv, AppsShown, SharedShown
<1>7. From(apps, s)
  BY <1>3 DEF From
<1>8. MenuOrder'
  BY DEF Tick, DropdownInv, MenuOrder, appkit
<1> QED
  BY <1>4, <1>5, <1>6, <1>7, <1>8 DEF Refreshes

LEMMA MenuWillOpenRefreshes ==
  ASSUME Inv, DropdownInv, MenuWillOpen
  PROVE  Refreshes /\ MenuOrder'
<1> DEFINE s == MarkStaleSharedReading(shared)
<1>1. shared \in SharedState /\ SharedVisible(on) \in BOOLEAN
  BY ConstantsAssumption DEF Inv, TypeOK, SharedVisible, Persisted, Setting
<1>2. /\ s \in SharedState
      /\ s.in_flight = shared.in_flight /\ s.generation = shared.generation
      /\ s.ticks = shared.ticks /\ s.age = shared.age /\ s.quiet = shared.quiet
      /\ s.view \in {shared.view, "Hidden", "Loading"}
      /\ s.view = "Hidden" <=> ~SharedVisible(on)
  BY <1>1 DEF MarkStaleSharedReading, SharedState, SharedMac
<1>3. /\ started /\ ~menu_open /\ menu_open' = TRUE
      /\ UNCHANGED <<on, started, menu_closing, clicked>> /\ clicked = NoItem
      /\ Refresh(TRUE, apps, s, cpu_baseline, trend, TRUE)
  BY DEF MenuWillOpen, appkit
<1> HIDE DEF s
<1>4. Refreshable(apps, s, cpu_baseline, trend, TRUE)
  BY <1>2, <1>3 DEF Refreshable, Inv, TypeOK, OneScanInFlight, HiddenAppsStayHidden,
                   HiddenApps, NoHistoryWithoutTicks
<1>5. Ready(apps, s, TRUE)
  BY <1>2, <1>3 DEF Ready, AppsReady, SharedReady, DropdownInv, AppsShown, SharedShown
<1>6. From(apps, s)
  BY <1>2, <1>3 DEF From
<1>7. MenuOrder'
  BY <1>3 DEF MenuOrder
<1> QED
  BY <1>3, <1>4, <1>5, <1>6, <1>7 DEF Refreshes

\* The menu a click came from is closing or closed, so a toggle owes no warm-up.
LEMMA ToggleRefreshes ==
  ASSUME DropdownInv, NEW item \in Setting, Clicked(item),
         NEW a0, NEW s0, NEW baseline, NEW t0, NEW schedule,
         Refreshable(a0, s0, baseline, t0, schedule),
         AppsReady(a0), SharedReady(s0), From(a0, s0),
         Refresh(TRUE, a0, s0, baseline, t0, schedule)
  PROVE  Refreshes /\ MenuOrder'
<1>1. clicked # NoItem
  BY DEF Clicked, Setting, NoItem
<1>2. menu_open => menu_closing
  BY <1>1 DEF DropdownInv, MenuOrder
<1>3. Ready(a0, s0, schedule)
  BY <1>2 DEF Ready, Clicked
<1>4. MenuOrder'
  BY DEF Clicked, MenuOrder, DropdownInv
<1> QED
  BY <1>3, <1>4 DEF Refreshes

\* A toggle that leaves the list and the shared Mac as they are.
LEMMA KeptSections ==
  ASSUME DropdownInv, UNCHANGED menu_open,
         on'["ShowAppUsage"] = on["ShowAppUsage"], on'["ShowSharedMac"] = on["ShowSharedMac"]
  PROVE  AppsReady(apps) /\ SharedReady(shared) /\ From(apps, shared)
BY DEF AppsReady, SharedReady, From, DropdownInv, AppsShown, SharedShown, SharedVisible

LEMMA ToggleAutoRefreshRefreshes ==
  ASSUME Inv, DropdownInv, ToggleAutoRefresh
  PROVE  Refreshes /\ MenuOrder'
<1>1. /\ Clicked("AutoRefresh") /\ on' = Flipped("AutoRefresh")
      /\ Refresh(TRUE, apps, shared, cpu_baseline, 0, FALSE)
      /\ UNCHANGED menu_open
  BY DEF ToggleAutoRefresh, Clicked
<1>2. /\ on' \in [Persisted -> BOOLEAN] /\ on'["ShowAppUsage"] = on["ShowAppUsage"]
      /\ on'["ShowSharedMac"] = on["ShowSharedMac"]
  BY <1>1, FlippedSettings, PersistedItems DEF Inv, TypeOK
<1>3. 0 \in 0 .. MemoryWindowSamples
  BY ConstantsAssumption
<1>4. Refreshable(apps, shared, cpu_baseline, 0, FALSE)
  BY <1>1, <1>2, <1>3 DEF Refreshable, Inv, TypeOK, OneScanInFlight, HiddenAppsStayHidden,
                         HiddenApps, AwaitedAnswerHasDrain
<1> QED
  BY <1>1, <1>2, <1>4, KeptSections, ToggleRefreshes DEF Setting

LEMMA ToggleShowAppUsageRefreshes ==
  ASSUME Inv, DropdownInv, ToggleShowAppUsage
  PROVE  Refreshes /\ MenuOrder'
<1> DEFINE a == IF on'["ShowAppUsage"] THEN [apps EXCEPT !.memory = "Loading", !.ticks = 0]
                ELSE ClearAppUsage(apps)
<1>1. /\ Clicked("ShowAppUsage") /\ on' = Flipped("ShowAppUsage")
      /\ Refresh(TRUE, a, shared, cpu_baseline, trend, FALSE)
      /\ UNCHANGED menu_open
  BY DEF ToggleShowAppUsage, Clicked
<1>2. /\ on' \in [Persisted -> BOOLEAN] /\ on'["ShowAppUsage"] = ~on["ShowAppUsage"]
      /\ on'["AutoRefresh"] = on["AutoRefresh"]
      /\ on'["ShowSharedMac"] = on["ShowSharedMac"]
  BY <1>1, FlippedSettings, PersistedItems DEF Inv, TypeOK
<1>3. apps \in AppsState /\ scan \in [Scans -> Worker]
  BY DEF Inv, TypeOK
<1>4. CASE on'["ShowAppUsage"]
  <2>1. a = [apps EXCEPT !.memory = "Loading", !.ticks = 0]
    BY <1>4
  <2> HIDE DEF a
  <2>2. 0 \in 0 .. AppRefreshIntervalTicks - 1
    BY ConstantsAssumption
  <2>3. /\ a \in AppsState /\ a.memory = "Loading" /\ a.ticks = 0
        /\ a.in_flight = apps.in_flight /\ a.generation = apps.generation
    BY <1>3, <2>1, <2>2 DEF AppsState, AppMemorySnapshot
  <2>4. apps.memory = "Hidden"
    BY <1>2, <1>4 DEF Inv, HiddenAppsStayHidden
  <2>5. Refreshable(a, shared, cpu_baseline, trend, FALSE)
    BY <1>1, <1>2, <1>4, <2>3 DEF Refreshable, Inv, TypeOK, OneScanInFlight,
                                  AwaitedAnswerHasDrain, NoHistoryWithoutTicks
  <2>6. AppsReady(a) /\ From(a, shared)
    BY <2>3, <2>4 DEF AppsReady, From
  <2>7. SharedReady(shared)
    BY <1>1, <1>2 DEF SharedReady, DropdownInv, SharedShown, SharedVisible
  <2> QED
    BY <1>1, <2>5, <2>6, <2>7, ToggleRefreshes DEF Setting
<1>5. CASE ~on'["ShowAppUsage"]
  <2>1. a = ClearAppUsage(apps)
    BY <1>5
  <2> HIDE DEF a
  <2>2. a \in AppsState /\ SingleFlight(a.in_flight, a.generation, scan) /\ HiddenApps(a, scan)
    BY <1>3, <2>1, ClearApps
  <2>3. Refreshable(a, shared, cpu_baseline, trend, FALSE)
    BY <1>1, <1>2, <2>2 DEF Refreshable, Inv, TypeOK, AwaitedAnswerHasDrain,
                            NoHistoryWithoutTicks
  <2>4. AppsReady(a) /\ From(a, shared)
    BY <1>5, <2>2 DEF AppsReady, From, HiddenApps
  <2>5. SharedReady(shared)
    BY <1>1, <1>2 DEF SharedReady, DropdownInv, SharedShown, SharedVisible
  <2> QED
    BY <1>1, <2>3, <2>4, <2>5, ToggleRefreshes DEF Setting
<1> QED
  BY <1>4, <1>5

LEMMA ToggleShowCpuRefreshes ==
  ASSUME Inv, DropdownInv, ToggleShowCpu
  PROVE  Refreshes /\ MenuOrder'
<1>1. /\ Clicked("ShowCpu") /\ on' = Flipped("ShowCpu")
      /\ Refresh(TRUE, apps, shared, FALSE, trend, on'["ShowCpu"] /\ menu_open)
      /\ UNCHANGED menu_open
  BY DEF ToggleShowCpu, Clicked
<1>2. /\ on' \in [Persisted -> BOOLEAN] /\ on'["ShowAppUsage"] = on["ShowAppUsage"]
      /\ on'["AutoRefresh"] = on["AutoRefresh"]
      /\ on'["ShowSharedMac"] = on["ShowSharedMac"]
  BY <1>1, FlippedSettings, PersistedItems DEF Inv, TypeOK
<1>3. (on'["ShowCpu"] /\ menu_open) \in BOOLEAN
  BY <1>2, PersistedItems DEF Inv, TypeOK
<1>4. Refreshable(apps, shared, FALSE, trend, on'["ShowCpu"] /\ menu_open)
  BY <1>1, <1>2, <1>3 DEF Refreshable, Inv, TypeOK, OneScanInFlight, HiddenAppsStayHidden,
                         HiddenApps, AwaitedAnswerHasDrain, NoHistoryWithoutTicks
<1> QED
  BY <1>1, <1>2, <1>4, KeptSections, ToggleRefreshes DEF Setting

LEMMA ToggleShowGpuRefreshes ==
  ASSUME Inv, DropdownInv, ToggleShowGpu
  PROVE  Refreshes /\ MenuOrder'
<1>1. /\ Clicked("ShowGpu") /\ on' = Flipped("ShowGpu")
      /\ Refresh(TRUE, apps, shared, cpu_baseline, trend, FALSE)
      /\ UNCHANGED menu_open
  BY DEF ToggleShowGpu, Clicked
<1>2. /\ on' \in [Persisted -> BOOLEAN] /\ on'["ShowAppUsage"] = on["ShowAppUsage"]
      /\ on'["AutoRefresh"] = on["AutoRefresh"]
      /\ on'["ShowSharedMac"] = on["ShowSharedMac"]
  BY <1>1, FlippedSettings, PersistedItems DEF Inv, TypeOK
<1>3. Refreshable(apps, shared, cpu_baseline, trend, FALSE)
  BY <1>1, <1>2 DEF Refreshable, Inv, TypeOK, OneScanInFlight, HiddenAppsStayHidden,
                   HiddenApps, AwaitedAnswerHasDrain, NoHistoryWithoutTicks
<1> QED
  BY <1>1, <1>2, <1>3, KeptSections, ToggleRefreshes DEF Setting

LEMMA ToggleShowSharedMacRefreshes ==
  ASSUME Inv, DropdownInv, ToggleShowSharedMac
  PROVE  Refreshes /\ MenuOrder'
<1> DEFINE s == [shared EXCEPT !.view = IF SharedVisible(on') THEN "Loading" ELSE "Hidden"]
<1>1. /\ Clicked("ShowSharedMac") /\ on' = Flipped("ShowSharedMac")
      /\ Refresh(TRUE, apps, s, cpu_baseline, trend, FALSE)
      /\ UNCHANGED menu_open
  BY DEF ToggleShowSharedMac, Clicked
<1>2. /\ on' \in [Persisted -> BOOLEAN] /\ on'["ShowAppUsage"] = on["ShowAppUsage"]
      /\ on'["AutoRefresh"] = on["AutoRefresh"]
      /\ on'["ShowSharedMac"] = ~on["ShowSharedMac"]
  BY <1>1, FlippedSettings, PersistedItems DEF Inv, TypeOK
<1>3. SharedVisible(on') /\ menu_open => shared.view = "Hidden"
  BY <1>2, ConstantsAssumption DEF SharedVisible, DropdownInv, SharedShown
<1>4. /\ s \in SharedState
      /\ s.in_flight = shared.in_flight /\ s.generation = shared.generation
      /\ s.ticks = shared.ticks /\ s.age = shared.age /\ s.quiet = shared.quiet
      /\ s.view = IF SharedVisible(on') THEN "Loading" ELSE "Hidden"
  BY DEF Inv, TypeOK, SharedState, SharedMac
<1> HIDE DEF s
<1>5. Refreshable(apps, s, cpu_baseline, trend, FALSE)
  BY <1>1, <1>2, <1>4 DEF Refreshable, Inv, TypeOK, OneScanInFlight, HiddenAppsStayHidden,
                         HiddenApps, AwaitedAnswerHasDrain, NoHistoryWithoutTicks
<1>6. AppsReady(apps) /\ SharedReady(s)
  BY <1>1, <1>2, <1>4 DEF AppsReady, SharedReady, DropdownInv, AppsShown, SharedShown
<1>7. From(apps, s)
  BY <1>3, <1>4 DEF From
<1> QED
  BY <1>1, <1>5, <1>6, <1>7, ToggleRefreshes DEF Setting

LEMMA ToggleLaunchAtLoginRefreshes ==
  ASSUME Inv, DropdownInv, ToggleLaunchAtLogin
  PROVE  Refreshes /\ MenuOrder'
<1>1. /\ Clicked("LaunchAtLogin")
      /\ Refresh(TRUE, apps, shared, cpu_baseline, trend, FALSE)
      /\ UNCHANGED <<on, menu_open>>
  BY DEF ToggleLaunchAtLogin, Clicked
<1>2. Refreshable(apps, shared, cpu_baseline, trend, FALSE)
  BY <1>1 DEF Refreshable, Inv, TypeOK, OneScanInFlight, HiddenAppsStayHidden,
              HiddenApps, AwaitedAnswerHasDrain, NoHistoryWithoutTicks
<1> QED
  BY <1>1, <1>2, KeptSections, ToggleRefreshes DEF Setting

--------------------------------------------------------------------------------
(* The other steps *)

\* A step that samples nothing and takes no answer: time, a click, Share over
\* Tailscale, a worker that ends.
Rests ==
  /\ \A item \in Persisted \ {"ShareOverTailscale"} : on'[item] = on[item]
  /\ menu_closing => menu_closing'
  /\ shared'.view = shared.view
  /\ shared'.in_flight = shared.in_flight /\ shared'.generation = shared.generation
  /\ ~shared'.quiet => shared'.ticks = shared'.age
  /\ UNCHANGED <<menu_open, apps, last_snapshot, last_cpu_state, cpu_baseline,
                 last_gpu_state, drain_timer>>
  /\ MenuOrder'

\* A step that touches none of it.
LEMMA RestKeepsDropdown ==
  ASSUME DropdownInv, Rests
  PROVE  DropdownInv'
<1>1. /\ on'["ShowAppUsage"] = on["ShowAppUsage"] /\ on'["AutoRefresh"] = on["AutoRefresh"]
      /\ on'["ShowCpu"] = on["ShowCpu"] /\ on'["ShowGpu"] = on["ShowGpu"]
      /\ on'["ShowSharedMac"] = on["ShowSharedMac"]
  BY DEF Rests, Persisted, Setting
<1>2. AppsShown'
  BY <1>1 DEF Rests, DropdownInv, AppsShown
<1>3. SharedShown'
  BY <1>1 DEF Rests, DropdownInv, SharedShown, SharedVisible
<1>4. RowsShown' /\ LoadingCpuIsWarmedUp'
  BY <1>1 DEF Rests, DropdownInv, RowsShown, LoadingCpuIsWarmedUp
<1> QED
  BY <1>2, <1>3, <1>4 DEF Rests, DropdownInv

LEMMA TickRests ==
  ASSUME Inv, DropdownInv, Tick, ~on["AutoRefresh"]
  PROVE  Rests
<1>1. shared' = [shared EXCEPT !.ticks = Older(shared.ticks), !.age = Older(shared.age)]
  BY DEF Tick
<1>2. shared \in SharedState
  BY DEF Inv, TypeOK
<1>3. /\ shared'.view = shared.view /\ shared'.quiet = shared.quiet
      /\ shared'.ticks = Older(shared.ticks) /\ shared'.age = Older(shared.age)
      /\ shared'.in_flight = shared.in_flight /\ shared'.generation = shared.generation
  BY <1>1, <1>2 DEF SharedState
<1>4. MenuOrder'
  BY DEF Tick, DropdownInv, MenuOrder, appkit
<1> QED
  BY <1>3, <1>4 DEF Tick, Rests, DropdownInv, SharedShown, appkit, memory

LEMMA QuietPeriodRests ==
  ASSUME Inv, DropdownInv, QuietPeriod
  PROVE  Rests
<1>1. shared' = [shared EXCEPT !.age = Older(shared.age), !.quiet = TRUE]
  BY DEF QuietPeriod
<1>2. shared \in SharedState
  BY DEF Inv, TypeOK
<1>3. /\ shared'.view = shared.view /\ shared'.quiet = TRUE
      /\ shared'.in_flight = shared.in_flight /\ shared'.generation = shared.generation
  BY <1>1, <1>2 DEF SharedState
<1>4. MenuOrder'
  BY DEF QuietPeriod, DropdownInv, MenuOrder, appkit
<1> QED
  BY <1>3, <1>4 DEF QuietPeriod, Rests, appkit, memory, timers

\* The remaining steps that rest: the menu's, the share setting's and the workers'.
LEMMA OthersRest ==
  ASSUME Inv, DropdownInv,
         \/ UNCHANGED <<started, on, menu_open, appkit, modules, memory, drain_timer>>
         \/ \E item \in Clickable : ClickItem(item)
         \/ ToggleShareOverTailscale
         \/ \E w \in Scans : ScanCompletes(w)
         \/ \E w \in Fetches : FetchCompletes(w)
  PROVE  Rests
<1>1. \A item \in Persisted \ {"ShareOverTailscale"} : on'[item] = on[item]
  <2>1. CASE ToggleShareOverTailscale
    <3>1. /\ Flipped("ShareOverTailscale") \in [Persisted -> BOOLEAN]
          /\ \A item \in Persisted \ {"ShareOverTailscale"} :
               Flipped("ShareOverTailscale")[item] = on[item]
      BY FlippedSettings, PersistedItems DEF Inv, TypeOK
    <3>2. Share(Flipped("ShareOverTailscale"))
      BY <2>1 DEF ToggleShareOverTailscale
    <3> QED
      BY <3>1, <3>2, ShareTouchesOneItem
  <2>2. CASE UNCHANGED on
    BY <2>2
  <2> QED
    BY <2>1, <2>2 DEF ClickItem, ScanCompletes, FetchCompletes
<1>2. /\ menu_closing => menu_closing'
      /\ UNCHANGED <<menu_open, apps, shared, last_snapshot, last_cpu_state, cpu_baseline,
                     last_gpu_state, drain_timer>>
  BY DEF ClickItem, ToggleShareOverTailscale, Clicked, ScanCompletes, FetchCompletes,
         appkit, modules, memory, timers
<1>3. MenuOrder'
  <2>1. CASE UNCHANGED <<started, menu_open, menu_closing, clicked>>
    BY <2>1 DEF DropdownInv, MenuOrder
  <2>2. CASE \E item \in Clickable : ClickItem(item)
    BY <2>2 DEF ClickItem, DropdownInv, MenuOrder
  <2>3. CASE ToggleShareOverTailscale
    BY <2>3 DEF ToggleShareOverTailscale, Clicked, DropdownInv, MenuOrder
  <2> QED
    BY <2>1, <2>2, <2>3 DEF ScanCompletes, FetchCompletes, appkit
<1>4. ~shared'.quiet => shared'.ticks = shared'.age
  BY <1>2 DEF DropdownInv, SharedShown
<1> QED
  BY <1>1, <1>2, <1>3, <1>4 DEF Rests

\* A drain that takes the answer settles the section, and warms a Loading CPU row.
LEMMA DrainTimerFiresKeepsDropdown ==
  ASSUME Inv, DropdownInv, DrainTimerFires, Inv'
  PROVE  DropdownInv'
<1>1. UNCHANGED <<on, menu_open, started, menu_closing, clicked, last_snapshot>>
  BY DEF DrainTimerFires, appkit, memory
<1>2. MenuOrder'
  BY <1>1 DEF DropdownInv, MenuOrder
<1>3. CASE menu_open
  <2>1. PICK fresh \in BOOLEAN : apps' = DrainAppScanResults(apps, fresh)
    BY <1>3 DEF DrainTimerFires
  <2>2. /\ shared' = DrainSharedFetch(shared, SharedVisible(on))
        /\ WarmUpCpu /\ UNCHANGED last_gpu_state
    BY <1>3 DEF DrainTimerFires
  <2>3. apps \in AppsState /\ shared \in SharedState /\ SharedVisible(on) \in BOOLEAN
    BY ConstantsAssumption DEF Inv, TypeOK, SharedVisible, Persisted, Setting
  <2>4. AppsShown'
    <3>1. CASE Answers(scan, apps.generation) = {}
      BY <1>1, <2>1, <2>3, <3>1, DrainedApps DEF DropdownInv, AppsShown
    <3>2. CASE Answers(scan, apps.generation) # {}
      BY <2>1, <2>3, <3>2, DrainedApps DEF AppsShown
    <3> QED
      BY <3>1, <3>2
  <2>5. SharedShown'
    <3>1. ~shared'.quiet => shared'.ticks = shared'.age
      BY <2>2, <2>3, DrainedShared DEF DropdownInv, SharedShown
    <3>2. CASE Answers(fetch, shared.generation) = {}
      BY <1>1, <2>2, <2>3, <3>2, DrainedShared DEF DropdownInv, SharedShown
    <3>3. CASE Answers(fetch, shared.generation) # {}
      BY <1>1, <1>3, <2>2, <2>3, <3>1, <3>3, DrainedShared DEF DropdownInv, SharedShown
    <3> QED
      BY <3>2, <3>3
  <2>6. CASE last_cpu_state = "Loading"
    <3>1. SampleCpuIfVisible(cpu_baseline) /\ cpu_baseline \in BOOLEAN
      BY <2>2, <2>6 DEF WarmUpCpu, Inv, TypeOK
    <3>2. on' \in [Persisted -> BOOLEAN] /\ menu_open'
      BY <1>1, <1>3 DEF Inv, TypeOK
    <3>3. /\ last_cpu_state' = "Disabled" <=> ~on'["ShowCpu"]
          /\ on'["ShowCpu"] /\ last_cpu_state' = "Loading" => ~cpu_baseline
      BY <3>1, <3>2, CpuSampleShows
    <3>4. RowsShown'
      BY <1>1, <2>2, <3>3 DEF DropdownInv, RowsShown
    <3>5. LoadingCpuIsWarmedUp'
      BY <1>1, <2>6, <3>3 DEF DropdownInv, LoadingCpuIsWarmedUp
    <3> QED
      BY <1>2, <2>4, <2>5, <3>4, <3>5 DEF DropdownInv
  <2>7. CASE last_cpu_state # "Loading"
    <3>1. RowsShown' /\ LoadingCpuIsWarmedUp'
      BY <1>1, <2>2, <2>7 DEF WarmUpCpu, DropdownInv, RowsShown, LoadingCpuIsWarmedUp
    <3> QED
      BY <1>2, <2>4, <2>5, <3>1 DEF DropdownInv
  <2> QED
    BY <2>6, <2>7
<1>4. CASE ~menu_open
  <2>1. UNCHANGED <<apps, shared, last_cpu_state, last_gpu_state>>
    BY <1>4 DEF DrainTimerFires, modules
  <2> QED
    BY <1>1, <1>2, <1>4, <2>1
       DEF DropdownInv, AppsShown, SharedShown, RowsShown, LoadingCpuIsWarmedUp
<1> QED
  BY <1>3, <1>4

\* A menu that closes shows nothing, and its fetch is forgotten.
LEMMA MenuDidCloseKeepsDropdown ==
  ASSUME Inv, DropdownInv, MenuDidClose
  PROVE  DropdownInv'
<1>1. /\ menu_open' = FALSE /\ apps' = [apps EXCEPT !.ticks = 0]
      /\ shared' = [shared EXCEPT !.generation = Bumped(shared.generation, fetch),
                                  !.in_flight = FALSE]
      /\ UNCHANGED on
  BY DEF MenuDidClose
<1>2. /\ apps'.memory = apps.memory /\ apps'.ticks = 0
      /\ shared'.quiet = shared.quiet
      /\ shared'.ticks = shared.ticks /\ shared'.age = shared.age
  BY <1>1 DEF Inv, TypeOK, AppsState, SharedState
<1> QED
  BY <1>1, <1>2 DEF DropdownInv, MenuOrder, AppsShown, SharedShown, RowsShown,
                    LoadingCpuIsWarmedUp

--------------------------------------------------------------------------------
(* The invariant of the dropdown, and what follows from it *)

\* Every step is one of six kinds.
LEMMA StepKinds ==
  ASSUME Inv, DropdownInv, [Next]_vars
  PROVE  \/ Refreshes /\ MenuOrder'
         \/ Rests /\ UNCHANGED <<scan, fetch>>
         \/ DrainTimerFires
         \/ MenuDidClose
         \/ \E w \in Scans : ScanCompletes(w)
         \/ \E w \in Fetches : FetchCompletes(w)
<1>1. CASE Startup
  BY <1>1, StartupRefreshes
<1>2. CASE Tick
  <2>1. CASE on["AutoRefresh"]
    BY <1>2, <2>1, TickRefreshes
  <2>2. CASE ~on["AutoRefresh"]
    <3>1. UNCHANGED <<scan, fetch>>
      BY <1>2, <2>2 DEF Tick
    <3> QED
      BY <1>2, <2>2, <3>1, TickRests
  <2> QED
    BY <2>1, <2>2
<1>3. CASE QuietPeriod
  BY <1>3, QuietPeriodRests DEF QuietPeriod
<1>4. CASE OpenMenu
  BY <1>4, MenuWillOpenRefreshes DEF OpenMenu
<1>5. CASE ReopenMenuTimerFires
  <2>1. CASE MenuWillOpen
    BY <2>1, MenuWillOpenRefreshes
  <2>2. CASE UNCHANGED <<started, on, menu_open, appkit, modules, memory, drain_timer>>
    BY <2>2, OthersRest DEF modules
  <2> QED
    BY <1>5, <2>1, <2>2 DEF ReopenMenuTimerFires
<1>6. CASE \E item \in Clickable : ClickItem(item)
  BY <1>6, OthersRest DEF ClickItem, modules
<1>7. CASE Toggle
  <2>1. CASE ToggleShareOverTailscale
    BY <2>1, OthersRest DEF ToggleShareOverTailscale, modules
  <2> QED
    BY <1>7, <2>1, ToggleAutoRefreshRefreshes, ToggleShowAppUsageRefreshes,
       ToggleShowCpuRefreshes, ToggleShowGpuRefreshes, ToggleShowSharedMacRefreshes,
       ToggleLaunchAtLoginRefreshes DEF Toggle
<1>8. CASE UNCHANGED vars
  BY <1>8, OthersRest DEF vars, timers, modules
<1> QED
  BY <1>1, <1>2, <1>3, <1>4, <1>5, <1>6, <1>7, <1>8 DEF Next

\* Every step.
LEMMA NextKeepsDropdown ==
  ASSUME Inv, DropdownInv, [Next]_vars, Inv'
  PROVE  DropdownInv'
<1>1. CASE Refreshes /\ MenuOrder'
  <2>1. PICK manual \in BOOLEAN : \E a0, s0, baseline, t0, schedule :
          /\ Refreshable(a0, s0, baseline, t0, schedule)
          /\ Ready(a0, s0, schedule)
          /\ Refresh(manual, a0, s0, baseline, t0, schedule)
    BY <1>1 DEF Refreshes
  <2>2. AppsShown' /\ SharedShown' /\ RowsShown' /\ LoadingCpuIsWarmedUp'
    BY <2>1, RefreshShows
  <2> QED
    BY <1>1, <2>2 DEF DropdownInv
<1>2. CASE Rests
  BY <1>2, RestKeepsDropdown
<1>3. CASE (\E w \in Scans : ScanCompletes(w)) \/ (\E w \in Fetches : FetchCompletes(w))
  BY <1>3, OthersRest, RestKeepsDropdown
<1>4. CASE DrainTimerFires
  BY <1>4, DrainTimerFiresKeepsDropdown
<1>5. CASE MenuDidClose
  BY <1>5, MenuDidCloseKeepsDropdown
<1> QED
  BY <1>1, <1>2, <1>3, <1>4, <1>5, StepKinds

\* Nothing is shown at first.
LEMMA InitDropdown ==
  ASSUME Init, Inv
  PROVE  DropdownInv
<1>1. MenuOrder /\ SharedShown /\ RowsShown /\ LoadingCpuIsWarmedUp
  BY DEF Init, MenuOrder, SharedShown, RowsShown, LoadingCpuIsWarmedUp
<1>2. AppsShown
  BY DEF Init, AppsShown
<1> QED
  BY <1>1, <1>2 DEF DropdownInv

\* DropdownInv is inductive beside Inv.
LEMMA DropdownInvariance == Spec => [](Inv /\ DropdownInv)
<1>1. Init => Inv /\ DropdownInv
  BY InitInv, InitDropdown
<1>2. Inv /\ DropdownInv /\ [Next]_vars => Inv' /\ DropdownInv'
  BY NextKeepsInv, NextKeepsDropdown
<1> QED
  BY <1>1, <1>2, PTL DEF Spec

\* No module that is off is on show in the open dropdown, and none that is on is
\* missing, after any clicks, failures and answers (engine.rs:414-418, 457-463,
\* 618-654, 692-704).
THEOREM DropdownMatchesSettings == Spec => []OpenDropdownMatchesSettings
<1>1. Inv /\ DropdownInv => OpenDropdownMatchesSettings
  <2> SUFFICES ASSUME Inv, DropdownInv, menu_open, shown # Placeholder
               PROVE  /\ shown.apps = "Hidden" <=> ~on["ShowAppUsage"]
                      /\ shown.cpu = "Disabled" <=> ~on["ShowCpu"]
                      /\ shown.gpu = "Disabled" <=> ~on["ShowGpu"]
                      /\ shown.shared = "Hidden" <=> ~SharedVisible(on)
    BY DEF OpenDropdownMatchesSettings
  <2>1. last_snapshot /\ shown = MenuRender
    BY DEF Inv, OpenDropdownIsCurrent
  <2>2. /\ shown.apps = apps.memory /\ shown.cpu = last_cpu_state
        /\ shown.gpu = last_gpu_state /\ shown.shared = shared.view
    BY <2>1 DEF MenuRender
  <2> QED
    BY <2>1, <2>2 DEF Inv, HiddenAppsStayHidden, DropdownInv, AppsShown, SharedShown,
                      RowsShown
<1> QED
  BY <1>1, DropdownInvariance, PTL

\* A CPU row on Loading always has its second reading coming, Auto-Refresh on or off
\* (engine.rs:553-559).
THEOREM LoadingIsWarmedUp == Spec => []LoadingCpuIsWarmedUp
<1>1. DropdownInv => LoadingCpuIsWarmedUp
  BY DEF DropdownInv
<1> QED
  BY <1>1, DropdownInvariance, PTL

--------------------------------------------------------------------------------
(* What an opening finds *)

\* Nothing but menuWillOpen opens the menu.
LEMMA OnlyOpeningOpens ==
  ASSUME Next, ~menu_open, menu_open'
  PROVE  MenuWillOpen
<1>1. \/ MenuWillOpen \/ UNCHANGED menu_open \/ menu_open' = FALSE
  <2>1. CASE Toggle
    BY <2>1 DEF Toggle, ToggleAutoRefresh, ToggleShowAppUsage, ToggleShowCpu, ToggleShowGpu,
                ToggleShowSharedMac, ToggleShareOverTailscale, ToggleLaunchAtLogin, Clicked
  <2>2. CASE Startup \/ Tick \/ QuietPeriod \/ DrainTimerFires
    BY <2>2 DEF Startup, Tick, QuietPeriod, DrainTimerFires
  <2>3. CASE OpenMenu \/ MenuDidClose \/ ReopenMenuTimerFires
    BY <2>3 DEF OpenMenu, MenuDidClose, ReopenMenuTimerFires
  <2>4. CASE \/ \E item \in Clickable : ClickItem(item)
             \/ \E w \in Scans : ScanCompletes(w)
             \/ \E w \in Fetches : FetchCompletes(w)
    BY <2>4 DEF ClickItem, ScanCompletes, FetchCompletes
  <2> QED
    BY <2>1, <2>2, <2>3, <2>4 DEF Next
<1> QED
  BY <1>1

\* The dropdown never opens on a reading SHARED_STALE_TICKS periods old, if each of
\* them had its tick; with Auto-Refresh off for one of them it may
\* (engine.rs:48-50, 335-337, 696-711).
THEOREM OpeningIsFresh == Spec => OpensOnFreshReading
<1>1. ASSUME Inv, DropdownInv, [Next]_vars
      PROVE  [~menu_open /\ menu_open' /\ shared'.view = "Reading" /\ ~shared'.quiet =>
                shared'.age < SharedStaleTicks]_vars
  <2> SUFFICES ASSUME Next, ~menu_open, menu_open', shared'.view = "Reading",
                      ~shared'.quiet
               PROVE  shared'.age < SharedStaleTicks
    BY <1>1
  <2> DEFINE s == MarkStaleSharedReading(shared)
  <2>1. shared \in SharedState
    BY <1>1 DEF Inv, TypeOK
  <2>2. /\ s \in SharedState /\ s.generation = shared.generation
        /\ s.age = shared.age /\ s.ticks = shared.ticks /\ s.quiet = shared.quiet
        /\ s.view = "Reading" => s.ticks < SharedStaleTicks
    BY <2>1, ConstantsAssumption DEF MarkStaleSharedReading, SharedState, SharedMac
  <2>3. /\ UNCHANGED on
        /\ Refresh(TRUE, apps, s, cpu_baseline, trend, TRUE)
    BY OnlyOpeningOpens DEF MenuWillOpen
  <2> HIDE DEF s
  <2>4. Answers(fetch, s.generation) = {}
    BY <1>1, <2>2 DEF Inv, NoFetchOutlivesItsMenu, Answers
  <2>5. SharedVisible(on') \in BOOLEAN
    BY <1>1, <2>3, ConstantsAssumption DEF SharedVisible, Persisted, Setting, Inv, TypeOK
  <2>6. /\ shared'.view = s.view /\ shared'.age = s.age /\ shared'.quiet = s.quiet
    <3>1. CASE shared' = s
      BY <3>1
    <3>2. CASE RefreshShared(s, Asks(s))
      <4>1. DrainSharedFetch(s, SharedVisible(on')) = s
        BY <2>2, <2>4, <2>5, DrainedShared
      <4>2. shared' = [s EXCEPT !.in_flight = s.in_flight \/ Asks(s)]
        BY <3>2, <4>1 DEF RefreshShared
      <4> QED
        BY <2>2, <4>2 DEF SharedState
    <3> QED
      BY <2>3, <3>1, <3>2 DEF Refresh, SampledRefresh, FailedRefresh
  <2>7. s.ticks = s.age
    BY <1>1, <2>2, <2>6 DEF DropdownInv, SharedShown
  <2> QED
    BY <2>2, <2>6, <2>7
<1> QED
  BY <1>1, DropdownInvariance, PTL DEF Spec, OpensOnFreshReading

--------------------------------------------------------------------------------
(* What the menu comes back for *)

\* A reopen under way is for the module turned on since the menu was last open, and there
\* is none in a menu that is open, or while the action of a click is to come.
ReopenInv ==
  /\ menu_reopen_for \in {NoItem, turned_on}
  /\ menu_open /\ ~menu_closing => menu_reopen_for = NoItem
  /\ clicked # NoItem => menu_reopen_for = NoItem
  /\ menu_open /\ clicked # NoItem => menu_closing

\* A toggle wants a reopen for the module it turns on, and for no other.
LEMMA ToggleKeepsReopenInv ==
  ASSUME ReopenInv, NEW item \in Setting, Clicked(item),
         \/ UNCHANGED menu_reopen_for
         \/ item \in Module /\ ScheduleMenuReopen(item, ~Shows(item))
         \/ ScheduleMenuReopen(item, FALSE)
  PROVE  ReopenInv'
<1>1. clicked = item /\ item # NoItem /\ clicked' = NoItem
  BY DEF Clicked, Setting, NoItem
<1>2. menu_reopen_for = NoItem /\ (menu_open => menu_closing)
  BY <1>1 DEF ReopenInv
<1>3. UNCHANGED <<menu_open, menu_closing>>
  BY DEF Clicked
<1>4. menu_reopen_for' \in {NoItem, turned_on'}
  BY <1>2 DEF Clicked, ScheduleMenuReopen
<1> QED
  BY <1>1, <1>2, <1>3, <1>4 DEF ReopenInv

\* What each toggle says it wants is that.
LEMMA Wanted ==
  ASSUME Inv
  PROVE  /\ \A item \in {"ShowAppUsage", "ShowCpu", "ShowGpu"} :
              /\ item \in Setting /\ item \in Module
              /\ Flipped(item)[item] = ~Shows(item)
         /\ "ShowSharedMac" \in Setting /\ "ShowSharedMac" \in Module
         /\ \/ SharedVisible(Flipped("ShowSharedMac")) = ~Shows("ShowSharedMac")
            \/ SharedVisible(Flipped("ShowSharedMac")) = FALSE
<1>1. on \in [Persisted -> BOOLEAN]
  BY DEF Inv, TypeOK
<1>2. ASSUME NEW item \in {"ShowAppUsage", "ShowCpu", "ShowGpu"}
      PROVE  item \in Persisted /\ item \in Setting /\ item \in Module /\ Shows(item) = on[item]
  BY DEF Persisted, Setting, Module, Shows
<1>3. ASSUME NEW item \in Persisted
      PROVE  Flipped(item)[item] = ~on[item]
  BY <1>1 DEF Flipped
<1>4. /\ "ShowSharedMac" \in Persisted /\ "ShowSharedMac" \in Setting
      /\ "ShowSharedMac" \in Module /\ Shows("ShowSharedMac") = SharedVisible(on)
  BY DEF Persisted, Setting, Module, Shows
<1>5. \/ SharedVisible(Flipped("ShowSharedMac")) = ~SharedVisible(on)
      \/ SharedVisible(Flipped("ShowSharedMac")) = FALSE
  BY <1>1, <1>3, <1>4, ConstantsAssumption DEF SharedVisible
<1> QED
  BY <1>2, <1>3, <1>4, <1>5

\* The steps of the menu, of its items and of the one-shot.
LEMMA ReopenStep ==
  ASSUME Inv, ReopenInv, [Next]_vars
  PROVE  ReopenInv'
<1>1. CASE MenuWillOpen
  BY <1>1 DEF MenuWillOpen, NothingToReopen, ReopenInv
<1>2. CASE MenuDidClose
  BY <1>2 DEF MenuDidClose, ReopenInv
<1>3. ASSUME NEW item \in Clickable, ClickItem(item) PROVE ReopenInv'
  BY <1>3 DEF ClickItem, ReopenInv
<1>4. CASE menu_reopen_for' = NoItem /\ UNCHANGED <<menu_open, appkit>>
  BY <1>4 DEF ReopenInv, appkit
<1>5. CASE UNCHANGED <<menu_open, appkit, menu_reopen_for>>
  BY <1>5 DEF ReopenInv, appkit
<1>6. CASE Toggle
  <2>1. CASE ToggleAutoRefresh \/ ToggleShareOverTailscale \/ ToggleLaunchAtLogin
    BY <2>1, ToggleKeepsReopenInv
       DEF ToggleAutoRefresh, ToggleShareOverTailscale, ToggleLaunchAtLogin, Setting
  <2>2. CASE ToggleShowAppUsage
    BY <2>2, Wanted, ToggleKeepsReopenInv DEF ToggleShowAppUsage
  <2>3. CASE ToggleShowCpu
    BY <2>3, Wanted, ToggleKeepsReopenInv DEF ToggleShowCpu
  <2>4. CASE ToggleShowGpu
    BY <2>4, Wanted, ToggleKeepsReopenInv DEF ToggleShowGpu
  <2>5. CASE ToggleShowSharedMac
    BY <2>5, Wanted, ToggleKeepsReopenInv DEF ToggleShowSharedMac
  <2> QED
    BY <1>6, <2>1, <2>2, <2>3, <2>4, <2>5 DEF Toggle
<1>7. CASE OpenMenu
  BY <1>1, <1>7 DEF OpenMenu
<1>8. CASE ReopenMenuTimerFires
  BY <1>1, <1>4, <1>8 DEF ReopenMenuTimerFires
<1>9. CASE Startup \/ Tick \/ QuietPeriod \/ DrainTimerFires \/ UNCHANGED vars
  BY <1>5, <1>9 DEF Startup, Tick, QuietPeriod, DrainTimerFires, vars
<1>10. CASE \/ \E w \in Scans : ScanCompletes(w)
            \/ \E w \in Fetches : FetchCompletes(w)
  BY <1>5, <1>10 DEF ScanCompletes, FetchCompletes
<1> QED
  BY <1>2, <1>3, <1>6, <1>7, <1>8, <1>9, <1>10 DEF Next

\* However many reopen one-shots are pending, the menu comes back only for a module turned
\* on since it was last open and still visible; that it does come back is left to TLC
\* (engine.rs:341-353, 364-374, 587-602).
THEOREM ReopensOnce == Spec => ReopensForModuleTurnedOn
<1>1. Init => ReopenInv
  BY DEF Init, ReopenInv
<1>2. ASSUME ReopenInv, [Next]_vars
      PROVE  [ReopenMenuTimerFires /\ menu_open' => turned_on # NoItem /\ Shows(turned_on)]_vars
  <2> SUFFICES ASSUME ReopenMenuTimerFires, menu_open'
               PROVE  turned_on # NoItem /\ Shows(turned_on)
    OBVIOUS
  <2>1. Shows(menu_reopen_for)
    BY DEF ReopenMenuTimerFires
  <2>2. ~Shows(NoItem)
    BY DEF Shows, Module, NoItem
  <2> QED
    BY <1>2, <2>1, <2>2 DEF ReopenInv
<1> QED
  BY <1>1, <1>2, Invariance, ReopenStep, PTL DEF Spec, ReopensForModuleTurnedOn

--------------------------------------------------------------------------------
(* The sections as Askings: the request of a single flight *)

\* The request is the stage of the one live worker that is awaited, if any is.
LEMMA RequestOfFlight ==
  ASSUME NEW S, NEW workers \in [S -> Worker], NEW g, NEW f \in BOOLEAN,
         SingleFlight(f, g, workers)
  PROVE  /\ Current(workers, g) = {} => Request(workers, g) = "none"
         /\ \A w \in Current(workers, g) :
              /\ Request(workers, g) = workers[w].stage
              /\ workers[w].stage \in {"running", "ok", "err"}
         /\ Request(workers, g) = "none" <=> ~f
         /\ Answers(workers, g) = {} => Request(workers, g) \in {"none", "running"}
         /\ Answers(workers, g) # {} => Request(workers, g) \in {"ok", "err"}
<1> DEFINE current == Current(workers, g)
<1>1. current = {} => Request(workers, g) = "none"
  BY DEF Request
<1>2. ASSUME NEW w \in current
      PROVE  /\ Request(workers, g) = workers[w].stage
             /\ workers[w].stage \in {"running", "ok", "err"}
  <2>1. (CHOOSE v \in current : TRUE) \in current
    BY <1>2
  <2>2. (CHOOSE v \in current : TRUE) = w
    BY <2>1 DEF SingleFlight
  <2>3. w \in S /\ workers[w].stage # "idle"
    BY <1>2 DEF Current, Live
  <2>4. workers[w].stage \in {"running", "ok", "err"}
    BY <2>3 DEF Worker
  <2> QED
    BY <1>2, <2>2, <2>4 DEF Request
<1>3. Request(workers, g) = "none" <=> ~f
  BY <1>1, <1>2 DEF SingleFlight
<1>4. Answers(workers, g) = {} => Request(workers, g) \in {"none", "running"}
  BY <1>1, <1>2 DEF Answers
<1>5. Answers(workers, g) # {} => Request(workers, g) \in {"ok", "err"}
  BY <1>2 DEF Answers
<1> QED
  BY <1>1, <1>2, <1>3, <1>4, <1>5

\* A drain takes the request if it is answered, and else leaves it.
LEMMA PolledRequest ==
  ASSUME NEW S, NEW workers \in [S -> Worker], NEW g, NEW f \in BOOLEAN,
         SingleFlight(f, g, workers)
  PROVE  /\ Answers(workers, g) # {} => Request(Polled(workers), g) = "none"
         /\ Answers(workers, g) = {} => Request(Polled(workers), g) = Request(workers, g)
<1> DEFINE kept == f /\ Answers(workers, g) = {}
<1>1. Polled(workers) \in [S -> Worker] /\ SingleFlight(kept, g, Polled(workers))
  BY PolledWorkers, DrainKeepsSingleFlight
<1>2. CASE Answers(workers, g) # {}
  <2>1. ~kept
    BY <1>2
  <2> QED
    BY <1>1, <1>2, <2>1, RequestOfFlight
<1>3. CASE Answers(workers, g) = {} /\ Current(workers, g) = {}
  <2>1. Current(Polled(workers), g) = {}
    BY <1>3, PolledWorkers
  <2> QED
    BY <1>3, <2>1 DEF Request
<1>4. CASE Answers(workers, g) = {} /\ Current(workers, g) # {}
  <2>1. PICK w \in Current(workers, g) : TRUE
    BY <1>4
  <2>2. w \in Current(Polled(workers), g)
    BY <1>4, <2>1, PolledWorkers
  <2>3. Polled(workers)[w] = workers[w]
    BY <1>4, <2>1 DEF Polled, Answers, Current, Live
  <2>4. kept \in BOOLEAN
    OBVIOUS
  <2>5. /\ Request(workers, g) = workers[w].stage
        /\ Request(Polled(workers), g) = Polled(workers)[w].stage
    <3> HIDE DEF kept
    <3> QED
      BY <1>1, <2>1, <2>2, <2>4, RequestOfFlight
  <2> QED
    BY <1>4, <2>3, <2>5
<1> QED
  BY <1>2, <1>3, <1>4

\* A worker that starts is the request.
LEMMA StartedRequest ==
  ASSUME NEW S, NEW workers \in [S -> Worker], NEW g \in Generation,
         SingleFlight(FALSE, g, workers), NEW w \in S, w \notin Live(workers)
  PROVE  Request(Start(workers, w, g), g) = "running"
<1>1. /\ Start(workers, w, g) \in [S -> Worker]
      /\ SingleFlight(TRUE, g, Start(workers, w, g))
  BY StartMakesSingleFlight
<1>2. w \in Current(Start(workers, w, g), g) /\ Start(workers, w, g)[w].stage = "running"
  BY DEF Start, Current, Live
<1> QED
  BY <1>1, <1>2, RequestOfFlight

\* An answer lands the request if it is the current worker's.
LEMMA LandedRequest ==
  ASSUME NEW S, NEW workers \in [S -> Worker], NEW g, NEW f \in BOOLEAN,
         SingleFlight(f, g, workers),
         NEW w \in S, workers[w].stage = "running", NEW stage \in {"ok", "err"}
  PROVE  \/ Request(workers, g) = "running" /\ Request(Land(workers, w, stage), g) = stage
         \/ Request(Land(workers, w, stage), g) = Request(workers, g)
<1> DEFINE landed == Land(workers, w, stage)
<1>1. landed \in [S -> Worker] /\ Current(landed, g) = Current(workers, g)
  BY LandKeepsCurrent
<1>2. SingleFlight(f, g, landed)
  BY <1>1 DEF SingleFlight
<1>3. \A v \in S : landed[v].stage = IF v = w THEN stage ELSE workers[v].stage
  BY DEF Land, Worker
<1> HIDE DEF landed
<1>4. CASE Current(workers, g) = {}
  BY <1>1, <1>4 DEF Request, landed
<1>5. CASE Current(workers, g) # {}
  <2>1. PICK v \in Current(workers, g) : TRUE
    BY <1>5
  <2>2. Request(workers, g) = workers[v].stage /\ Request(landed, g) = landed[v].stage
    BY <1>1, <1>2, <2>1, RequestOfFlight
  <2>3. v \in S
    BY <2>1 DEF Current, Live
  <2> QED
    BY <1>3, <2>2, <2>3 DEF landed
<1> QED
  BY <1>4, <1>5

--------------------------------------------------------------------------------
(* The app list *)

\* What every step but a scan's end owes, whatever it does to the request.
LEMMA AppsTurn ==
  ASSUME Inv', DropdownInv',
         AskingApps!Take \/ AskingApps!Ask \/ AskingApps!Forget
  PROVE  AskingApps!Turn
<1>1. menu_open' \in BOOLEAN /\ last_snapshot' \in BOOLEAN
  BY DEF Inv, TypeOK
<1>2. /\ apps'.in_flight \in BOOLEAN /\ scan' \in [Scans -> Worker]
      /\ SingleFlight(apps'.in_flight, apps'.generation, scan')
  BY DEF Inv, TypeOK, AppsState, OneScanInFlight, SingleFlight, Current, Live
<1>3. Says(apps'.memory) = "Loading" => apps'.memory = "Loading"
  BY DEF Says
<1>4. menu_open' /\ last_snapshot' /\ apps'.memory = "Loading" => apps'.in_flight
  BY DEF DropdownInv, AppsShown
<1>5. Request(scan', apps'.generation) = "none" <=> ~apps'.in_flight
  BY <1>2, RequestOfFlight
<1> QED
  BY <1>1, <1>3, <1>4, <1>5 DEF AskingApps!Turn, AskingApps!Watched, Request, Says, Current, Live

\* A hidden list has nobody to ask.
LEMMA HiddenListForgets ==
  ASSUME Inv', ~on'["ShowAppUsage"]
  PROVE  AskingApps!Forget
<1>1. apps'.memory = "Hidden" /\ Current(scan', apps'.generation) = {}
  BY DEF Inv, HiddenAppsStayHidden, Current, Live
<1>2. Says(apps'.memory) = "Hidden" /\ Request(scan', apps'.generation) = "none"
  BY <1>1 DEF Says, Request
<1> QED
  BY <1>2 DEF AskingApps!Forget, AskingApps!Before, Request, Says, Current, Live

\* A wanted list takes the answer there is, and may be asked for again.
LEMMA AppsAreAsked ==
  ASSUME Inv, NEW a0 \in AppsState, NEW fresh \in BOOLEAN,
         a0.in_flight = apps.in_flight, a0.generation = apps.generation,
         a0.memory # "Hidden",
         \/ a0.memory = apps.memory
         \/ apps.memory = "Hidden" /\ a0.memory = "Loading",
         apps'.memory = DrainAppScanResults(a0, fresh).memory,
         apps'.generation = apps.generation,
         \/ scan' = Polled(scan)
         \/ /\ ~DrainAppScanResults(a0, fresh).in_flight
            /\ \E w \in Scans : /\ w \notin Live(Polled(scan))
                                /\ scan' = Start(Polled(scan), w, apps.generation)
  PROVE  AskingApps!Take \/ AskingApps!Ask
<1> DEFINE g == apps.generation
           request == Request(scan, g)
           polled == Request(Polled(scan), g)
           d == DrainAppScanResults(a0, fresh)
<1>1. /\ scan \in [Scans -> Worker] /\ g \in Generation /\ apps.in_flight \in BOOLEAN
      /\ SingleFlight(apps.in_flight, g, scan)
  BY DEF Inv, TypeOK, AppsState, OneScanInFlight
<1>2. d.in_flight \in BOOLEAN /\ SingleFlight(d.in_flight, g, Polled(scan))
      /\ Polled(scan) \in [Scans -> Worker]
  BY <1>1, DrainApps, PolledWorkers DEF AppsState
<1> HIDE DEF d
<1>3. \/ Request(scan', apps'.generation) = polled
      \/ polled = "none" /\ Request(scan', apps'.generation) = "running"
  <2>1. CASE scan' = Polled(scan)
    BY <2>1
  <2>2. CASE /\ ~d.in_flight
             /\ \E w \in Scans : /\ w \notin Live(Polled(scan))
                                 /\ scan' = Start(Polled(scan), w, apps.generation)
    <3>1. d.in_flight = FALSE
      BY <1>2, <2>2
    <3>2. SingleFlight(FALSE, g, Polled(scan))
      BY <1>2, <3>1
    <3>3. Request(scan', g) = "running"
      <4>1. PICK w \in Scans : /\ w \notin Live(Polled(scan))
                               /\ scan' = Start(Polled(scan), w, g)
        BY <2>2
      <4>2. Request(Start(Polled(scan), w, g), g) = "running"
        BY <1>1, <1>2, <3>2, <4>1, StartedRequest
      <4> QED
        BY <4>1, <4>2
    <3>4. polled = "none"
      BY <1>2, <3>2, RequestOfFlight
    <3> QED
      BY <3>3, <3>4
  <2> QED
    BY <2>1, <2>2 DEF d
<1>4. Says(a0.memory) \in AskingApps!Before /\ Says(a0.memory) # "Hidden"
  BY DEF AskingApps!Before, Says, AppsState, AppMemorySnapshot
<1>5. CASE Answers(scan, g) = {}
  <2>1. polled = request
    BY <1>1, <1>5, PolledRequest
  <2>2. apps'.memory = a0.memory
    BY <1>5, DrainedApps DEF d
  <2>3. AskingApps!Ask
    BY <1>3, <1>4, <2>1, <2>2 DEF AskingApps!Ask, AskingApps!Before, Request, Says,
                                  Current, Live
  <2> QED
    BY <2>3
<1>6. CASE Answers(scan, g) # {}
  <2>1. PICK w \in Answers(scan, g) : TRUE
    BY <1>6
  <2>2. /\ request = scan[w].stage /\ request \in {"ok", "err"}
        /\ \A v \in Answers(scan, g) : v = w
    BY <1>1, <1>6, <2>1, RequestOfFlight DEF Answers, SingleFlight
  <2>3. polled = "none"
    BY <1>1, <1>6, PolledRequest
  <2>4. Says(apps'.memory) = AskingApps!Says(request)
    <3>1. CASE request = "ok"
      <4>1. d.memory \in {"Loaded", "LoadedWithDeltas"}
        BY <1>6, <2>1, <2>2, <3>1 DEF d, DrainAppScanResults, AppsState
      <4> QED
        BY <3>1, <4>1 DEF Says, AskingApps!Says, d
    <3>2. CASE request = "err"
      <4>1. d.memory = "Unavailable"
        BY <1>6, <2>2, <3>2 DEF d, DrainAppScanResults, AppsState
      <4> QED
        BY <3>2, <4>1 DEF Says, AskingApps!Says, d
    <3> QED
      BY <2>2, <3>1, <3>2
  <2>5. Request(scan', apps'.generation) \in {"none", "running"}
    BY <1>3, <2>3
  <2>6. AskingApps!Take
    BY <1>4, <2>2, <2>4, <2>5
       DEF AskingApps!Take, AskingApps!Answered, Request, Says, Current, Live
  <2> QED
    BY <2>6
<1> QED
  BY <1>5, <1>6

\* A refresh takes an answer, asks, or forgets.
LEMMA RefreshAsksApps ==
  ASSUME Inv, Inv', Refreshes
  PROVE  AskingApps!Take \/ AskingApps!Ask \/ AskingApps!Forget
<1>1. CASE ~on'["ShowAppUsage"]
  BY <1>1, HiddenListForgets
<1>2. CASE on'["ShowAppUsage"]
  <2>1. PICK a0, s0, baseline, t0, schedule : \E manual \in BOOLEAN :
          /\ Refreshable(a0, s0, baseline, t0, schedule)
          /\ Ready(a0, s0, schedule)
          /\ From(a0, s0)
          /\ Refresh(manual, a0, s0, baseline, t0, schedule)
    BY DEF Refreshes
  <2>2. /\ a0 \in AppsState /\ a0.memory # "Hidden"
        /\ a0.in_flight = apps.in_flight /\ a0.generation = apps.generation
        /\ \/ a0.memory = apps.memory
           \/ apps.memory = "Hidden" /\ a0.memory = "Loading"
        /\ SingleFlight(a0.in_flight, a0.generation, scan)
    BY <1>2, <2>1 DEF Refreshable, Ready, AppsReady, From
  <2>3. PICK sampled \in BOOLEAN, fresh \in BOOLEAN, hand \in BOOLEAN :
          RefreshApps(a0, hand, sampled, fresh)
    <3> PICK manual \in BOOLEAN : Refresh(manual, a0, s0, baseline, t0, schedule)
      BY <2>1
    <3>1. CASE SampledRefresh(manual, a0, s0, baseline, t0, schedule)
      BY <3>1 DEF SampledRefresh
    <3>2. CASE FailedRefresh(a0, s0, baseline, t0, schedule)
      BY <3>2 DEF FailedRefresh
    <3> QED
      BY <3>1, <3>2 DEF Refresh
  <2> DEFINE a == DrainAppScanResults(a0, fresh)
             decision == AppScanDecision(menu_open', hand, a.ticks)
  <2>4. a \in AppsState /\ a.generation = apps.generation
    BY <2>2, DrainApps DEF Inv, TypeOK
  <2>5. \/ apps' = a
        \/ apps' = [a EXCEPT !.ticks = decision.ticks,
                             !.in_flight = a.in_flight \/ decision.scan]
    BY <1>2, <2>3 DEF RefreshApps
  <2>6. \/ scan' = Polled(scan)
        \/ /\ ~a.in_flight
           /\ \E w \in Scans : /\ w \notin Live(Polled(scan))
                               /\ scan' = Start(Polled(scan), w, a.generation)
    BY <2>3 DEF RefreshApps
  <2> HIDE DEF a, decision
  <2>7. apps'.memory = a.memory /\ apps'.generation = a.generation
    BY <2>4, <2>5 DEF AppsState
  <2> QED
    BY <2>2, <2>4, <2>6, <2>7, AppsAreAsked DEF a
<1> QED
  BY <1>1, <1>2

\* So does a drain.
LEMMA DrainAsksApps ==
  ASSUME Inv, DropdownInv, Inv', DrainTimerFires
  PROVE  AskingApps!Take \/ AskingApps!Ask \/ AskingApps!Forget
<1>1. CASE ~on'["ShowAppUsage"]
  BY <1>1, HiddenListForgets
<1>2. CASE on'["ShowAppUsage"] /\ menu_open
  <2>1. PICK fresh \in BOOLEAN : apps' = DrainAppScanResults(apps, fresh)
    BY <1>2 DEF DrainTimerFires
  <2>2. scan' = Polled(scan) /\ UNCHANGED on
    BY <1>2 DEF DrainTimerFires
  <2>3. apps \in AppsState /\ apps.memory # "Hidden"
    BY <1>2, <2>2 DEF Inv, TypeOK, DropdownInv, AppsShown
  <2>4. apps'.generation = apps.generation
    BY <2>1, <2>3, DrainApps DEF Inv, TypeOK, OneScanInFlight
  <2> QED
    BY <2>1, <2>2, <2>3, <2>4, AppsAreAsked
<1>3. CASE ~menu_open
  <2>1. UNCHANGED <<apps, scan>>
    BY <1>3 DEF DrainTimerFires, modules
  <2> QED
    BY <2>1 DEF AskingApps!Ask, AskingApps!Before, Request, Says, Current, Live
<1> QED
  BY <1>1, <1>2, <1>3

\* A step that leaves the list's text and its scans alone asks for nothing.
LEMMA KeptListAsks ==
  ASSUME apps'.memory = apps.memory, apps'.generation = apps.generation, UNCHANGED scan
  PROVE  AskingApps!Ask
BY DEF AskingApps!Ask, AskingApps!Before, Request, Says, Current, Live

\* A scan that ends answers the request, or nobody.
LEMMA ScanLands ==
  ASSUME Inv, NEW w \in Scans, ScanCompletes(w)
  PROVE  AskingApps!Land \/ UNCHANGED AskingApps!vars
<1> DEFINE g == apps.generation
<1>1. PICK stage \in {"ok", "err"} : scan' = Land(scan, w, stage)
  BY DEF ScanCompletes
<1>2. scan[w].stage = "running" /\ UNCHANGED <<apps, menu_open, last_snapshot>>
  BY DEF ScanCompletes, memory
<1>3. /\ scan \in [Scans -> Worker] /\ apps.in_flight \in BOOLEAN
      /\ SingleFlight(apps.in_flight, g, scan)
  BY DEF Inv, TypeOK, AppsState, OneScanInFlight
<1>4. \/ Request(scan, g) = "running" /\ Request(scan', g) = stage
      \/ Request(scan', g) = Request(scan, g)
  BY <1>1, <1>2, <1>3, LandedRequest
<1>5. Says(apps.memory)' = Says(apps.memory)
  BY <1>2 DEF Says
<1>6. Request(scan, g)' = Request(scan', g)
  BY <1>2 DEF Request, Current, Live
<1> QED
  BY <1>2, <1>4, <1>5, <1>6 DEF AskingApps!Land, AskingApps!vars, AskingApps!Answered

\* Every step is one of the app list's Asking.
LEMMA AppsStep ==
  ASSUME Inv, DropdownInv, [Next]_vars, Inv', DropdownInv'
  PROVE  [AskingApps!Next]_(AskingApps!vars)
<1>1. CASE Refreshes
  BY <1>1, RefreshAsksApps, AppsTurn DEF AskingApps!Next
<1>2. CASE DrainTimerFires
  BY <1>2, DrainAsksApps, AppsTurn DEF AskingApps!Next
<1>3. CASE MenuDidClose
  <2>1. apps'.memory = apps.memory /\ apps'.generation = apps.generation /\ UNCHANGED scan
    BY <1>3 DEF MenuDidClose, Inv, TypeOK, AppsState
  <2> QED
    BY <2>1, KeptListAsks, AppsTurn DEF AskingApps!Next
<1>4. CASE Rests /\ UNCHANGED <<scan, fetch>>
  BY <1>4, KeptListAsks, AppsTurn DEF Rests, AskingApps!Next
<1>5. CASE \E w \in Scans : ScanCompletes(w)
  BY <1>5, ScanLands DEF AskingApps!Next
<1>6. CASE \E w \in Fetches : FetchCompletes(w)
  BY <1>6, KeptListAsks, AppsTurn DEF FetchCompletes, AskingApps!Next
<1> QED
  BY <1>1, <1>2, <1>3, <1>4, <1>5, <1>6, StepKinds

\* The app list is an Asking: it shows the answer of the one scan started since it
\* was last hidden, whatever menus opened and closed meanwhile, and never sits on
\* Loading in a sampled dropdown without a scan under way (engine.rs:408-423, 494-501,
\* 656-694, 738-744).
THEOREM AppListIsAnAsking == Spec => AppListIsAsked
<1>1. Init => AskingApps!Init
  <2> SUFFICES ASSUME Init
               PROVE  AskingApps!Init
    OBVIOUS
  <2>1. Current(scan, apps.generation) = {}
    BY DEF Init, Current, Live, Idle
  <2>2. Request(scan, apps.generation) = "none"
    BY <2>1 DEF Request
  <2>3. Says(apps.memory) \in {"Hidden", "Loading"}
    BY DEF Init, Says
  <2> QED
    BY <2>2, <2>3 DEF Init, AskingApps!Init
<1>2. ASSUME Inv, DropdownInv, [Next]_vars, Inv', DropdownInv'
      PROVE  [AskingApps!Next]_(AskingApps!vars)
  BY <1>2, AppsStep
<1> QED
  BY <1>1, <1>2, DropdownInvariance, PTL DEF Spec, AppListIsAsked, AskingApps!Spec

--------------------------------------------------------------------------------
(* The shared Mac *)

\* As for the app list; and with the menu closed nobody is asked.
LEMMA SharedTurn ==
  ASSUME Inv', DropdownInv',
         AskingSharedMac!Take \/ AskingSharedMac!Ask \/ AskingSharedMac!Forget
  PROVE  AskingSharedMac!Turn
<1>1. menu_open' \in BOOLEAN /\ last_snapshot' \in BOOLEAN
  BY DEF Inv, TypeOK
<1>2. /\ shared'.in_flight \in BOOLEAN /\ fetch' \in [Fetches -> Worker]
      /\ SingleFlight(shared'.in_flight, shared'.generation, fetch')
  BY DEF Inv, TypeOK, SharedState, OneFetchInFlight, SingleFlight, Current, Live
<1>3. Says(shared'.view) = "Loading" => shared'.view = "Loading"
  BY DEF Says
<1>4. menu_open' /\ last_snapshot' /\ shared'.view = "Loading" => shared'.in_flight
  BY DEF DropdownInv, SharedShown
<1>5. Request(fetch', shared'.generation) = "none" <=> ~shared'.in_flight
  BY <1>2, RequestOfFlight
<1>6. ~menu_open' => Current(fetch', shared'.generation) = {}
  BY DEF Inv, NoFetchOutlivesItsMenu, Current, Live
<1>7. ~menu_open' => Request(fetch', shared'.generation) = "none"
  BY <1>2, <1>6, RequestOfFlight
<1> QED
  BY <1>1, <1>3, <1>4, <1>5, <1>7
     DEF AskingSharedMac!Turn, AskingSharedMac!Watched, Request, Says, Current, Live

\* The open section takes the answer there is, and may be asked for again.
LEMMA SharedIsAsked ==
  ASSUME Inv, NEW s0 \in SharedState, NEW visible \in BOOLEAN,
         s0.in_flight = shared.in_flight, s0.generation = shared.generation,
         s0.view \in {shared.view, "Hidden"}
           \union IF shared.view = "Hidden" \/ ~menu_open THEN {"Loading"} ELSE {},
         s0.view = "Hidden" <=> ~visible,
         shared'.view = DrainSharedFetch(s0, visible).view,
         shared'.generation = shared.generation,
         \/ fetch' = Polled(fetch)
         \/ /\ ~DrainSharedFetch(s0, visible).in_flight
            /\ \E w \in Fetches : /\ w \notin Live(Polled(fetch))
                                  /\ fetch' = Start(Polled(fetch), w, shared.generation)
  PROVE  AskingSharedMac!Take \/ AskingSharedMac!Ask
<1> DEFINE g == shared.generation
           request == Request(fetch, g)
           polled == Request(Polled(fetch), g)
           d == DrainSharedFetch(s0, visible)
<1>1. /\ fetch \in [Fetches -> Worker] /\ g \in Generation /\ shared.in_flight \in BOOLEAN
      /\ SingleFlight(shared.in_flight, g, fetch)
  BY DEF Inv, TypeOK, SharedState, OneFetchInFlight
<1>2. d.in_flight \in BOOLEAN /\ SingleFlight(d.in_flight, g, Polled(fetch))
      /\ Polled(fetch) \in [Fetches -> Worker]
  BY <1>1, DrainShared, PolledWorkers DEF SharedState
<1> HIDE DEF d
<1>3. \/ Request(fetch', shared'.generation) = polled
      \/ polled = "none" /\ Request(fetch', shared'.generation) = "running"
  <2>1. CASE fetch' = Polled(fetch)
    BY <2>1
  <2>2. CASE /\ ~d.in_flight
             /\ \E w \in Fetches : /\ w \notin Live(Polled(fetch))
                                   /\ fetch' = Start(Polled(fetch), w, shared.generation)
    <3>1. d.in_flight = FALSE
      BY <1>2, <2>2
    <3>2. SingleFlight(FALSE, g, Polled(fetch))
      BY <1>2, <3>1
    <3>3. Request(fetch', g) = "running"
      <4>1. PICK w \in Fetches : /\ w \notin Live(Polled(fetch))
                                 /\ fetch' = Start(Polled(fetch), w, g)
        BY <2>2
      <4>2. Request(Start(Polled(fetch), w, g), g) = "running"
        <5>1. Polled(fetch) \in [Fetches -> Worker] /\ g \in Generation
          BY <1>1, <1>2
        <5> HIDE DEF g
        <5> QED
          BY <3>2, <4>1, <5>1, StartedRequest
      <4> QED
        BY <4>1, <4>2
    <3>4. polled = "none"
      BY <1>2, <3>2, RequestOfFlight
    <3> QED
      BY <3>3, <3>4
  <2> QED
    BY <2>1, <2>2 DEF d
<1>4. Says(s0.view) \in AskingSharedMac!Before /\ (Says(s0.view) = "Hidden" <=> ~visible)
  BY DEF AskingSharedMac!Before, Says, SharedState, SharedMac
<1>5. CASE Answers(fetch, g) = {}
  <2>1. polled = request
    BY <1>1, <1>5, PolledRequest
  <2>2. shared'.view = s0.view
    BY <1>5, DrainedShared DEF d
  <2>3. AskingSharedMac!Ask
    BY <1>3, <1>4, <2>1, <2>2 DEF AskingSharedMac!Ask, AskingSharedMac!Before, Request,
                                  Says, Current, Live
  <2> QED
    BY <2>3
<1>6. CASE Answers(fetch, g) # {}
  <2>1. PICK w \in Answers(fetch, g) : TRUE
    BY <1>6
  <2>2. /\ request = fetch[w].stage /\ request \in {"ok", "err"}
        /\ \A v \in Answers(fetch, g) : v = w
    BY <1>1, <1>6, <2>1, RequestOfFlight DEF Answers, SingleFlight
  <2>3. polled = "none"
    BY <1>1, <1>6, PolledRequest
  <2>4. Says(shared'.view) = IF visible THEN AskingSharedMac!Says(request) ELSE "Hidden"
    <3>1. CASE visible /\ request = "ok"
      <4>1. d.view = "Reading"
        BY <1>6, <2>1, <2>2, <3>1 DEF d, DrainSharedFetch, SharedState
      <4> QED
        BY <3>1, <4>1 DEF Says, AskingSharedMac!Says, d
    <3>2. CASE visible /\ request = "err"
      <4>1. d.view = "Offline"
        BY <1>6, <2>2, <3>2 DEF d, DrainSharedFetch, SharedState
      <4> QED
        BY <3>2, <4>1 DEF Says, AskingSharedMac!Says, d
    <3>3. CASE ~visible
      <4>1. d.view = "Hidden"
        BY <1>6, <3>3, DrainedShared DEF d
      <4> QED
        BY <3>3, <4>1 DEF Says, d
    <3> QED
      BY <2>2, <3>1, <3>2, <3>3
  <2>5. Request(fetch', shared'.generation) \in {"none", "running"}
    BY <1>3, <2>3
  <2>6. AskingSharedMac!Take
    BY <1>4, <2>2, <2>4, <2>5
       DEF AskingSharedMac!Take, AskingSharedMac!Answered, Request, Says, Current, Live
  <2> QED
    BY <2>6
<1> QED
  BY <1>5, <1>6

\* A step that takes no answer: the section keeps its text, or shows what a handler
\* puts there before it asks.
LEMMA KeptFetchAsks ==
  ASSUME shared'.view \in {shared.view, "Hidden"}
           \union IF shared.view = "Hidden" \/ ~menu_open THEN {"Loading"} ELSE {},
         shared'.generation = shared.generation, UNCHANGED fetch
  PROVE  AskingSharedMac!Ask
BY DEF AskingSharedMac!Ask, AskingSharedMac!Before, Request, Says, Current, Live

\* A refresh takes an answer or asks.
LEMMA RefreshAsksShared ==
  ASSUME Inv, Refreshes
  PROVE  AskingSharedMac!Take \/ AskingSharedMac!Ask
<1>1. PICK a0, s0, baseline, t0, schedule : \E manual \in BOOLEAN :
        /\ Refreshable(a0, s0, baseline, t0, schedule)
        /\ Ready(a0, s0, schedule)
        /\ From(a0, s0)
        /\ Refresh(manual, a0, s0, baseline, t0, schedule)
  BY DEF Refreshes
<1>2. /\ s0 \in SharedState
      /\ s0.in_flight = shared.in_flight /\ s0.generation = shared.generation
      /\ s0.view \in {shared.view, "Hidden"}
           \union IF shared.view = "Hidden" \/ ~menu_open THEN {"Loading"} ELSE {}
      /\ menu_open' => (s0.view = "Hidden" <=> ~SharedVisible(on'))
      /\ SharedVisible(on') \in BOOLEAN
  BY <1>1, ConstantsAssumption
     DEF Refreshable, Ready, SharedReady, From, SharedVisible, Persisted, Setting
<1>3. \/ shared' = s0 /\ UNCHANGED fetch
      \/ menu_open' /\ RefreshShared(s0, Asks(s0))
  BY <1>1 DEF Refresh, SampledRefresh, FailedRefresh
<1>4. CASE shared' = s0 /\ UNCHANGED fetch
  BY <1>2, <1>4, KeptFetchAsks
<1>5. CASE menu_open' /\ RefreshShared(s0, Asks(s0))
  <2> DEFINE s == DrainSharedFetch(s0, SharedVisible(on'))
  <2>1. s \in SharedState /\ s.generation = shared.generation
    BY <1>2, DrainShared DEF Inv, TypeOK, OneFetchInFlight
  <2>2. shared' = [s EXCEPT !.in_flight = s.in_flight \/ Asks(s0)]
    BY <1>5 DEF RefreshShared
  <2>3. \/ fetch' = Polled(fetch)
        \/ /\ ~s.in_flight
           /\ \E w \in Fetches : /\ w \notin Live(Polled(fetch))
                                 /\ fetch' = Start(Polled(fetch), w, s.generation)
    BY <1>5 DEF RefreshShared, Asks
  <2> HIDE DEF s
  <2>4. shared'.view = s.view /\ shared'.generation = s.generation
    BY <2>1, <2>2 DEF SharedState
  <2> QED
    BY <1>2, <1>5, <2>1, <2>3, <2>4, SharedIsAsked DEF s
<1> QED
  BY <1>3, <1>4, <1>5

\* So does a drain.
LEMMA DrainAsksShared ==
  ASSUME Inv, DropdownInv, DrainTimerFires
  PROVE  AskingSharedMac!Take \/ AskingSharedMac!Ask
<1>1. CASE menu_open
  <2>1. /\ shared' = DrainSharedFetch(shared, SharedVisible(on))
        /\ fetch' = Polled(fetch)
    BY <1>1 DEF DrainTimerFires
  <2>2. shared \in SharedState /\ SharedVisible(on) \in BOOLEAN
    BY ConstantsAssumption DEF Inv, TypeOK, SharedVisible, Persisted, Setting
  <2>3. shared.view = "Hidden" <=> ~SharedVisible(on)
    BY <1>1 DEF DropdownInv, SharedShown
  <2>4. shared'.generation = shared.generation
    BY <2>1, <2>2, DrainShared DEF Inv, TypeOK, OneFetchInFlight
  <2> QED
    BY <2>1, <2>2, <2>3, <2>4, SharedIsAsked
<1>2. CASE ~menu_open
  <2>1. UNCHANGED <<shared, fetch>>
    BY <1>2 DEF DrainTimerFires, modules
  <2> QED
    BY <2>1, KeptFetchAsks
<1> QED
  BY <1>1, <1>2

\* Closing gives the request up.
LEMMA CloseForgets ==
  ASSUME Inv, Inv', MenuDidClose
  PROVE  AskingSharedMac!Forget
<1>1. shared'.view = shared.view /\ menu_open' = FALSE
  BY DEF MenuDidClose, Inv, TypeOK, SharedState
<1>2. Current(fetch', shared'.generation) = {}
  BY <1>1 DEF Inv, NoFetchOutlivesItsMenu, Current, Live
<1>3. Request(fetch', shared'.generation) = "none"
  BY <1>2 DEF Request
<1> QED
  BY <1>1, <1>3 DEF AskingSharedMac!Forget, AskingSharedMac!Before, Request, Says, Current, Live

\* A fetch that ends answers the request, or nobody.
LEMMA FetchLands ==
  ASSUME Inv, NEW w \in Fetches, FetchCompletes(w)
  PROVE  AskingSharedMac!Land \/ UNCHANGED AskingSharedMac!vars
<1> DEFINE g == shared.generation
<1>1. PICK stage \in {"ok", "err"} : fetch' = Land(fetch, w, stage)
  BY DEF FetchCompletes
<1>2. fetch[w].stage = "running" /\ UNCHANGED <<shared, menu_open, last_snapshot>>
  BY DEF FetchCompletes, memory
<1>3. /\ fetch \in [Fetches -> Worker] /\ shared.in_flight \in BOOLEAN
      /\ SingleFlight(shared.in_flight, g, fetch)
  BY DEF Inv, TypeOK, SharedState, OneFetchInFlight
<1>4. \/ Request(fetch, g) = "running" /\ Request(fetch', g) = stage
      \/ Request(fetch', g) = Request(fetch, g)
  BY <1>1, <1>2, <1>3, LandedRequest
<1>5. Says(shared.view)' = Says(shared.view)
  BY <1>2 DEF Says
<1>6. Request(fetch, g)' = Request(fetch', g)
  BY <1>2 DEF Request, Current, Live
<1> QED
  BY <1>2, <1>4, <1>5, <1>6
     DEF AskingSharedMac!Land, AskingSharedMac!vars, AskingSharedMac!Answered

\* Every step is one of the shared Mac's Asking.
LEMMA SharedStep ==
  ASSUME Inv, DropdownInv, [Next]_vars, Inv', DropdownInv'
  PROVE  [AskingSharedMac!Next]_(AskingSharedMac!vars)
<1>1. CASE Refreshes
  BY <1>1, RefreshAsksShared, SharedTurn DEF AskingSharedMac!Next
<1>2. CASE DrainTimerFires
  BY <1>2, DrainAsksShared, SharedTurn DEF AskingSharedMac!Next
<1>3. CASE MenuDidClose
  BY <1>3, CloseForgets, SharedTurn DEF AskingSharedMac!Next
<1>4. CASE Rests /\ UNCHANGED <<scan, fetch>>
  BY <1>4, KeptFetchAsks, SharedTurn DEF Rests, AskingSharedMac!Next
<1>5. CASE \E w \in Fetches : FetchCompletes(w)
  BY <1>5, FetchLands DEF AskingSharedMac!Next
<1>6. CASE \E w \in Scans : ScanCompletes(w)
  <2>1. shared' = shared /\ UNCHANGED fetch
    BY <1>6 DEF ScanCompletes
  <2> QED
    BY <2>1, KeptFetchAsks, SharedTurn DEF AskingSharedMac!Next
<1> QED
  BY <1>1, <1>2, <1>3, <1>4, <1>5, <1>6, StepKinds

\* The shared Mac's section is an Asking that no menu outlives: it shows the answer to
\* the one ask of this menu, and never sits on Loading in a sampled dropdown without
\* an ask under way.  SharedMacIsAsked adds that Loading ends (engine.rs:354-362,
\* 506-519, 560-585, 713-736).
THEOREM SharedMacIsAnAsking == Spec => AskingSharedMac!Spec
<1>1. Init => AskingSharedMac!Init
  <2> SUFFICES ASSUME Init
               PROVE  AskingSharedMac!Init
    OBVIOUS
  <2>1. Current(fetch, shared.generation) = {}
    BY DEF Init, Current, Live, Idle
  <2>2. Request(fetch, shared.generation) = "none"
    BY <2>1 DEF Request
  <2>3. Says(shared.view) \in {"Hidden", "Loading"}
    BY DEF Init, Says
  <2> QED
    BY <2>2, <2>3 DEF Init, AskingSharedMac!Init
<1>2. ASSUME Inv, DropdownInv, [Next]_vars, Inv', DropdownInv'
      PROVE  [AskingSharedMac!Next]_(AskingSharedMac!vars)
  BY <1>2, SharedStep
<1> QED
  BY <1>1, <1>2, DropdownInvariance, PTL DEF Spec, AskingSharedMac!Spec
================================================================================
