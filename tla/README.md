# A verification of rami

rami is a macOS menu-bar monitor written in Rust: an icon with the used memory, a
dropdown with memory, app, CPU and GPU rows, and the readings of one other Mac.
This directory holds TLA+ models of it, the TLC runs that check them and the
proofs, checked by TLAPS, about all of them. Source lines below are relative
to `src/`, the crate's sources are in `src/src/`.

## The system

Everything runs on the main thread, except two kinds of worker threads and one
listener. `RefreshEngine::step` (`engine.rs`) is a reducer: an event and the ports
it may ask go in, a list of effects comes out, and the shell (`app.rs`) performs
them. The shell turns AppKit callbacks and timers into events.

| Component | State | Operations | Interacts with |
|---|---|---|---|
| Refresh engine, `engine.rs` | settings, menu open, last reading, app list with countdown, baseline, generation and in-flight flag, shared Mac the same, CPU and GPU row, trend, its belief about the timer, the module to reopen for | `step`: Startup, Tick, DrainTimerFired, MenuWillOpen, MenuDidClose, ReopenMenuTimerFired, Toggle of seven settings, ShareFailed, CopyDiagnostics | asks samplers, scan runner and login item; emits renders, timers, stores |
| Shell, `app.rs` | a repeating 5 s timer, one drain one-shot, reopen one-shots, two channels, the share server | timer and menu callbacks, `perform` of every effect | calls the engine; spawns workers |
| Share listener, `share.rs` | stop flag, socket, queue, its own samplers | `ShareServer::start`, drop, `serve`, `fetch` | turned on and off by the shell; asked by another Mac |
| App scan, `process_memory.rs` | one memo per scan | list, measure, walk to the responsible app, aggregate, sort, cut | runs on a worker, answers through a channel |
| App rows, `trend.rs`, `format.rs` | the baseline of growth (in the engine) | growth, ranking, cut to what is drawn | fed by scans, drawn by the menu |
| Memory sampler, `memory.rs`, `model.rs` | cached swap and the ticks until it is read again | sample | two instances: main thread and listener |
| CPU sampler, `cpu.rs` | the counters of the last reading | sample, reset | as above |
| GPU sampler, `gpu.rs`, `iokit.rs` | none | sample | as above |
| Settings, lock, login item: `settings.rs`, `lock.rs`, `login_item.rs` | user defaults, a file lock, SMAppService | load, store, lock, register | outlive the process; System Settings changes the login item too |
| Status item and menu, `tray/` | the built shape, the icon's inputs, every view's last content | set gauge, set model, rebuild | draws what the engine renders |
| Text, drawing, diagnostics: `format.rs`, `presentation.rs`, `draw.rs`, `*_view.rs`, `diagnostics.rs` | none, or the last content | formatting, drawing | |

What is hard about it:

- **Late answers.** Scans and fetches outlive what they were started for. Hiding the
  app list, closing the menu, or both and back again, must not let an old answer in
  nor leave a flag waiting for one. The engine uses a generation per channel.
- **Auto-Refresh off.** No tick comes. What is not shown by the one drain 150 ms
  after opening is not shown unless that drain arranges for more.
- **AppKit's order.** A click on a Settings item closes the menu and sends an action;
  in which order is nobody's promise. A module turned on reopens the menu 50 ms
  later, and the user may have done anything by then.
- **Effects that are events.** Failing to bind the port is an event dispatched from
  inside an effect of the toggle that asked for it.
- **A blocking listener.** It is woken by a connection to itself, and joined by the
  main thread.
- **Numbers that overlap or wrap.** The kernel counts some pages twice, tick counters
  wrap, processors come and go, growth is measured against an older scan.
- **What is cached.** The menu is rebuilt, and the icon redrawn, only when a summary
  of the contents changed.

## Modules

| Module | Models | A state is | An action is |
|---|---|---|---|
| `RefreshEngine` | `engine.rs` with the timers, channels and threads of `app.rs` | the engine's fields, the three timers, every worker and its queued answer, the dropdown as last drawn | one callback of the shell: the step it dispatches with all its effects; or a worker ending, or AppKit |
| `Asking` | what a section filled by a worker promises; abstract | what the section says, the one request, whether the dropdown is open and sampled | a worker done, or one turn of the main thread |
| `Sharing` | `share.rs` with the share part of `engine.rs` and `app.rs` | the setting, the store and the checkmark, the effects still to perform, the listener, its queue and clients | one event, one effect, one step of the listener or of a client, or the end of the process |
| `ShareWire` | `encode`, `http_response`, `parse_response`, `decode` of `share.rs` | pure operators: a text is a sequence of units, a number two of them, so that a cut one is still a number | |
| `ShareExchange` | `serve`, `answer`, `fetch` and drop of `share.rs`, in time | the listener, its queue, the exchange under way with its deadline, a fetch with its own | a connection, a read, an answer, the end of a connection, a step of drop, a unit of time |
| `ProcessScan` | `process_memory.rs` | the process table, the pids left, the walk, the memo, the records | one look at one process, or the exit of a process |
| `AppRows` | `trend.rs`, the baseline in `engine.rs`, the cut in `format.rs` | the last scan's answer, the list shown, the baseline and its time | a scan ending, the drain that takes it, hide, show, time |
| `MemoryReading` | `memory.rs`, `model.rs`, the map of `format.rs` | the kernel's counts and, by sampler, cached swap and countdown | one sample |
| `MemoryHistory` | the window of `trend.rs`, its use in `engine.rs`, `history_caption` of `format.rs` | `MemoryReading`'s, the timer, the window, the icon | a refresh by timer or hand, with its sample; the Auto-Refresh toggle; time, sleep |
| `CpuTicks` | `cpu.rs` | counters, baseline, what really elapsed | a sample, a reset, a tick of one counter, a change in the number of processors |
| `Preferences` | `settings.rs`, `lock.rs`, `login_item.rs` and their use | the store, the lock, the service, and by process settings, items shown and effects left | one event, one effect, the end of a process, System Settings |
| `TrayMenu` | `tray/` | the model last given, the menu built, its shape, each view's content, the icon | the renders of one event |

`XMC` gives the constants of `X` their values for TLC and holds nothing else. `XProofs`
has the theorems about `X`. `MemoryProofs` has those about `MemoryReading` and
`MemoryHistory`, `AppProofs` those about `ProcessScan` and `AppRows`, and `MenuProofs` those
about `Preferences` and `TrayMenu`; `SumProofs` has the lemmas about sums over finite sets that
three of them need. `AppNames` declares the apps that `ProcessScan` and `AppRows` are both
about. So that one module can extend two, the names of a specification are its own
(`HistorySpec`, `RowsSpec`, `TraySpec`, with `RowsInit`, `TrayNext` and so on), and
`TrayMenu` calls the engine's `menu_open` `dropdown_open`.

How they compose: `RefreshEngine` owns the lifecycle and abstracts what the others
detail. A scan in it ends well or badly (`ProcessScan`), its rows may or may not
carry growth (`AppRows`, whose answers are those of `ProcessScan`: `AnswersAreScans`), samples succeed or fail (`MemoryReading`, `CpuTicks`), the
trend window has a length (`MemoryHistory`), a fetch ends well or badly
(`ShareExchange`), binding the port succeeds or not (`Sharing`), a render is the summary of the row
states (`TrayMenu`). Effects of a step run to completion on the main thread, so in
`RefreshEngine` they are part of the action; `Sharing` and `Preferences`, which are
about what lies between two effects, take them one by one. `Sharing` and
`ShareExchange` are two views of one listener: in `Sharing` an exchange is one step that
gives a whole reading or none, and the listener's lifetime with all its failures is in
detail; in `ShareExchange` the lifetime is a flag, and the exchange has its time and
its text. `ReadsWholeAnswersOnly` and `ExchangesAreBounded` are what `Sharing` assumes of
an exchange. In `ShareExchange` the connection that wakes the listener is made at once where
the queue has room; on a full one it waits, for its timeout at most. When the listener goes
meanwhile it may be refused or go on waiting, whichever the kernel does.

`MemoryHistory` extends `MemoryReading` and takes its `Sample` as part of every refresh.

Refinement: `RefreshEngine` implements `Asking` twice. `AskingSharedMac` maps the shared
Mac's section, `AskingApps` the app list; the one request is the worker of the current
generation, with its queued answer, whatever others are alive, and what the section says
is the engine's state without titles and figures. `Outlives` is how the two differ: a
scan goes on when the dropdown closes, a fetch is forgotten. That the detailed steps map to
a step or a stutter says that no answer of another request is ever shown, that none is
lost or counted twice, and that a dropdown on Loading always has a request under way.

A definition that stands before one of the code's and differs from it by one slip
(`NotBumped` before `Bumped`, `NeverWoken` before `Woken`) is a bug that could be written
there. It is used by no action: put in the place of the code's definition, it must make
a run fail. Every property of a passing run has one.

`TypeOK` (`HistoryTypeOK`, `RowsTypeOK`, `TrayTypeOK`) states the types of the variables; `Asking`,
which is only implemented, has none. All of them are proved.

## Correctness

By component, what makes it correct, and the property that says it:

- *Engine, threads*: a flag in flight stands for exactly one live worker whose answer
  is wanted (`OneScanInFlight`, `OneFetchInFlight`); nothing from before a close or a
  hide comes back (`SharedMacIsAsked`, `AppListIsAsked`, `HiddenAppsStayHidden`).
- *Engine, the open dropdown*: it is what the engine knows (`OpenDropdownIsCurrent`),
  what the settings ask for (`OpenDropdownMatchesSettings`), its Loading rows wait for
  work under way (`SharedMacIsAsked`, `AppListIsAsked`, `LoadingCpuIsWarmedUp`,
  `AwaitedAnswerHasDrain`) and leave Loading (`SharedMacIsAsked`, which has the liveness
  of `Asking` in it, `CpuLeavesLoading`, `AppsLeaveLoading`), and an old reading is not
  shown as current (`OpensOnFreshReading`).
- *Engine, timers*: they follow the setting (`TimerFollowsAutoRefresh`), the trend
  advances by ticks (`HistoryAdvancesByTicks`, proved), the menu comes back for a module that
  was turned on, and for nothing else, however many one-shots are pending
  (`ModuleTurnedOnIsShown`).
- *Sharing*: server, setting and store agree when the main thread is idle
  (`SettingIsInForce`), nothing is left of a dropped
  server (`DroppedServerIsGone`) and dropping it returns (`StopEnds`); readings are
  taken after the connection (`ServesFreshReading`), the listener serves on until it is
  told to end, so nobody waits on a dead connection (`NoWaitOnDeadConnection`), the checkmark catches up (`CheckmarkCatchesUp`).
- *Exchange*: a fetch returns the reading the other Mac sampled or nothing
  (`ReadsWholeAnswersOnly`); no client holds the listener beyond the request deadline,
  also once it is told to stop, and the main thread waits until then or, on a full queue,
  until its waking connection times out (`ExchangesAreBounded`); a fetch is late only
  behind enough slow ones (`PromptFetchIsAnswered`).
- *Scan*: an app's row is its processes' memory whatever the order of the pids
  (`RowsAreTheHeaviestApps`), never another's (`NeverAnotherApp`), never missing an
  app's own process (`AppsOwnProcessIsCounted`), and the scan ends (`ScanEnds`).
- *Rows*: growth is between two readings in a row (`GrowthSpansTwoReadingsInARow`),
  and is what rows are kept by (`NoGrowerIsCrowdedOut`).
- *Samplers*: every page once (`EveryPageOnce`), a map of exactly its cells
  (`CellsFollowShares`), swap no older than its cadence (`SwapIsRecent`), percentages
  of what really elapsed (`MeasuresWhatElapsed`) with no gap in it (`SpansNoGap`).
- *History*: the caption names the span its samples cover (`CaptionSpansItsSamples`), and
  the mark on the icon is about the history the dropdown draws (`MarkMatchesHistory`).
- *Preferences*: what the user saw survives (`ShownSettingsSurvive`), the login item is
  the service's (`LoginItemFollowsService`).
- *Menu*: a row for each content and the content in each row (`DropdownShowsModel`),
  icon and rows of one reading (`IconMatchesDropdown`).

## Runs

`tlc -config <run>.cfg <module>MC`. Each run finishes in under five minutes with two
workers.

| Run | Asks | Bounds and why they are enough |
|---|---|---|
| `engine_apps` | Show Apps toggled while scans are slow and fail and samples fail | two scan workers and four generations: one scan of now and one of before, and always a generation neither has. A scan every second tick, so both branches of the countdown. Only Show Apps is clicked, Auto-Refresh is either |
| `engine_shared` | the shared Mac asked while the menu closes and opens and its module and sharing are toggled | two fetches, as above; a reading is stale after one tick, so fresh and stale both occur; Auto-Refresh is either |
| `engine_cpu` | timer, CPU warm-up, reopening and the drawn dropdown while Auto-Refresh, CPU, GPU and the login item are clicked | two modules that reopen the menu and two reopen one-shots, so that a module is turned off, or the other on, or the menu opened by hand and closed, while one is pending. A window of one sample, empty or full. No workers, which these properties do not involve |
| `sharing` | the listener, three clients, every failure and the end of the process anywhere | three clients and a queue of three: one may be served while the others, or connections whose clients gave up, fill the queue, so that asks and the wake are refused |
| `sharing_checkmark` | the one claim the code does not keep, see below | one client |
| `process_scan` | one scan of each of 2592 process tables, every order of the pids | five processes and walks of four hops: longer than a walk goes, within it, rings of two and more, an agent on the way; one process exits at any point |
| `share_exchange` | one fetch among clients that drip, a listener that starts, stops and dies, cut answers and other programs on the port | a request deadline of two units and a fetch's of eight, with four for the waking connection: the code's 500 ms, 2 s and 1 s; four connections in the queue, one more than a fetch can wait for, and full while a stop begins. Readings with and without CPU and GPU, cut after each unit; the longest answer is at the limit of length |
| `memory_reading` | every split of a small machine; a window of samples under ticks, opens, toggles and sleep | five pages into six categories with speculative, purgeable and unreported pages, five cells: ties and remainders of every kind occur; a swap reading every second sample. One more Mac's used pages move over both thresholds of the trend; a window of three samples: empty, filling, full; a tick of two units of time and a tolerance of one, so a tick is early or late |
| `cpu_ticks` | every history of two processors' counters | counters of three values wrap after three ticks |
| `app_rows` | scans, hides, failures and pauses in any order | three apps, two with one name, footprints on both sides of the threshold, one row drawn, two kept, a baseline usable for one unit of time out of three |
| `preferences` | two processes ending anywhere | two settings, one on and one off by default |
| `tray_menu` | any succession of contents | readings of one percentage that differ in pressure or swap only; sections on and off; no row, one, and more than the pool's two |

`MaxReopenTimers` bounds the reopen one-shots pending at once, in `ClickItem`: nothing is
clicked while it is reached. It is two in `engine_cpu`, which is about them, and one in the
other two engine runs. Other named bounds:
`MaxBacklog` (the kernel's), `MaxQueue`, `MaxExits`, `MaxTime`; workers are bounded by the sets
`Scans` and `Fetches`, a start waiting for a free one. The u64 generations are a finite
set in which the next value is one no live worker carries
(`GenerationAssumption`), which is what wrapping after 2^64 bumps amounts to.

Deadlock is checked in every run but `process_scan`, where a scan ends. The engine
and the listener never stop: there is always a next callback.

### Fairness

`RefreshEngine!Fairness` is weak fairness of what happens by itself: startup, the
repeating timer, the drain and reopen one-shots, the action of a clicked item, the
closing of the menu the click began, and the end of worker threads. Timers are armed
`NSTimer`s in the common modes (`app.rs`), except the reopen one-shot, which fires in
the default mode and is therefore disabled while the menu tracks. A scan is a loop
over a finite list with a bounded walk (`ScanEnds` shows it); a fetch has a deadline of
two seconds. No opening, closing or click by the user is assumed.

`Sharing!FairSpec` has weak fairness of the main thread and of the listener, whose
exchanges have deadlines, and strong fairness of `Refresh`: the tick is delivered
once the main thread is idle, however often it is busy in between. Clients, other
processes and the user owe nothing. `ShareExchange` needs no fairness: its bounds are
safety properties of clocks that stop where the code must act (`Urgent`).
`ProcessScan!FairSpec`: the worker thread runs.

`AppsLeaveLoading` is about Auto-Refresh on. With it off, a scan slower than the one
drain is shown at the next opening: the drain schedules itself again for the shared
Mac only (`engine.rs:565-571`).

## Proofs

`tlapm` checks each module's proofs from nothing. Every theorem holds for all values of
the constants that the assumptions named below allow: any number of workers, clients,
processes, apps, fetches and processors, any intervals, deadlines, limits and counter
widths, any failures. TLC evaluates each of those assumptions in a run.

| Module | Theorem | States |
|---|---|---|
| `RefreshEngineProofs` | `TypeCorrect` | `TypeOK` |
| | `OneScanAtATime` | `OneScanInFlight` |
| | `OneFetchAtATime` | `OneFetchInFlight`, `NoFetchOutlivesItsMenu` |
| | `AnswersAreDrained` | `AwaitedAnswerHasDrain` |
| | `HiddenAppList` | `HiddenAppsStayHidden` |
| | `DropdownIsCurrent` | `OpenDropdownIsCurrent` |
| | `AutoRefresh` | `TimerFollowsAutoRefresh`, and no history without ticks |
| | `HistoryGrowsByTicks` | `HistoryAdvancesByTicks` |
| | `DropdownMatchesSettings` | `OpenDropdownMatchesSettings` |
| | `LoadingIsWarmedUp` | `LoadingCpuIsWarmedUp` |
| | `OpeningIsFresh` | `OpensOnFreshReading` |
| | `ReopensOnce` | `ReopensForModuleTurnedOn`, the safety half of `ModuleTurnedOnIsShown` |
| | `AppListIsAnAsking` | `AppListIsAsked`: the app list implements `Asking` |
| | `SharedMacIsAnAsking` | `AskingSharedMac!Spec`: the shared Mac's section implements `Asking` |
| `SharingProofs` | `TypeCorrect` | `TypeOK` |
| | `NothingIsLeft` | `DroppedServerIsGone` |
| | `SettingIsKept` | `SettingIsInForce` |
| | `ReadingIsFresh` | `ServesFreshReading` |
| | `WaitsAreHeld` | `NoWaitOnDeadConnection` |
| `ShareExchangeProofs` | `ExchangesEnd` | `ExchangesAreBounded` |
| | `PromptAnswer` | `PromptFetchIsAnswered` |
| | `WholeAnswers` | `ReadsWholeAnswersOnly` |
| | `TypeCorrect` | `TypeOK` |
| `AppProofs` | `TypeCorrect` | `TypeOK` |
| | `MemoryIsItsOwners` | `NeverAnotherApp` |
| | `OwnProcessIsCounted` | `AppsOwnProcessIsCounted` |
| | `HeaviestApps` | `RowsAreTheHeaviestApps` |
| | `AnswersAreScans` | every good answer of a scan is one that `AppRows` has a scan complete with |
| | `RowsTypeCorrect` | `RowsTypeOK` |
| | `GrowthIsSinceLastShown` | `GrowthSpansTwoReadingsInARow` |
| | `GrowersAreDrawn` | `NoGrowerIsCrowdedOut` |
| `MemoryProofs` | `HistoryIsOfSamples` | `MemoryHistory` implements `MemoryReading` |
| | `PagesAreCountedOnce` | `EveryPageOnce` |
| | `SwapStaysRecent` | `SwapIsRecent` |
| | `HistoryTypes` | `HistoryTypeOK` |
| | `MarkIsOfHistory` | `MarkMatchesHistory` |
| | `CaptionIsTrue` | `CaptionSpansItsSamples` |
| | `CellsFollow` | `CellsFollowShares` |
| `CpuTicksProofs` | `TypeCorrect` | `TypeOK` |
| | `NoGapIsSpanned` | `SpansNoGap` |
| | `MeasuresElapsed` | `MeasuresWhatElapsed` |
| `MenuProofs` | `TypeCorrect` | `TypeOK` |
| | `SettingsSurvive` | `ShownSettingsSurvive` |
| | `LoginItemIsCurrent` | `LoginItemFollowsService` |
| | `TrayTypeCorrect` | `TrayTypeOK` |
| | `MenuShowsLastModel` | `DropdownShowsModel` |
| | `OneReadingEverywhere` | `IconMatchesDropdown` |

Assumptions: each module's `ConstantsAssumption`, and `NamesAssumption`, `RowsAssumption`,
`HistoryAssumption` and `TrayAssumption`, the types of the constants; `GenerationAssumption`, that no worker lives through 2^64 bumps;
`KernelAssumption` and `MemsizeAssumption`, what `memory.rs` says of the kernel's counts,
on which `EveryPageOnce` rests; `ReadingsAssumption`, that a Mac's reading is complete but
for CPU or GPU. A tick's tolerance is below the tick. Two theorems have an assumption
of their own: `WholeAnswers` and `ShareExchangeProofs`' `TypeCorrect` take it that what another
program on the port answers is not read as
a reading (`OthersAreUnreadable`). Without it both are false, since nothing in the protocol
tells such a program from rami. That the answers of the run are such is what the run shows, as it
reads each of them, cut anywhere.

### The engine

`Inv` is the conjunction of the types and the safety properties of one worker and its
channel; none of them is inductive alone. `OneScanInFlight` needs the types of the workers, and
that the answers a drain accepts are exactly those of the current generation.
`AwaitedAnswerHasDrain` needs `OneFetchInFlight` and `NoFetchOutlivesItsMenu`: after a
close nothing current is alive, so an ask made by the next opening is the only one,
and that opening schedules a drain. `HiddenAppsStayHidden` needs that a bump leaves no
live worker current. The bottom layer is about one set of workers and its channel:
a drain removes exactly the accepted answers (`PolledWorkers`), a start after an empty
flag makes a single flight (`StartMakesSingleFlight`), an answer landing keeps who is
current (`LandKeepsCurrent`), a bump empties it (`BumpedIsFresh`). The middle layer is
the refresh every handler ends in (`SampledRefreshKeepsInv`, `FailedRefreshKeepsInv`),
stated once for the state a handler leaves before calling it. The top has one
lemma per action, and `NextKeepsInv` puts them together.

`DropdownInv` is inductive together with `Inv`. What the dropdown shows is what the
settings ask for because a list that is turned on is never Hidden, and a list on Loading
with nobody at work on it has its countdown at zero, so that the next sampled refresh
scans (`AppsShown`); because an open, sampled dropdown has its shared section asked
(`SharedShown`); and because the CPU and GPU rows change with their settings in one step
(`RowsShown`). `OpensOnFreshReading` needs that ticks are time as long as one came in every
period since the reading.

`ReopensForModuleTurnedOn` is about `turned_on`, a history variable: the module the last
click turned on, forgotten when the menu opens. A module the engine is to reopen for is
that one (`ReopenInv`), since an opening withdraws whatever reopening there was, and a
click, which an opening comes before, asks for one only for the module it turns on.

Both refinements use the same bridge: under `OneScanInFlight` or `OneFetchInFlight` the one
live worker of the current generation is the request of `Asking`, and every step of the
engine moves that request by one of `Asking`'s steps or leaves it. Which step it is comes
from the middle layer's lemmas about a drain, a start and a bump. Init maps to Init.

### Sharing and the exchange

Three facts make `SharingProofs`' invariant inductive. The port, the thread and the server
stand or fall together (`ThreadHoldsPort`, `ServerHasThread`). A waiting fetch is on one
connection and on one only (`OneConnectionEach`). And `Stand` lists the sequences of
effects that may still be left, each with what the server and the store are at that point:
the nested ShareFailed is the last of them. `SettingIsInForce` is its case of no effects.

In `ShareExchangeProofs` what an exchange has taken and what it may still take are the
deadline together, and the main thread has waited no longer than the exchange it waits for, or
than its connection has had (`DeadlineHolds`). A queued fetch has waited, with a deadline for each connection before it
and its own, no longer than was promised when it came (`PromiseKept`): the sum stays the
same as time passes, and goes down as the queue moves.

`ReadsWholeAnswersOnly` has two halves. That decoding undoes encoding (`Decoded`) is about what
texts say of a field: two texts put together say what either says (`TextsSay`), and a line speaks of
its own field only (`LineSays`). That a cut is noticed (`Parsed`) is about the frame: before the
blank line there is no body, and after it the body is as long as stated only when all has
arrived. `AnswersInv` carries along the steps which reading an answer was made of. With it, and
the bounds on its times (`TypesInv`), what a fetch was sent and what it returned are readings.

### The scan

`MemoHolds` says an app that is remembered is the owner, and that "in no app" is remembered
only of a process that is in none or has exited; `WalkHolds` that the processes a walk has
passed have the owner of the one it looks at next. The second needs that the owner of a process in no app
is the owner of the process responsible for it (`OwnerIsResponsible`). The chain of
responsible processes is looked along for as many steps as there are processes; that one
more finds nothing new is a pigeonhole argument (`ReachGrows`): as long as looking further
finds more, the processes seen grow by one each time, and there are no more than that.

`RowsAreTheHeaviestApps` needs more of a scan that nothing disturbs (`TallyInv`): the records are
the processes with an app that have been looked at, one each, at the size the kernel has
for them; a walk has the hops left that its chain is still long, so it never gives up; and a chain that
comes back to the process before leads to no app (`RingHasNone`), which is why the walk may stop
there. An app's records then add up to its processes (`TotalIsOwners`), a sum over records
rewritten as one over pids, and the rows kept are the beginning of a sorted list of all apps
(`KeptRows`).

### The rows

`StablySorted` puts a row at the place that is one more than the number of rows that go before
it, by the order or, where that has them equal, as they stood. `Sorts` is what this gives for
any weak order: the places are distinct, so every row has one, and the rows are in order. Both
orders of the code are weak (`OrdersAreWeak`), so ranking keeps every row and leaves the growers
first, by growth, and rows that grew the same by size (`InRank`, `RankSorts`), since the second sort
keeps the order of the first among them. `NoGrowerIsCrowdedOut` is then a fact about what is in
front of a cut.

`GrowthSpansTwoReadingsInARow` needs that the baseline is what the menu shows: whatever takes
the rows away forgets the baseline too, and a drain sets both from one answer
(`BaselineIsShown`), and that no answer waits while the list is hidden (`ShownWhileAnswered`).

`AnswersAreScans` says that these theorems are about the scans `ProcessScan` has: two rows of a
good answer are of two apps, in order of size, at most as many as asked for, whichever processes
exited meanwhile.

### Counting

`BaselineHolds` of `CpuTicksProofs` says that less than a wrap lies between a baseline and its
counter. `MeasuresWhatElapsed` then is about sums over processors, whose terms are the
same.

`SwapIsCounted` ties the age of the swap reading to its countdown; the window, the mark and
the gauge change in one step, so `MarkMatchesHistory` is inductive with the types.
`CaptionSpansItsSamples` is not: it bounds the whole window, whose oldest samples go.
`CaptionInv` says of every suffix of the window that its gaps and the wait for the next tick are within
a tick and the tolerance of its ticks. A sample that was late shortens the wait for the
next, which is why the delays do not add up.

`CellsFollowShares` is the argument of the largest remainder. The whole quotas leave as many
cells to give as the remainders are whole totals (`WholeMultiple`), which are fewer than there are
categories with a remainder (`TooFewRemainders`), because a remainder is less than the total. So
ranking by remainder (`RanksArePlaces`), as many categories get one cell more as cells are left
(`FirstOnes`), and none that divides evenly is among them (`FirstHaveRemainders`).

`SumProofs` has what these need of sums over finite sets: that the order of the elements
does not matter, that one element may be taken out, that equal functions have equal sums
and sums add, that the sum over an interval may be shifted, or that over any set renamed. Induction on a formula is out
of the prover's reach, since its theorems take an operator as a parameter. Induction on a
set of numbers is not (`NumbersByInduction`, from the well-foundedness of `Nat`), and a fact
about sets of n elements, or chains of n processes, is a set of such n.

### Preferences

The lock leaves one rami at a time (`OneHolder`). `Stands` lists the three points between
two effects at which it may end, with what it has shown and what the store has there.

### The dropdown

`DropdownShowsModel` is about an open menu, which shows what was drawn when it opened or
since. Its invariant (`DrawnIsModel`) has to be about any menu: open or not, the
items are those of the last model's shape, and every view the model has content for has that
content. Whether items are built anew depends on the shape alone, so the proof is that a model's
shape determines its items (`SlotsList`), and that an item is among them exactly when the model has
content for it (`ItemHasContent`): a shape that left out a detail, or a pool with one view too few,
breaks a step of it. `OneReading` ties the tooltip and the icon of an open menu to the
reading last taken and to the model's; a drain draws the reading the last refresh took.

### Model-checked only

- Liveness, which the prover cannot do: `AppsLeaveLoading`, `CpuLeavesLoading`,
  `ScanEnds`, `StopEnds`, `CheckmarkCatchesUp`, of `ModuleTurnedOnIsShown` that the menu
  comes back, and of `SharedMacIsAsked` that Loading ends.

Every invariant and every action property of the passing runs is a theorem as well.

Proved only: the types, `NoFetchOutlivesItsMenu` and `HistoryAdvancesByTicks` of the
engine, `HistoryIsOfSamples`, and `AnswersAreScans`.

## Where documents and code differ

1. `src/.cursor/skills/verify-rami/features/share-over-tailscale.md:34` says that with
   the port taken, turning sharing on unchecks the item again. The nested ShareFailed
   does uncheck it, then the outer toggle's own render, made while the setting was on,
   checks it until the next refresh. The run `sharing_checkmark` shows it;
   `CheckmarkCatchesUp` shows that a refresh repairs it.

Seen while modelling, and not stated as a property of a run:

2. `settings-modules.md:39` in the same directory says the menu closes and reopens
   after each toggle. It reopens when a module is turned on (`engine.rs:414-422` and
   the other module toggles).
3. `engine.rs:48-49` says a shared reading older than about 60 s shows as Loading when
   the menu opens. The age is counted in ticks (`engine.rs:336-337, 703`), so while
   Auto-Refresh is off it does not grow, and an old reading opens as current, also after
   Auto-Refresh is on again. `OpensOnFreshReading` is therefore about readings since which
   a tick came in every period. In its run Auto-Refresh is not clicked; the theorem
   covers clicks.
4. `share.rs:1-2` says rami answers while the setting is on. The listener ends when its
   memory sampler cannot be made (`share.rs:241-247`), and the setting stays on.
5. `engine.rs:549-552` says the app and swap cadences are meant to track wall-clock
   time. The swap cadence counts samples (`memory.rs:302-310`), and menu openings and
   toggles are samples too.
6. `format.rs:62-64` says the history's caption names the span the samples cover, and
   `engine.rs:402-404` that the window describes the last two minutes. The caption takes
   one tick between any two samples, so it names too short a span when a tick's sample
   failed or the Mac slept, and up to a tick too long a one when the first sample came
   from an opening between two ticks. `CaptionSpansItsSamples` states what remains.
7. `share.rs:153-154` says a fetch blocks for up to a few seconds. Its deadline begins
   after the host's name is looked up (`share.rs:155-160`), which has none here.

## Not modelled

- What a request says, which the code ignores, and the lookup of the host's name before
  a fetch. Time to write an answer: it is smaller than a socket buffer.
- Parts of a text below a line or a number: `ShareWire` has the eleven memory numbers,
  the name and the model as one, which is what requiring all of them amounts to.
- The range beside the caption's span, the least and greatest share of the samples.
- The GPU sampler, which keeps nothing: its reading or failure is in `RefreshEngine`.
- Wording, number formats, geometry and drawing; the diagnostics report; the entry
  point; packaging, install and release scripts.
- A bound on threads: many fetches are under way after fast opening and closing
  (`app.rs:123`), which nothing in the code bounds.
- `RAMI_FORCE_PRESSURE`, a debugging aid.

## Plan

Modelled, in this order: `RefreshEngine` and its runs, `Sharing`, `ProcessScan`,
`MemoryReading`, `CpuTicks`, `AppRows`, `Preferences`, `TrayMenu`; `Asking` and its two
refinements, `MemoryHistory`, `ShareWire`, `ShareExchange`. Proved: what the tables above
list.

To come in the model: `RefreshEngine`'s one-step `Share` as an abstraction of `Sharing`'s
effects and nested event.
