-------------------------------- MODULE TrayMenu --------------------------------
(***************************************************************************)
(* The status item and its dropdown: TrayController of src/tray/mod.rs and *)
(* the slots of src/tray/layout.rs, given the renders src/engine.rs emits. *)
(* The controller redraws only what changed, so it keeps what it drew: the *)
(* menu's shape, the gauge, the tooltip, and every view its last content.  *)
(*                                                                         *)
(* A reading stands for all its figures; what they say is in               *)
(* MemoryReading, how app rows are ranked in AppRows.  Left out: the       *)
(* Settings submenu's items, which Preferences has, and the drawing.       *)
(***************************************************************************)
EXTENDS Naturals, Sequences, SequencesExt

CONSTANTS
  Readings,      \* memory readings
  UsedPercent,   \* by reading
  Pressure,      \* by reading
  SwapUsed,      \* by reading: there is swap in use
  Trends,        \* MemoryTrend
  Figures,       \* what a row of an app may say
  Modules,       \* what the modules may show next to a reading
  APP_ROW_POOL

VARIABLES
  dropdown_open, \* the engine's menu_open
  last_snapshot, \* the engine's: the last reading, or NoReading
  model,         \* what the dropdown was last told to show, or NoModel
  menu,          \* the items of the NSMenu
  shape,         \* the shape it was built for
  view,          \* by item: what its view draws
  last_gauge,    \* the status icon
  last_tooltip   \* the reading the button's help names

trayEngine == <<dropdown_open, last_snapshot>>
icon == <<last_gauge, last_tooltip>>
dropdown == <<model, menu, shape, view>>
trayVars == <<trayEngine, icon, dropdown>>

NoReading == "NoReading"
NoFigure == "NoFigure"
NoModel == [state |-> "Loading"]
NotDrawn == [figure |-> "NotDrawn", accent |-> "Neutral"]

SharedSections == {"Hidden", "Loading", "Offline", "Reading"}

\* AppMemorySnapshot: only Loaded has rows.
AppSections ==
  [state: {"Hidden", "Loading", "Unavailable"}, rows: {<<>>}]
    \union [state: {"Loaded"}, rows: Seq(Figures)]

Pressures == {"Normal", "Warning", "Critical"}

ASSUME TrayAssumption ==
  /\ NoReading \notin Readings
  /\ UsedPercent \in [Readings -> 0 .. 100]
  /\ Pressure \in [Readings -> Pressures]
  /\ SwapUsed \in [Readings -> BOOLEAN]
  /\ "Stable" \in Trends
  /\ \A m \in Modules : m.shared \in SharedSections /\ m.apps \in AppSections
  /\ APP_ROW_POOL \in Nat \ {0}

\* The items a menu can hold, by name and, for the app rows, place.
Item(name) == [name |-> name, place |-> 0]
AppRow(n) == [name |-> "App", place |-> n]
Separator == Item("Separator")

MemoryItems == {Item("Map"), Item("Legend"), Item("Pressure"), Item("History")}
AppRows == {AppRow(n) : n \in 1 .. APP_ROW_POOL}
SharedItems == {Item("SharedStatus"), Item("SharedMac")}
DataItems == MemoryItems \union AppRows \union SharedItems
               \union {Item("Swap"), Item("Cpu"), Item("Gpu")}

--------------------------------------------------------------------------------
(* layout.rs *)

When(condition, slots) == IF condition THEN slots ELSE <<>>

\* menu_shape_for but for the count of app rows; Loading and Offline have one item.
ShapeWithRows(m, rows) ==
  IF m = NoModel THEN NoModel
  ELSE [state |-> "Loaded", apps |-> m.apps.state, rows |-> rows, swap |-> SwapUsed[m.reading],
        cpu |-> m.cpu # NoFigure, gpu |-> m.gpu # NoFigure,
        shared |-> IF m.shared \in {"Loading", "Offline"} THEN "Status" ELSE m.shared]

Rows(m) == IF m = NoModel THEN 0 ELSE Len(m.apps.rows)

ShapeIgnoringRowCount(m) == ShapeWithRows(m, 1)
MenuShapeFor(m) == ShapeWithRows(m, IF Rows(m) < APP_ROW_POOL THEN Rows(m) ELSE APP_ROW_POOL)

AppSlots(s) ==
  CASE s.apps = "Hidden" -> <<>>
    [] s.apps = "Loading" -> <<Separator, Item("AppLoading")>>
    [] s.apps = "Unavailable" -> <<Separator, Item("AppUnavailable")>>
    [] s.apps = "Loaded" -> <<Separator>> \o [n \in 1 .. s.rows |-> AppRow(n)]

\* CPU and GPU share a section.
CpuAndGpuSlots(s) ==
  When(s.cpu \/ s.gpu, <<Separator>>) \o When(s.cpu, <<Item("Cpu")>>)
    \o When(s.gpu, <<Item("Gpu")>>)

SharedSlots(s) ==
  CASE s.shared = "Hidden" -> <<>>
    [] s.shared = "Status" -> <<Separator, Item("SharedStatus")>>
    [] s.shared = "Reading" -> <<Separator, Item("SharedMac")>>

MenuSlots(s) ==
  (IF s = NoModel THEN <<Item("Loading")>>
   ELSE <<Item("Map"), Item("Legend"), Item("Pressure")>> \o When(s.swap, <<Item("Swap")>>)
          \o <<Item("History")>> \o AppSlots(s) \o CpuAndGpuSlots(s) \o SharedSlots(s))
    \o <<Separator, Item("Settings"), Separator, Item("Quit")>>

--------------------------------------------------------------------------------
(* The dropdown: apply_model *)

\* What the model has for an item's view; NotDrawn when it has nothing.  The shared
\* Mac is drawn in colours of its own.
Content(m, item) ==
  LET drawn(figure) == [figure |-> figure, accent |-> Pressure[m.reading]]
      row(figure) == IF figure = NoFigure THEN NotDrawn ELSE drawn(figure)
  IN  IF m = NoModel THEN NotDrawn
      ELSE CASE item \in MemoryItems -> drawn(m.reading)
             [] item = Item("Swap") -> IF SwapUsed[m.reading] THEN drawn(m.reading) ELSE NotDrawn
             [] item \in AppRows -> IF item.place <= Len(m.apps.rows)
                                    THEN drawn(m.apps.rows[item.place]) ELSE NotDrawn
             [] item = Item("Cpu") -> row(m.cpu)
             [] item = Item("Gpu") -> row(m.gpu)
             [] item = Item("SharedStatus") ->
                  IF m.shared \in {"Loading", "Offline"}
                  THEN [figure |-> m.shared, accent |-> "Neutral"] ELSE NotDrawn
             [] item = Item("SharedMac") ->
                  IF m.shared = "Reading" THEN [figure |-> "Reading", accent |-> "Neutral"]
                  ELSE NotDrawn

\* A view the model has nothing for keeps what it drew.
Updated(m) ==
  [item \in DataItems |->
     IF Content(m, item) = NotDrawn THEN view[item] ELSE Content(m, item)]

ApplyModel(m) ==
  /\ model' = m
  /\ shape' = MenuShapeFor(m)
  /\ menu' = IF shape # MenuShapeFor(m) THEN MenuSlots(MenuShapeFor(m)) ELSE menu
  /\ view' = Updated(m)

--------------------------------------------------------------------------------
(* The status icon *)

MadeAnewOnPercent(gauge) == IF last_gauge.percent = gauge.percent THEN last_gauge ELSE gauge

\* The icon is made anew when any of the three changes.
MadeAnew(gauge) == gauge

SetGauge(percent, trend, pressure) ==
  last_gauge' = MadeAnew([percent |-> percent, trend |-> trend, pressure |-> pressure])

SetGaugeSnapshot(reading, trend) ==
  /\ SetGauge(UsedPercent[reading], trend, Pressure[reading])
  /\ last_tooltip' = reading

\* set_placeholder
SetPlaceholder ==
  /\ SetGauge(0, "Stable", "Normal")
  /\ last_tooltip' = NoReading
  /\ ApplyModel(NoModel)

\* The controller as it is built: an icon at nothing, and the menu without a model.
TrayInit ==
  /\ dropdown_open = FALSE
  /\ last_snapshot = NoReading
  /\ model = NoModel
  /\ shape = MenuShapeFor(NoModel) /\ menu = MenuSlots(shape)
  /\ view = [item \in DataItems |-> NotDrawn]
  /\ last_gauge = [percent |-> 0, trend |-> "Stable", pressure |-> "Normal"]
  /\ last_tooltip = NoReading

--------------------------------------------------------------------------------
(* The engine's renders, event by event: what Refresh and the handlers named after  *)
(* Tray give the controller                                                       *)

\* dropdown_model of a reading and whatever the modules show next to it.
SetMenuSnapshot(reading) ==
  \E m \in Modules :
    ApplyModel([state |-> "Loaded", reading |-> reading, apps |-> m.apps, cpu |-> m.cpu,
                gpu |-> m.gpu, shared |-> m.shared])

TrayRefresh ==
  \/ \E reading \in Readings, trend \in Trends :
       /\ last_snapshot' = reading
       /\ SetGaugeSnapshot(reading, trend)
       /\ IF dropdown_open' THEN SetMenuSnapshot(reading) ELSE UNCHANGED dropdown
  \/ /\ last_snapshot' = NoReading
     /\ SetPlaceholder

\* A tick, or a toggle.
TrayTick == UNCHANGED dropdown_open /\ TrayRefresh

TrayMenuWillOpen == ~dropdown_open /\ dropdown_open' = TRUE /\ TrayRefresh

\* drain_and_rerender draws the last reading with what has arrived.
DrainTimerFires ==
  /\ dropdown_open /\ last_snapshot # NoReading
  /\ SetMenuSnapshot(last_snapshot)
  /\ UNCHANGED <<trayEngine, icon>>

TrayMenuDidClose ==
  /\ dropdown_open /\ dropdown_open' = FALSE
  /\ UNCHANGED <<last_snapshot, icon, dropdown>>

TrayNext == TrayTick \/ TrayMenuWillOpen \/ DrainTimerFires \/ TrayMenuDidClose

TraySpec == TrayInit /\ [][TrayNext]_trayVars

--------------------------------------------------------------------------------
(* Properties *)

InMenu == ToSet(menu)

TrayTypeOK ==
  /\ dropdown_open \in BOOLEAN
  /\ last_snapshot \in Readings \union {NoReading}
  /\ InMenu \subseteq DataItems \union
       {Item(name) : name \in {"Loading", "AppLoading", "AppUnavailable", "Separator",
                               "Settings", "Quit"}}
  /\ \A item \in DataItems : view[item].accent \in Pressures \union {"Neutral"}
  /\ last_gauge \in [percent: 0 .. 100, trend: Trends, pressure: Pressures]
  /\ last_tooltip \in Readings \union {NoReading}

\* The open dropdown has an item for whatever the last model has content for, and
\* for nothing else, and each draws that content: neither the cached shape nor a
\* cached view ever leaves a row out, a blank row or an old figure
\* (tray/mod.rs:198-267; tray/layout.rs:60-80).
DropdownShowsModel ==
  dropdown_open => \A item \in DataItems :
    /\ item \in InMenu <=> Content(model, item) # NotDrawn
    /\ item \in InMenu => view[item] = Content(model, item)

\* The icon, the tooltip and the rows of an open dropdown are of one reading: a
\* failed sample turns all three to unavailable, a drain never mixes an older
\* reading in (engine.rs:484-528, 560-585; tray/mod.rs:84-105, 154-196).
IconMatchesDropdown ==
  dropdown_open =>
    IF model = NoModel
    THEN last_tooltip = NoReading /\ last_gauge.percent = 0 /\ menu[1] = Item("Loading")
    ELSE /\ last_tooltip = model.reading
         /\ last_gauge.percent = UsedPercent[model.reading]
         /\ \A item \in MemoryItems : last_gauge.pressure = view[item].accent

================================================================================
