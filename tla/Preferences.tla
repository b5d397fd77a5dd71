------------------------------- MODULE Preferences -------------------------------
(***************************************************************************)
(* What of rami outlives a process: the stored settings (src/settings.rs), *)
(* the lock that keeps a second rami out (src/lock.rs) and the login item  *)
(* (src/login_item.rs), with the part of src/engine.rs and src/app.rs that *)
(* loads, shows, flips and stores them.                                    *)
(*                                                                         *)
(* An engine step returns effects and the shell performs them one by one;  *)
(* a process may die between any two.  System Settings changes the login   *)
(* item behind rami's back.                                                *)
(*                                                                         *)
(* Left out: Share over Tailscale, whose effects fail (see Sharing), the   *)
(* shared host, and the delay of the defaults daemon: a value set counts   *)
(* as stored.                                                              *)
(***************************************************************************)
EXTENDS Naturals, Sequences

CONSTANTS
  Processes,      \* the ramis that may be started
  Items,          \* the settings that are switches and stored
  Default,        \* Settings::default()
  Failures        \* {"login"} when registering may fail

VARIABLES
  stored,         \* by item: the set of the value stored, {} when never written
  holders,        \* the processes holding the file lock
  in_app_bundle,  \* the executable lies in an app bundle; never changes
  service,        \* SMAppService's status
  meddled,        \* service changed since rami last asked
  menu_open,      \* by process
  settings,       \* by process: the engine's
  launch_at_login_status,  \* by process: the engine's
  shown,          \* by process: the Settings items as last set
  work            \* by process: the effects still to perform

engine == <<menu_open, settings, launch_at_login_status>>
login_item == <<in_app_bundle, service, meddled>>
vars == <<stored, holders, login_item, engine, shown, work>>

LaunchAtLoginStatus == {"Disabled", "Enabled", "RequiresApproval", "Unavailable"}

\* SMAppService's notRegistered, enabled, requiresApproval and notFound.
RawStatus == 0 .. 3

ASSUME ConstantsAssumption == Default \in [Items -> BOOLEAN]

\* PersistSetting and Render(SettingsState); their other fields do not matter.
Persist(item, value) ==
  [effect |-> "PersistSetting", item |-> item, value |-> value]
Render(on, login) ==
  [effect |-> "Render", settings |-> on, launch_at_login |-> login]

NothingShown == [settings |-> Default, launch_at_login |-> "Unavailable"]

--------------------------------------------------------------------------------
(* Settings, lock and login item as a process finds them *)

\* resolve_settings
Loaded == [i \in Items |-> IF stored[i] = {} THEN Default[i] ELSE stored[i] = {TRUE}]

\* flock(LOCK_EX | LOCK_NB): the kernel drops it with its process.
LockIsFree == holders = {}

StatusFor(raw) ==
  CASE raw = 0 -> "Disabled"
    [] raw = 1 -> "Enabled"
    [] raw = 2 -> "RequiresApproval"
    [] raw = 3 -> IF in_app_bundle THEN "Disabled" ELSE "Unavailable"

\* The title is enabled, so it can be clicked.
ShouldEnableMenuItem(status) == status # "Unavailable"

\* The main thread is back in the run loop.
Idle(p) == p \in holders /\ work[p] = <<>>

Then(p, effects) == work' = [work EXCEPT ![p] = @ \o effects]

\* The service is asked: nothing has changed since.
Asked(p, raw) ==
  /\ launch_at_login_status' = [launch_at_login_status EXCEPT ![p] = StatusFor(raw)]
  /\ meddled' = FALSE

\* What every refresh renders first.
Refresh(p) == <<Render(settings'[p], launch_at_login_status'[p])>>

Init ==
  /\ stored \in [Items -> {{}, {TRUE}, {FALSE}}]
  /\ holders = {}
  /\ in_app_bundle \in BOOLEAN
  /\ service \in RawStatus /\ meddled = FALSE
  /\ menu_open = [p \in Processes |-> FALSE]
  /\ settings = [p \in Processes |-> Default]
  /\ launch_at_login_status = [p \in Processes |-> "Unavailable"]
  /\ shown = [p \in Processes |-> NothingShown]
  /\ work = [p \in Processes |-> <<>>]

--------------------------------------------------------------------------------
(* One process *)

\* App::new up to Startup; a process that finds the lock taken ends at once.
Launch(p) ==
  /\ p \notin holders /\ LockIsFree
  /\ holders' = holders \union {p}
  /\ settings' = [settings EXCEPT ![p] = Loaded]
  /\ Asked(p, service)
  /\ Then(p, Refresh(p))
  /\ UNCHANGED <<stored, in_app_bundle, service, menu_open, shown>>

Tick(p) ==
  /\ Idle(p)
  /\ UNCHANGED engine
  /\ Then(p, Refresh(p))
  /\ UNCHANGED <<stored, holders, login_item, shown>>

MenuWillOpen(p) ==
  /\ Idle(p) /\ ~menu_open[p]
  /\ menu_open' = [menu_open EXCEPT ![p] = TRUE]
  /\ UNCHANGED settings
  /\ Asked(p, service)
  /\ Then(p, Refresh(p))
  /\ UNCHANGED <<stored, holders, in_app_bundle, service, shown>>

MenuDidClose(p) ==
  /\ Idle(p) /\ menu_open[p]
  /\ menu_open' = [menu_open EXCEPT ![p] = FALSE]
  /\ UNCHANGED <<stored, holders, login_item, settings, launch_at_login_status,
                 shown, work>>

RenderedFirst(p, item) == Refresh(p) \o <<Persist(item, settings'[p][item])>>

\* The order of the effects of a toggle.
Toggled(p, item) == <<Persist(item, settings'[p][item])>> \o Refresh(p)

\* The action of a click comes before the menu has closed, or after.
Toggle(p, item) ==
  /\ Idle(p)
  /\ settings' = [settings EXCEPT ![p][item] = ~@]
  /\ UNCHANGED <<menu_open, launch_at_login_status>>
  /\ Then(p, Toggled(p, item))
  /\ UNCHANGED <<stored, holders, login_item, shown>>

\* register or unregister, by the status at the click and not the one shown.  An
\* attempt to register that fails may still leave the item awaiting approval.
Flipped ==
  LET status == StatusFor(service)
  IN  \/ status = "Enabled" /\ service' = 0
      \/ status \in {"Disabled", "RequiresApproval"} /\ service' \in {1, 2}
      \/ "login" \in Failures /\ status \in {"Disabled", "RequiresApproval"}
           /\ service' \in {service, 2}
      \/ "login" \in Failures /\ status = "Enabled" /\ UNCHANGED service
      \/ status = "Unavailable" /\ UNCHANGED service

StatusBeforeTheClick(p) == launch_at_login_status' = launch_at_login_status /\ meddled' = FALSE

\* Succeeded or not, the status is read again.
StatusAfterTheClick(p) == Asked(p, service')

ToggleLaunchAtLogin(p) ==
  /\ Idle(p)
  /\ ShouldEnableMenuItem(shown[p].launch_at_login)
  /\ Flipped
  /\ StatusAfterTheClick(p)
  /\ UNCHANGED <<menu_open, settings>>
  /\ Then(p, Refresh(p))
  /\ UNCHANGED <<stored, holders, in_app_bundle, shown>>

\* The next effect.
Perform(p) ==
  /\ work[p] # <<>>
  /\ LET next == Head(work[p])
     IN  CASE next.effect = "PersistSetting" ->
                /\ stored' = [stored EXCEPT ![next.item] = {next.value}]
                /\ UNCHANGED shown
           [] next.effect = "Render" ->
                /\ shown' = [shown EXCEPT ![p] = [settings |-> next.settings,
                                                  launch_at_login |-> next.launch_at_login]]
                /\ UNCHANGED stored
  /\ work' = [work EXCEPT ![p] = Tail(@)]
  /\ UNCHANGED <<holders, login_item, engine>>

\* Quit, crash or power loss.
Ends(p) ==
  /\ p \in holders
  /\ holders' = holders \ {p}
  /\ menu_open' = [menu_open EXCEPT ![p] = FALSE]
  /\ work' = [work EXCEPT ![p] = <<>>]
  /\ shown' = [shown EXCEPT ![p] = NothingShown]
  /\ UNCHANGED <<stored, login_item, settings, launch_at_login_status>>

\* System Settings, Login Items.
SystemSettings ==
  /\ service' \in RawStatus \ {service}
  /\ meddled' = TRUE
  /\ UNCHANGED <<stored, holders, in_app_bundle, engine, shown, work>>

Next ==
  \/ \E p \in Processes :
       \/ Launch(p) \/ Tick(p) \/ MenuWillOpen(p) \/ MenuDidClose(p)
       \/ \E item \in Items : Toggle(p, item)
       \/ ToggleLaunchAtLogin(p)
       \/ Perform(p) \/ Ends(p)
  \/ SystemSettings

Spec == Init /\ [][Next]_vars

--------------------------------------------------------------------------------
(* Properties *)

Effects ==
  [effect: {"PersistSetting"}, item: Items, value: BOOLEAN]
    \union [effect: {"Render"}, settings: [Items -> BOOLEAN],
            launch_at_login: LaunchAtLoginStatus]

TypeOK ==
  /\ stored \in [Items -> {{}, {TRUE}, {FALSE}}]
  /\ holders \subseteq Processes
  /\ in_app_bundle \in BOOLEAN
  /\ service \in RawStatus /\ meddled \in BOOLEAN
  /\ menu_open \in [Processes -> BOOLEAN]
  /\ settings \in [Processes -> [Items -> BOOLEAN]]
  /\ launch_at_login_status \in [Processes -> LaunchAtLoginStatus]
  /\ shown \in [Processes -> [settings: [Items -> BOOLEAN],
                              launch_at_login: LaunchAtLoginStatus]]
  /\ work \in [Processes -> Seq(Effects)]
  /\ \A p \in Processes : Len(work[p]) <= 2

\* The store is never behind the checkmarks: should rami end now, the next one loads
\* what the user sees, or what was clicked and is about to be drawn.  It takes one
\* rami at a time and storing before drawing (engine.rs:395-482; lock.rs:29-50).
ShownSettingsSurvive ==
  \A p \in holders : shown[p].settings # Loaded =>
    \E i \in DOMAIN work[p] : work[p][i].effect = "Render" /\ work[p][i].settings = Loaded

\* In an open menu the login item shows the service's status, whatever failed,
\* unless System Settings changed it since (engine.rs:344-347, 477-480;
\* app.rs:151-159).
LoginItemFollowsService ==
  \A p \in holders :
    menu_open[p] /\ work[p] = <<>> /\ ~meddled =>
      shown[p].launch_at_login = StatusFor(service)

================================================================================
