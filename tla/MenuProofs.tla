------------------------------- MODULE MenuProofs -------------------------------
(***************************************************************************)
(* What holds of the menu: of the settings it shows and stores             *)
(* (Preferences), for any number of ramis, any settings and any defaults,  *)
(* and of the dropdown that is drawn (TrayMenu), for any readings, any     *)
(* number of app rows and any pool of row views.                           *)
(*                                                                         *)
(* The lock leaves one rami at a time, so the store only changes by what   *)
(* that one does.  The invariant of the first part says where it stands in *)
(* the effects of its last event, and what it has shown and stored by      *)
(* then.  That of the second says that what was drawn last, items and      *)
(* views, is the last model's, whether the menu is open or not.            *)
(***************************************************************************)
EXTENDS Preferences, TrayMenu, SequenceTheorems, TLAPS

OneHolder ==
  /\ \A p, q \in holders : p = q
  /\ \A p \in Processes \ holders : work[p] = <<>>

\* All is stored and shown; or stored but not shown; or a switch was clicked and its
\* value is yet to be stored, and what is shown is what is stored.
Stands(p) ==
  LET last == Render(settings[p], launch_at_login_status[p])
  IN  \/ /\ work[p] = <<>> /\ settings[p] = Loaded
         /\ shown[p].settings = Loaded
         /\ shown[p].launch_at_login = launch_at_login_status[p]
      \/ work[p] = <<last>> /\ settings[p] = Loaded
      \/ \E item \in Items, value \in BOOLEAN :
           /\ work[p] = <<Persist(item, value), last>>
           /\ shown[p].settings = Loaded
           /\ settings[p] = [Loaded EXCEPT ![item] = value]

\* What rami knows of the login item is the service's status, until System Settings
\* changes that.
KnowsService ==
  \A p \in holders : ~meddled => launch_at_login_status[p] = StatusFor(service)

Inv == TypeOK /\ OneHolder /\ (\A p \in holders : Stands(p)) /\ KnowsService

--------------------------------------------------------------------------------
(* Types *)

\* What is loaded is a value for every item.
LEMMA LoadedType == TypeOK => Loaded \in [Items -> BOOLEAN]
BY ConstantsAssumption DEF Loaded, TypeOK

\* Every raw status stands for one of the code's.
LEMMA StatusType ==
  ASSUME TypeOK, NEW raw \in RawStatus
  PROVE  StatusFor(raw) \in LaunchAtLoginStatus
BY DEF StatusFor, RawStatus, LaunchAtLoginStatus, TypeOK

\* The effects of one process.
LEMMA EffectTypes ==
  /\ \A item \in Items, value \in BOOLEAN : Persist(item, value) \in Effects
  /\ \A on \in [Items -> BOOLEAN], login \in LaunchAtLoginStatus : Render(on, login) \in Effects
BY DEF Persist, Render, Effects

\* Short sequences written out, of any elements.
LEMMA ShortSequences ==
  /\ \A S : \A a \in S : <<a>> \in Seq(S) /\ Len(<<a>>) = 1
  /\ \A S : \A a, b \in S : <<a, b>> \in Seq(S) /\ Len(<<a, b>>) = 2
  /\ \A a : Head(<<a>>) = a /\ Tail(<<a>>) = <<>> /\ <<a>> # <<>>
  /\ \A a, b : Head(<<a, b>>) = a /\ Tail(<<a, b>>) = <<b>> /\ <<a, b>> # <<>>
OBVIOUS

\* Putting a toggle's effect before its refresh.
LEMMA ConcatTwo ==
  ASSUME NEW a, NEW b
  PROVE  <<a>> \o <<b>> = <<a, b>>
<1> DEFINE S == {a, b}
           s == <<a>> \o <<b>>
           t == <<a, b>>
<1>1. <<a>> \in Seq(S) /\ <<b>> \in Seq(S)
  OBVIOUS
<1>2. Len(s) = 2 /\ s[1] = a /\ s[2] = b /\ s \in Seq(S)
  BY <1>1, ConcatProperties
<1>3. Len(t) = 2 /\ t[1] = a /\ t[2] = b /\ t \in Seq(S)
  OBVIOUS
<1> HIDE DEF S, s, t
<1>4. \A i \in 1 .. Len(s) : s[i] = t[i]
  BY <1>2, <1>3
<1>5. s = t
  BY <1>2, <1>3, <1>4, SeqEqual
<1> QED
  BY <1>5 DEF s, t

\* The work of an event whose process had none left.
LEMMA WorkThen ==
  ASSUME TypeOK, NEW p \in Processes, work[p] = <<>>, NEW effects \in Seq(Effects),
         Then(p, effects)
  PROVE  work' = [work EXCEPT ![p] = effects]
<1>1. <<>> \o effects = effects
  BY ConcatEmptySeq
<1> QED
  BY <1>1 DEF Then, TypeOK

--------------------------------------------------------------------------------
(* One lemma per action *)

\* The refresh that ends an event of a process, and the toggle's effect before it.
LEMMA RefreshType ==
  ASSUME NEW p \in Processes, settings' \in [Processes -> [Items -> BOOLEAN]],
         launch_at_login_status' \in [Processes -> LaunchAtLoginStatus]
  PROVE  /\ Refresh(p) = <<Render(settings[p], launch_at_login_status[p])'>>
         /\ Refresh(p) \in Seq(Effects) /\ Len(Refresh(p)) = 1
         /\ \A item \in Items :
              /\ Toggled(p, item) =
                   <<Persist(item, settings'[p][item]),
                     Render(settings[p], launch_at_login_status[p])'>>
              /\ Toggled(p, item) \in Seq(Effects) /\ Len(Toggled(p, item)) = 2
<1> DEFINE last == Render(settings[p], launch_at_login_status[p])'
<1>1. last \in Effects /\ Refresh(p) = <<last>>
  BY EffectTypes DEF Refresh, Render, Effects
<1>2. ASSUME NEW item \in Items
      PROVE  /\ Toggled(p, item) = <<Persist(item, settings'[p][item]), last>>
             /\ Persist(item, settings'[p][item]) \in Effects
  BY <1>1, ConcatTwo, EffectTypes DEF Toggled
<1> HIDE DEF last
<1>3. <<last>> \in Seq(Effects) /\ Len(<<last>>) = 1
  BY <1>1, ShortSequences
<1>4. ASSUME NEW item \in Items
      PROVE  Toggled(p, item) \in Seq(Effects) /\ Len(Toggled(p, item)) = 2
  BY <1>1, <1>2, ShortSequences
<1> QED
  BY <1>1, <1>2, <1>3, <1>4 DEF last

\* Whatever an event does, its refresh is what is left to do after it, and that suffices
\* when the settings are those stored.
LEMMA RefreshedStands ==
  ASSUME TypeOK, NEW p \in Processes, work[p] = <<>>, Then(p, Refresh(p)),
         UNCHANGED stored, settings'[p] = Loaded,
         settings' \in [Processes -> [Items -> BOOLEAN]],
         launch_at_login_status' \in [Processes -> LaunchAtLoginStatus]
  PROVE  /\ Stands(p)'
         /\ work' \in [Processes -> Seq(Effects)]
         /\ \A q \in Processes : Len(work'[q]) <= 2
         /\ \A q \in Processes \ {p} : work'[q] = work[q]
<1>1. work' = [work EXCEPT ![p] = Refresh(p)]
  BY RefreshType, WorkThen
<1>2. work'[p] = <<Render(settings[p], launch_at_login_status[p])'>>
  BY <1>1, RefreshType DEF TypeOK
<1>3. Loaded' = Loaded
  BY DEF Loaded
<1>4. Stands(p)'
  BY <1>2, <1>3 DEF Stands
<1>5. /\ work' \in [Processes -> Seq(Effects)]
      /\ \A q \in Processes : Len(work'[q]) <= 2
      /\ \A q \in Processes \ {p} : work'[q] = work[q]
  <2>1. Refresh(p) \in Seq(Effects) /\ Len(Refresh(p)) = 1
    BY RefreshType
  <2>2. work \in [Processes -> Seq(Effects)] /\ \A q \in Processes : Len(work[q]) <= 2
    BY DEF TypeOK
  <2>3. /\ \A q \in Processes \ {p} : work'[q] = work[q]
        /\ work'[p] = Refresh(p)
        /\ work' \in [Processes -> Seq(Effects)]
    BY <1>1, <2>1, <2>2
  <2>4. ASSUME NEW q \in Processes
        PROVE  Len(work'[q]) <= 2
    <3>1. CASE q = p
      <4>1. Len(work'[q]) = 1
        BY <2>1, <2>3, <3>1
      <4> QED
        BY <4>1
    <3>2. CASE q # p
      BY <2>2, <2>3, <3>2
    <3> QED
      BY <3>1, <3>2
  <2> QED
    BY <2>3, <2>4
<1> QED
  BY <1>4, <1>5

\* A launch finds no process that holds the lock, and takes it.
LEMMA LaunchKeepsInv ==
  ASSUME Inv, NEW p \in Processes, Launch(p)
  PROVE  Inv'
<1>1. /\ holders = {} /\ holders' = {p} /\ work[p] = <<>>
      /\ settings' = [settings EXCEPT ![p] = Loaded]
      /\ launch_at_login_status' = [launch_at_login_status EXCEPT ![p] = StatusFor(service)]
      /\ meddled' = FALSE /\ Then(p, Refresh(p))
      /\ UNCHANGED <<stored, in_app_bundle, service, menu_open, shown>>
  BY DEF Launch, LockIsFree, Asked, Inv, OneHolder
<1>2. /\ settings' \in [Processes -> [Items -> BOOLEAN]]
      /\ launch_at_login_status' \in [Processes -> LaunchAtLoginStatus]
      /\ settings'[p] = Loaded
  BY <1>1, LoadedType, StatusType DEF Inv, TypeOK
<1>3. /\ Stands(p)'
      /\ work' \in [Processes -> Seq(Effects)]
      /\ \A q \in Processes : Len(work'[q]) <= 2
      /\ \A q \in Processes \ {p} : work'[q] = work[q]
  BY <1>1, <1>2, RefreshedStands DEF Inv
<1>4. TypeOK'
  BY <1>1, <1>2, <1>3 DEF Inv, TypeOK
<1>5. OneHolder'
  BY <1>1, <1>3 DEF Inv, OneHolder
<1>6. KnowsService'
  BY <1>1 DEF Inv, TypeOK, KnowsService, StatusFor
<1> QED
  BY <1>1, <1>3, <1>4, <1>5, <1>6 DEF Inv

\* The one process there is, when it is idle.
LEMMA IdleStands ==
  ASSUME Inv, NEW p \in Processes, Idle(p)
  PROVE  /\ holders = {p} /\ work[p] = <<>> /\ settings[p] = Loaded
         /\ shown[p].settings = Loaded
         /\ shown[p].launch_at_login = launch_at_login_status[p]
<1>1. p \in holders /\ work[p] = <<>> /\ Stands(p)
  BY DEF Idle, Inv
<1>2. holders = {p}
  BY <1>1 DEF Inv, OneHolder
<1> QED
  BY <1>1, <1>2, ShortSequences DEF Stands

\* An event of the idle process that keeps the settings and what is stored and shown.
LEMMA QuietEventKeepsInv ==
  ASSUME Inv, NEW p \in Processes, Idle(p), Then(p, Refresh(p)),
         UNCHANGED <<stored, holders, in_app_bundle, settings, shown>>,
         service' \in RawStatus, meddled' \in BOOLEAN, menu_open' \in [Processes -> BOOLEAN],
         launch_at_login_status' \in [Processes -> LaunchAtLoginStatus],
         ~meddled' => launch_at_login_status'[p] = StatusFor(service')
  PROVE  Inv'
<1>1. holders = {p} /\ work[p] = <<>> /\ settings'[p] = Loaded
  BY IdleStands
<1>2. settings' \in [Processes -> [Items -> BOOLEAN]]
  BY DEF Inv, TypeOK
<1>3. /\ Stands(p)'
      /\ work' \in [Processes -> Seq(Effects)]
      /\ \A q \in Processes : Len(work'[q]) <= 2
      /\ \A q \in Processes \ {p} : work'[q] = work[q]
  BY <1>1, <1>2, RefreshedStands DEF Inv
<1>4. TypeOK'
  BY <1>2, <1>3 DEF Inv, TypeOK
<1>5. OneHolder'
  BY <1>1, <1>3 DEF Inv, OneHolder
<1>6. KnowsService'
  BY <1>1 DEF KnowsService, StatusFor
<1> QED
  BY <1>1, <1>3, <1>4, <1>5, <1>6 DEF Inv

\* A tick.
LEMMA TickKeepsInv ==
  ASSUME Inv, NEW p \in Processes, Tick(p)
  PROVE  Inv'
<1>1. /\ Idle(p) /\ Then(p, Refresh(p))
      /\ UNCHANGED <<stored, holders, in_app_bundle, service, meddled, menu_open, settings,
                     launch_at_login_status, shown>>
  BY DEF Tick, engine, login_item
<1>2. ~meddled => launch_at_login_status[p] = StatusFor(service)
  BY <1>1 DEF Idle, Inv, KnowsService
<1> QED
  BY <1>1, <1>2, QuietEventKeepsInv DEF Inv, TypeOK

\* A menu that opens.
LEMMA MenuWillOpenKeepsInv ==
  ASSUME Inv, NEW p \in Processes, MenuWillOpen(p)
  PROVE  Inv'
<1>1. /\ Idle(p) /\ Then(p, Refresh(p))
      /\ menu_open' = [menu_open EXCEPT ![p] = TRUE] /\ meddled' = FALSE
      /\ launch_at_login_status' = [launch_at_login_status EXCEPT ![p] = StatusFor(service)]
      /\ UNCHANGED <<stored, holders, in_app_bundle, service, settings, shown>>
  BY DEF MenuWillOpen, Asked
<1>2. StatusFor(service) \in LaunchAtLoginStatus
  BY StatusType DEF Inv, TypeOK
<1> QED
  BY <1>1, <1>2, QuietEventKeepsInv DEF Inv, TypeOK

\* A click on the login item.
LEMMA ToggleLaunchAtLoginKeepsInv ==
  ASSUME Inv, NEW p \in Processes, ToggleLaunchAtLogin(p)
  PROVE  Inv'
<1>1. /\ Idle(p) /\ Then(p, Refresh(p)) /\ Flipped /\ meddled' = FALSE
      /\ launch_at_login_status' = [launch_at_login_status EXCEPT ![p] = StatusFor(service')]
      /\ UNCHANGED <<stored, holders, in_app_bundle, settings, menu_open, shown>>
  BY DEF ToggleLaunchAtLogin, StatusAfterTheClick, Asked
<1>2. service' \in RawStatus
  BY <1>1 DEF Flipped, RawStatus, Inv, TypeOK
<1>3. StatusFor(service') \in LaunchAtLoginStatus
  BY <1>2, StatusType DEF Inv
<1> QED
  BY <1>1, <1>2, <1>3, QuietEventKeepsInv DEF Inv, TypeOK

\* A closing menu leaves everything else as it is.
LEMMA MenuDidCloseKeepsInv ==
  ASSUME Inv, NEW p \in Processes, MenuDidClose(p)
  PROVE  Inv'
<1>1. /\ menu_open' = [menu_open EXCEPT ![p] = FALSE]
      /\ UNCHANGED <<stored, holders, in_app_bundle, service, meddled, settings,
                     launch_at_login_status, shown, work>>
  BY DEF MenuDidClose, login_item
<1>2. TypeOK'
  BY <1>1 DEF Inv, TypeOK
<1>3. OneHolder' /\ KnowsService'
  BY <1>1 DEF Inv, OneHolder, KnowsService, StatusFor
<1>4. ASSUME NEW q \in holders
      PROVE  Stands(q)'
  <2>1. Stands(q) /\ Loaded' = Loaded
    BY <1>1 DEF Inv, Loaded
  <2> QED
    BY <1>1, <2>1 DEF Stands
<1> QED
  BY <1>1, <1>2, <1>3, <1>4 DEF Inv

\* A click changes one setting; its value is on the way to the store.
LEMMA ToggleKeepsInv ==
  ASSUME Inv, NEW p \in Processes, NEW item \in Items, Toggle(p, item)
  PROVE  Inv'
<1> DEFINE value == settings'[p][item]
           last == Render(settings[p], launch_at_login_status[p])'
<1>1. /\ Idle(p) /\ Then(p, Toggled(p, item))
      /\ settings' = [settings EXCEPT ![p][item] = ~@]
      /\ UNCHANGED <<stored, holders, in_app_bundle, service, meddled, menu_open,
                     launch_at_login_status, shown>>
  BY DEF Toggle, login_item
<1>2. /\ holders = {p} /\ work[p] = <<>> /\ settings[p] = Loaded
      /\ shown[p].settings = Loaded
  BY <1>1, IdleStands
<1>3. /\ settings' \in [Processes -> [Items -> BOOLEAN]] /\ value \in BOOLEAN
      /\ settings'[p] = [settings[p] EXCEPT ![item] = value]
      /\ launch_at_login_status' \in [Processes -> LaunchAtLoginStatus]
  BY <1>1 DEF Inv, TypeOK
<1>4. /\ Toggled(p, item) = <<Persist(item, value), last>>
      /\ Toggled(p, item) \in Seq(Effects) /\ Len(Toggled(p, item)) = 2
  BY <1>3, RefreshType
<1>5. work' = [work EXCEPT ![p] = Toggled(p, item)]
  BY <1>1, <1>2, <1>4, WorkThen DEF Inv
<1>6. /\ work' \in [Processes -> Seq(Effects)] /\ work'[p] = Toggled(p, item)
      /\ \A q \in Processes \ {p} : work'[q] = work[q]
  BY <1>4, <1>5 DEF Inv, TypeOK
<1>7. ASSUME NEW q \in Processes
      PROVE  Len(work'[q]) <= 2
  <2>1. CASE q = p
    <3>1. Len(work'[q]) = 2
      BY <1>4, <1>6, <2>1
    <3> QED
      BY <3>1
  <2>2. CASE q # p
    BY <1>6, <2>2 DEF Inv, TypeOK
  <2> QED
    BY <2>1, <2>2
<1>8. TypeOK'
  BY <1>1, <1>3, <1>6, <1>7 DEF Inv, TypeOK
<1>9. OneHolder'
  BY <1>1, <1>2, <1>6 DEF Inv, OneHolder
<1>10. KnowsService'
  BY <1>1 DEF Inv, KnowsService, StatusFor
<1>11. Stands(p)'
  <2>1. Loaded' = Loaded
    BY <1>1 DEF Loaded
  <2>2. settings'[p] = [Loaded' EXCEPT ![item] = value]
    BY <1>2, <1>3, <2>1
  <2>3. work'[p] = <<Persist(item, value), last>> /\ shown'[p].settings = Loaded'
    BY <1>1, <1>2, <1>4, <1>6, <2>1
  <2> QED
    BY <1>3, <2>2, <2>3 DEF Stands
<1> QED
  BY <1>1, <1>2, <1>8, <1>9, <1>10, <1>11 DEF Inv

\* What is loaded after a setting was stored.
LEMMA StoredIsLoaded ==
  ASSUME TypeOK, NEW item \in Items, NEW value \in BOOLEAN,
         stored' = [stored EXCEPT ![item] = {value}]
  PROVE  /\ Loaded' = [Loaded EXCEPT ![item] = value]
         /\ stored' \in [Items -> {{}, {TRUE}, {FALSE}}]
<1>1. stored' \in [Items -> {{}, {TRUE}, {FALSE}}]
  <2>1. {value} \in {{}, {TRUE}, {FALSE}}
    OBVIOUS
  <2> QED
    BY <2>1 DEF TypeOK
<1>2. stored'[item] = {value} /\ \A i \in Items \ {item} : stored'[i] = stored[i]
  BY DEF TypeOK
<1>3. Loaded'[item] = value
  <2>1. CASE value = TRUE
    BY <1>2, <2>1 DEF Loaded
  <2>2. CASE value = FALSE
    BY <1>2, <2>2 DEF Loaded
  <2> QED
    BY <2>1, <2>2
<1>4. \A i \in Items \ {item} : Loaded'[i] = Loaded[i]
  BY <1>2 DEF Loaded
<1>5. Loaded \in [Items -> BOOLEAN] /\ Loaded' = [i \in Items |-> Loaded'[i]]
  BY LoadedType DEF Loaded
<1> QED
  BY <1>1, <1>3, <1>4, <1>5

\* An effect takes the process one step further.
LEMMA PerformKeepsInv ==
  ASSUME Inv, NEW p \in Processes, Perform(p)
  PROVE  Inv'
<1> DEFINE last == Render(settings[p], launch_at_login_status[p])
<1>1. /\ work[p] # <<>> /\ work' = [work EXCEPT ![p] = Tail(@)]
      /\ UNCHANGED <<holders, in_app_bundle, service, meddled, menu_open, settings,
                     launch_at_login_status>>
  BY DEF Perform, login_item, engine
<1>2. p \in holders /\ holders = {p} /\ Stands(p)
  BY <1>1 DEF Inv, OneHolder
<1>3. /\ work' \in [Processes -> Seq(Effects)] /\ work'[p] = Tail(work[p])
      /\ \A q \in Processes \ {p} : work'[q] = work[q]
  BY <1>1, HeadTailProperties DEF Inv, TypeOK
<1>4. ASSUME NEW q \in Processes
      PROVE  Len(work'[q]) <= 2
  <2>1. CASE q = p
    <3>1. Len(work'[q]) = Len(work[p]) - 1 /\ Len(work[p]) \in Nat /\ Len(work[p]) <= 2
      BY <1>1, <1>3, <2>1, HeadTailProperties, LenProperties DEF Inv, TypeOK
    <3> QED
      BY <3>1
  <2>2. CASE q # p
    BY <1>3, <2>2 DEF Inv, TypeOK
  <2> QED
    BY <2>1, <2>2
<1>5. OneHolder'
  BY <1>1, <1>2, <1>3 DEF Inv, OneHolder
<1>6. KnowsService'
  BY <1>1 DEF Inv, KnowsService, StatusFor
<1>7. ASSUME stored' \in [Items -> {{}, {TRUE}, {FALSE}}],
             shown' \in [Processes -> [settings: [Items -> BOOLEAN],
                                       launch_at_login: LaunchAtLoginStatus]],
             Stands(p)'
      PROVE  Inv'
  <2>1. TypeOK'
    BY <1>1, <1>3, <1>4, <1>7 DEF Inv, TypeOK
  <2> QED
    BY <1>1, <1>2, <1>5, <1>6, <1>7, <2>1 DEF Inv
<1>8. CASE work[p] = <<last>> /\ settings[p] = Loaded
  <2>1. Head(work[p]) = last /\ Tail(work[p]) = <<>>
    BY <1>8, ShortSequences
  <2>2. /\ UNCHANGED stored
        /\ shown' = [shown EXCEPT ![p] = [settings |-> settings[p],
                                          launch_at_login |-> launch_at_login_status[p]]]
    <3>1. /\ Head(work[p]).effect = "Render" /\ Head(work[p]).settings = settings[p]
          /\ Head(work[p]).launch_at_login = launch_at_login_status[p]
      BY <2>1 DEF Render
    <3> QED
      BY <3>1 DEF Perform
  <2>3. Loaded' = Loaded
    BY <2>2 DEF Loaded
  <2>4. Stands(p)'
    BY <1>1, <1>3, <1>8, <2>1, <2>2, <2>3 DEF Stands, Inv, TypeOK
  <2> QED
    BY <1>7, <2>2, <2>4 DEF Inv, TypeOK
<1>9. ASSUME NEW item \in Items, NEW value \in BOOLEAN,
             work[p] = <<Persist(item, value), last>>, shown[p].settings = Loaded,
             settings[p] = [Loaded EXCEPT ![item] = value]
      PROVE  Inv'
  <2>1. Head(work[p]) = Persist(item, value) /\ Tail(work[p]) = <<last>>
    BY <1>9, ShortSequences
  <2>2. UNCHANGED shown /\ stored' = [stored EXCEPT ![item] = {value}]
    <3>1. /\ Head(work[p]).effect = "PersistSetting" /\ Head(work[p]).item = item
          /\ Head(work[p]).value = value
      BY <2>1 DEF Persist
    <3> QED
      BY <3>1 DEF Perform
  <2>3. Loaded' = [Loaded EXCEPT ![item] = value]
        /\ stored' \in [Items -> {{}, {TRUE}, {FALSE}}]
    BY <2>2, StoredIsLoaded DEF Inv
  <2>4. Stands(p)'
    BY <1>1, <1>3, <1>9, <2>1, <2>3 DEF Stands
  <2> QED
    BY <1>7, <2>2, <2>3, <2>4 DEF Inv, TypeOK
<1> QED
  BY <1>1, <1>2, <1>8, <1>9 DEF Stands

\* The process that dies leaves the lock, and nothing to do.
LEMMA EndsKeepsInv ==
  ASSUME Inv, NEW p \in Processes, Ends(p)
  PROVE  Inv'
<1>1. /\ p \in holders /\ holders' = holders \ {p}
      /\ menu_open' = [menu_open EXCEPT ![p] = FALSE]
      /\ work' = [work EXCEPT ![p] = <<>>]
      /\ shown' = [shown EXCEPT ![p] = NothingShown]
      /\ UNCHANGED <<stored, in_app_bundle, service, meddled, settings, launch_at_login_status>>
  BY DEF Ends, login_item
<1>2. holders' = {}
  BY <1>1 DEF Inv, OneHolder
<1>3. <<>> \in Seq(Effects) /\ Len(<<>>) = 0
  BY EmptySeq
<1>4. NothingShown \in [settings: [Items -> BOOLEAN], launch_at_login: LaunchAtLoginStatus]
  BY ConstantsAssumption DEF NothingShown, LaunchAtLoginStatus
<1>5. work' \in [Processes -> Seq(Effects)] /\ \A q \in Processes : Len(work'[q]) <= 2
  BY <1>1, <1>3 DEF Inv, TypeOK
<1>6. TypeOK'
  BY <1>1, <1>4, <1>5 DEF Inv, TypeOK
<1>7. OneHolder'
  BY <1>1, <1>2 DEF Inv, OneHolder, TypeOK
<1> QED
  BY <1>2, <1>6, <1>7 DEF Inv, KnowsService

\* A change made in System Settings.
LEMMA SystemSettingsKeepsInv ==
  ASSUME Inv, SystemSettings
  PROVE  Inv'
<1>1. /\ service' \in RawStatus /\ meddled' = TRUE
      /\ UNCHANGED <<stored, holders, in_app_bundle, menu_open, settings,
                     launch_at_login_status, shown, work>>
  BY DEF SystemSettings, engine
<1>2. TypeOK' /\ OneHolder' /\ KnowsService'
  BY <1>1 DEF Inv, TypeOK, OneHolder, KnowsService
<1>3. ASSUME NEW q \in holders
      PROVE  Stands(q)'
  <2>1. Stands(q) /\ Loaded' = Loaded
    BY <1>1 DEF Inv, Loaded
  <2> QED
    BY <1>1, <2>1 DEF Stands
<1> QED
  BY <1>1, <1>2, <1>3 DEF Inv

--------------------------------------------------------------------------------
(* The invariant, and what follows from it *)

\* The invariant holds at first.
LEMMA InitInv == Init => Inv
<1> SUFFICES ASSUME Init
             PROVE  Inv
  OBVIOUS
<1>1. <<>> \in Seq(Effects) /\ Len(<<>>) = 0
  BY EmptySeq
<1>2. NothingShown \in [settings: [Items -> BOOLEAN], launch_at_login: LaunchAtLoginStatus]
  BY ConstantsAssumption DEF NothingShown, LaunchAtLoginStatus
<1>3. TypeOK
  <2>1. work \in [Processes -> Seq(Effects)] /\ \A p \in Processes : Len(work[p]) <= 2
    BY <1>1 DEF Init
  <2>2. /\ shown \in [Processes -> [settings: [Items -> BOOLEAN],
                                   launch_at_login: LaunchAtLoginStatus]]
        /\ settings \in [Processes -> [Items -> BOOLEAN]]
        /\ launch_at_login_status \in [Processes -> LaunchAtLoginStatus]
    BY <1>2, ConstantsAssumption DEF Init, LaunchAtLoginStatus
  <2> QED
    BY <2>1, <2>2 DEF Init, TypeOK
<1> QED
  BY <1>3 DEF Init, Inv, OneHolder, KnowsService

\* So it always holds.
LEMMA Invariance == Spec => []Inv
<1>1. ASSUME Inv, [Next]_vars
      PROVE  Inv'
  <2>1. CASE UNCHANGED vars
    <3>1. /\ TypeOK' /\ OneHolder' /\ KnowsService' /\ UNCHANGED holders
      BY <1>1, <2>1 DEF vars, engine, login_item, Inv, TypeOK, OneHolder, KnowsService, StatusFor
    <3>2. ASSUME NEW q \in holders
          PROVE  Stands(q)'
      <4>1. Stands(q) /\ Loaded' = Loaded
        BY <1>1, <2>1 DEF Inv, Loaded, vars
      <4> QED
        BY <2>1, <4>1 DEF Stands, vars, engine
    <3> QED
      BY <3>1, <3>2 DEF Inv
  <2>2. CASE \E p \in Processes :
               \/ Launch(p) \/ Tick(p) \/ MenuWillOpen(p) \/ MenuDidClose(p)
               \/ \E item \in Items : Toggle(p, item)
               \/ ToggleLaunchAtLogin(p) \/ Perform(p) \/ Ends(p)
    BY <1>1, <2>2, LaunchKeepsInv, TickKeepsInv, MenuWillOpenKeepsInv, MenuDidCloseKeepsInv,
       ToggleKeepsInv, ToggleLaunchAtLoginKeepsInv, PerformKeepsInv, EndsKeepsInv
  <2>3. CASE SystemSettings
    BY <1>1, <2>3, SystemSettingsKeepsInv
  <2> QED
    BY <1>1, <2>1, <2>2, <2>3 DEF Next
<1> QED
  BY <1>1, InitInv, PTL DEF Spec

\* Every variable keeps its type, and no process has more than two effects to perform.
THEOREM TypeCorrect == Spec => []TypeOK
<1>1. Inv => TypeOK
  BY DEF Inv
<1> QED
  BY <1>1, Invariance, PTL

\* Nothing the user sees is lost by a death of rami at any point: the store has it, or
\* what is about to be drawn is what it has (engine.rs:395-482; lock.rs:29-50).
THEOREM SettingsSurvive == Spec => []ShownSettingsSurvive
<1>1. Inv => ShownSettingsSurvive
  <2> SUFFICES ASSUME Inv, NEW p \in holders, shown[p].settings # Loaded
               PROVE  \E i \in DOMAIN work[p] :
                        work[p][i].effect = "Render" /\ work[p][i].settings = Loaded
    BY DEF ShownSettingsSurvive
  <2> DEFINE last == Render(settings[p], launch_at_login_status[p])
  <2>1. work[p] = <<last>> /\ settings[p] = Loaded
    BY DEF Inv, Stands
  <2>2. 1 \in DOMAIN work[p] /\ work[p][1] = last
    BY <2>1
  <2> QED
    BY <2>1, <2>2 DEF Render
<1> QED
  BY <1>1, Invariance, PTL

\* The login item of an open menu is the service's, until System Settings changes it
\* (engine.rs:344-347, 477-480; app.rs:151-159).
THEOREM LoginItemIsCurrent == Spec => []LoginItemFollowsService
<1>1. Inv => LoginItemFollowsService
  <2> SUFFICES ASSUME Inv, NEW p \in holders, work[p] = <<>>, ~meddled
               PROVE  shown[p].launch_at_login = StatusFor(service)
    BY DEF LoginItemFollowsService
  <2>1. p \in Processes /\ Idle(p)
    BY DEF Inv, TypeOK, Idle
  <2> QED
    BY <2>1, IdleStands DEF Inv, KnowsService
<1> QED
  BY <1>1, Invariance, PTL

--------------------------------------------------------------------------------
(* The dropdown, which is TrayMenu's: what a menu of slots has *)

Slot == [name: {"Map", "Legend", "Pressure", "History", "Swap", "App", "AppLoading",
                "AppUnavailable", "Cpu", "Gpu", "SharedStatus", "SharedMac", "Separator",
                "Loading", "Settings", "Quit"},
         place: Nat]

\* The items of slots are those in items.
Lists(slots, items) == slots \in Seq(Slot) /\ ToSet(slots) = items

LEMMA Together ==
  ASSUME NEW s, NEW X, Lists(s, X), NEW t, NEW Y, Lists(t, Y)
  PROVE  Lists(s \o t, X \union Y)
<1>1. s \in Seq(Slot) /\ t \in Seq(Slot)
  BY DEF Lists
<1>2. s \o t \in Seq(Slot) /\ DOMAIN (s \o t) = 1 .. Len(s) + Len(t)
  BY <1>1, ConcatProperties, LenProperties
<1>3. \A i \in 1 .. Len(s) + Len(t) : (s \o t)[i] = IF i <= Len(s) THEN s[i] ELSE t[i - Len(s)]
  BY <1>1, ConcatProperties
<1>4. /\ Len(s) \in Nat /\ DOMAIN s = 1 .. Len(s)
      /\ Len(t) \in Nat /\ DOMAIN t = 1 .. Len(t)
  BY <1>1, LenProperties
<1>5. \A i \in DOMAIN (s \o t) : (s \o t)[i] \in X \union Y
  BY <1>1, <1>2, <1>3, <1>4 DEF Lists, ToSet
<1>6. ASSUME NEW x \in X \union Y
      PROVE  \E i \in DOMAIN (s \o t) : (s \o t)[i] = x
  <2>1. CASE x \in X
    <3>1. PICK i \in 1 .. Len(s) : s[i] = x
      BY <1>4, <2>1 DEF Lists, ToSet
    <3> QED
      BY <3>1, <1>2, <1>3, <1>4
  <2>2. CASE x \in Y
    <3>1. PICK i \in 1 .. Len(t) : t[i] = x
      BY <1>4, <2>2 DEF Lists, ToSet
    <3>2. Len(s) + i \in 1 .. Len(s) + Len(t) /\ ~(Len(s) + i <= Len(s)) /\ Len(s) + i - Len(s) = i
      BY <1>4
    <3> QED
      BY <3>1, <3>2, <1>2, <1>3
  <2> QED
    BY <1>6, <2>1, <2>2
<1> QED
  BY <1>2, <1>5, <1>6 DEF Lists, ToSet

LEMMA NoSlots == Lists(<<>>, {})
BY DEF Lists, ToSet

LEMMA OneSlot == ASSUME NEW a \in Slot PROVE Lists(<<a>>, {a})
<1>1. <<a>> \in Seq(Slot) /\ DOMAIN <<a>> = {1} /\ <<a>>[1] = a
  OBVIOUS
<1> QED
  BY <1>1 DEF Lists, ToSet

LEMMA TwoSlots == ASSUME NEW a \in Slot, NEW b \in Slot PROVE Lists(<<a, b>>, {a, b})
<1>1. <<a, b>> \in Seq(Slot) /\ DOMAIN <<a, b>> = {1, 2} /\ <<a, b>>[1] = a /\ <<a, b>>[2] = b
  OBVIOUS
<1> QED
  BY <1>1 DEF Lists, ToSet

LEMMA SlotTypes ==
  /\ \A name \in {"Map", "Legend", "Pressure", "History", "Swap", "AppLoading",
                  "AppUnavailable", "Cpu", "Gpu", "SharedStatus", "SharedMac", "Separator",
                  "Loading", "Settings", "Quit"} : Item(name) \in Slot
  /\ \A n \in Nat : AppRow(n) \in Slot
  /\ Separator = Item("Separator")
BY DEF Slot, Item, AppRow, Separator

LEMMA WhenLists ==
  ASSUME NEW c \in BOOLEAN, NEW s, NEW X, Lists(s, X)
  PROVE  Lists(When(c, s), IF c THEN X ELSE {})
BY NoSlots DEF When

LEMMA RowSlots ==
  ASSUME NEW rows \in Nat
  PROVE  Lists([n \in 1 .. rows |-> AppRow(n)], {AppRow(n) : n \in 1 .. rows})
<1> DEFINE slots == [n \in 1 .. rows |-> AppRow(n)]
<1>1. \A n \in 1 .. rows : AppRow(n) \in Slot
  BY SlotTypes
<1>2. slots \in Seq(Slot)
  BY <1>1
<1>3. DOMAIN slots = 1 .. rows
  OBVIOUS
<1> QED
  BY <1>2, <1>3 DEF Lists, ToSet
--------------------------------------------------------------------------------
(* The shapes, and the models they are for *)

\* A model SetMenuSnapshot can make.
LoadedModel(r, m) ==
  [state |-> "Loaded", reading |-> r, apps |-> m.apps, cpu |-> m.cpu,
   gpu |-> m.gpu, shared |-> m.shared]

Models == {NoModel} \union {LoadedModel(r, m) : r \in Readings, m \in Modules}

AppItems(s) ==
  IF s.apps = "Hidden" THEN {}
  ELSE {Separator} \union
       (IF s.apps = "Loading" THEN {Item("AppLoading")}
        ELSE IF s.apps = "Unavailable" THEN {Item("AppUnavailable")}
        ELSE {AppRow(n) : n \in 1 .. s.rows})

CpuAndGpuItems(s) ==
  (IF s.cpu \/ s.gpu THEN {Separator} ELSE {})
    \union (IF s.cpu THEN {Item("Cpu")} ELSE {})
    \union (IF s.gpu THEN {Item("Gpu")} ELSE {})

SharedMacItems(s) ==
  IF s.shared = "Hidden" THEN {}
  ELSE {Separator, Item(IF s.shared = "Status" THEN "SharedStatus" ELSE "SharedMac")}

LoadedItems(s) ==
  {Item("Map"), Item("Legend"), Item("Pressure"), Item("History")}
    \union (IF s.swap THEN {Item("Swap")} ELSE {})
    \union AppItems(s) \union CpuAndGpuItems(s) \union SharedMacItems(s)

FixedItems == {Separator, Item("Settings"), Item("Quit")}

LEMMA AppSlotsList ==
  ASSUME NEW s, s.apps \in {"Hidden", "Loading", "Unavailable", "Loaded"}, s.rows \in Nat
  PROVE  Lists(AppSlots(s), AppItems(s))
<1> DEFINE list == [n \in 1 .. s.rows |-> AppRow(n)]
           items == {AppRow(n) : n \in 1 .. s.rows}
<1>1. Lists(list, items)
  BY RowSlots
<1>2. Lists(<<Separator>>, {Separator})
  BY OneSlot, SlotTypes
<1>3. Lists(<<Separator>> \o list, {Separator} \union items)
  <2> HIDE DEF list, items
  <2> QED
    BY <1>1, <1>2, Together
<1>4. /\ Lists(<<Separator, Item("AppLoading")>>,
               {Separator, Item("AppLoading")})
      /\ Lists(<<Separator, Item("AppUnavailable")>>,
               {Separator, Item("AppUnavailable")})
  BY TwoSlots, SlotTypes
<1>5. \A x, y : {x, y} = {x} \union {y}
  OBVIOUS
<1>6. CASE s.apps = "Hidden"
  BY <1>6, NoSlots DEF AppSlots, AppItems
<1>7. CASE s.apps = "Loading"
  BY <1>4, <1>5, <1>7 DEF AppSlots, AppItems
<1>8. CASE s.apps = "Unavailable"
  BY <1>4, <1>5, <1>8 DEF AppSlots, AppItems
<1>9. CASE s.apps = "Loaded"
  BY <1>3, <1>9 DEF AppSlots, AppItems
<1> QED
  BY <1>6, <1>7, <1>8, <1>9

LEMMA CpuAndGpuSlotsList ==
  ASSUME NEW s, s.cpu \in BOOLEAN, s.gpu \in BOOLEAN
  PROVE  Lists(CpuAndGpuSlots(s), CpuAndGpuItems(s))
<1>1. /\ Lists(<<Separator>>, {Separator})
      /\ Lists(<<Item("Cpu")>>, {Item("Cpu")})
      /\ Lists(<<Item("Gpu")>>, {Item("Gpu")})
  BY OneSlot, SlotTypes
<1> DEFINE either == When(s.cpu \/ s.gpu, <<Separator>>)
           cpu == When(s.cpu, <<Item("Cpu")>>)
           gpu == When(s.gpu, <<Item("Gpu")>>)
           E == IF s.cpu \/ s.gpu THEN {Separator} ELSE {}
           C == IF s.cpu THEN {Item("Cpu")} ELSE {}
           G == IF s.gpu THEN {Item("Gpu")} ELSE {}
<1>2. Lists(either, E)
  <2> DEFINE c == s.cpu \/ s.gpu
  <2>1. c \in BOOLEAN
    OBVIOUS
  <2> HIDE DEF c
  <2>2. Lists(When(c, <<Separator>>), IF c THEN {Separator} ELSE {})
    BY <1>1, <2>1, WhenLists
  <2> QED
    BY <2>2 DEF c
<1>3. Lists(cpu, C)
  BY <1>1, WhenLists
<1>4. Lists(gpu, G)
  BY <1>1, WhenLists
<1>5. Lists(either \o cpu \o gpu, E \union C \union G)
  <2> HIDE DEF either, cpu, gpu, E, C, G
  <2>1. Lists(either \o cpu, E \union C)
    BY <1>2, <1>3, Together
  <2> QED
    BY <1>4, <2>1, Together
<1> QED
  BY <1>5 DEF CpuAndGpuSlots, CpuAndGpuItems

LEMMA SharedSlotsList ==
  ASSUME NEW s, s.shared \in {"Hidden", "Status", "Reading"}
  PROVE  Lists(SharedSlots(s), SharedMacItems(s))
BY NoSlots, TwoSlots, SlotTypes DEF SharedSlots, SharedMacItems

LEMMA FixedSlotsList ==
  Lists(<<Separator, Item("Settings"), Separator, Item("Quit")>>, FixedItems)
<1> DEFINE a == Separator
           b == Item("Settings")
           c == Item("Quit")
<1>1. a \in Slot /\ b \in Slot /\ c \in Slot
  BY SlotTypes
<1> HIDE DEF a, b, c
<1>2. /\ <<a, b, a, c>> \in Seq(Slot) /\ DOMAIN <<a, b, a, c>> = {1, 2, 3, 4}
      /\ <<a, b, a, c>>[1] = a /\ <<a, b, a, c>>[2] = b /\ <<a, b, a, c>>[3] = a
      /\ <<a, b, a, c>>[4] = c
  BY <1>1
<1>3. Lists(<<a, b, a, c>>, {a, b, c})
  BY <1>2 DEF Lists, ToSet
<1> QED
  BY <1>3 DEF a, b, c, FixedItems

Shapes == [state: {"Loaded"}, apps: {"Hidden", "Loading", "Unavailable", "Loaded"},
           rows: Nat, swap: BOOLEAN, cpu: BOOLEAN, gpu: BOOLEAN,
           shared: {"Hidden", "Status", "Reading"}]

\* What the menu has, by the shape it is built for.
LEMMA SlotsList ==
  ASSUME NEW s \in Shapes
  PROVE  Lists(MenuSlots(s), LoadedItems(s) \union FixedItems)
<1>1. s # NoModel
  BY DEF Shapes, NoModel
<1> DEFINE first == <<Item("Map"), Item("Legend"), Item("Pressure")>>
           F == {Item("Map"), Item("Legend"), Item("Pressure")}
           swap == When(s.swap, <<Item("Swap")>>)
           S == IF s.swap THEN {Item("Swap")} ELSE {}
           history == <<Item("History")>>
           H == {Item("History")}
           apps == AppSlots(s)
           cpuAndGpu == CpuAndGpuSlots(s)
           shared == SharedSlots(s)
           fixed == <<Separator, Item("Settings"), Separator, Item("Quit")>>
<1>2. Lists(first, F)
  <2> DEFINE a == Item("Map")
             b == Item("Legend")
             c == Item("Pressure")
  <2>1. a \in Slot /\ b \in Slot /\ c \in Slot
    BY SlotTypes
  <2> HIDE DEF a, b, c
  <2>2. /\ <<a, b, c>> \in Seq(Slot) /\ DOMAIN <<a, b, c>> = {1, 2, 3}
        /\ <<a, b, c>>[1] = a /\ <<a, b, c>>[2] = b /\ <<a, b, c>>[3] = c
    BY <2>1
  <2>3. Lists(<<a, b, c>>, {a, b, c})
    BY <2>2 DEF Lists, ToSet
  <2> QED
    BY <2>3 DEF a, b, c
<1>3. Lists(swap, S)
  BY OneSlot, SlotTypes, WhenLists DEF Shapes
<1>4. Lists(history, H)
  BY OneSlot, SlotTypes
<1>5. Lists(apps, AppItems(s)) /\ Lists(cpuAndGpu, CpuAndGpuItems(s))
        /\ Lists(shared, SharedMacItems(s))
  BY AppSlotsList, CpuAndGpuSlotsList, SharedSlotsList DEF Shapes
<1>6. Lists(fixed, FixedItems)
  BY FixedSlotsList
<1>7. MenuSlots(s) = first \o swap \o history \o apps \o cpuAndGpu \o shared \o fixed
  BY <1>1 DEF MenuSlots
<1>8. LoadedItems(s) = F \union S \union H \union AppItems(s) \union CpuAndGpuItems(s)
                         \union SharedMacItems(s)
  BY DEF LoadedItems
<1> HIDE DEF first, F, swap, S, history, H, apps, cpuAndGpu, shared, fixed
<1>9. Lists(first \o swap, F \union S)
  BY <1>2, <1>3, Together
<1>10. Lists(first \o swap \o history, F \union S \union H)
  BY <1>4, <1>9, Together
<1>11. Lists(first \o swap \o history \o apps, F \union S \union H \union AppItems(s))
  BY <1>5, <1>10, Together
<1>12. Lists(first \o swap \o history \o apps \o cpuAndGpu,
             F \union S \union H \union AppItems(s) \union CpuAndGpuItems(s))
  BY <1>5, <1>11, Together
<1>13. Lists(first \o swap \o history \o apps \o cpuAndGpu \o shared, LoadedItems(s))
  BY <1>5, <1>8, <1>12, Together
<1> QED
  BY <1>6, <1>7, <1>13, Together

LEMMA LoadingSlotsList ==
  /\ Lists(MenuSlots(NoModel), {Item("Loading")} \union FixedItems)
  /\ MenuSlots(NoModel)[1] = Item("Loading")
<1> DEFINE one == <<Item("Loading")>>
           fixed == <<Separator, Item("Settings"), Separator, Item("Quit")>>
<1>1. Lists(one, {Item("Loading")}) /\ one \in Seq(Slot) /\ Len(one) = 1
        /\ one[1] = Item("Loading")
  BY OneSlot, SlotTypes
<1>2. Lists(fixed, FixedItems)
  BY FixedSlotsList
<1>3. MenuSlots(NoModel) = one \o fixed
  BY DEF MenuSlots
<1> HIDE DEF one, fixed
<1>4. Lists(one \o fixed, {Item("Loading")} \union FixedItems)
  BY <1>1, <1>2, Together
<1>5. fixed \in Seq(Slot) /\ Len(fixed) \in Nat
  BY <1>2 DEF Lists
<1>6. \A i \in 1 .. Len(one) + Len(fixed) :
        (one \o fixed)[i] = IF i <= Len(one) THEN one[i] ELSE fixed[i - Len(one)]
  BY <1>1, <1>5, ConcatProperties
<1>7. (one \o fixed)[1] = Item("Loading")
  BY <1>1, <1>5, <1>6
<1> QED
  BY <1>3, <1>4, <1>7

--------------------------------------------------------------------------------
(* What a model has content for *)

LEMMA Sections ==
  ASSUME NEW m \in Modules
  PROVE  /\ m.apps.state \in {"Hidden", "Loading", "Unavailable", "Loaded"}
         /\ Len(m.apps.rows) \in Nat
         /\ m.apps.state # "Loaded" => Len(m.apps.rows) = 0
         /\ m.shared \in {"Hidden", "Loading", "Offline", "Reading"}
<1>1. m.apps \in AppSections /\ m.shared \in {"Hidden", "Loading", "Offline", "Reading"}
  BY TrayAssumption DEF SharedSections
<1>2. CASE m.apps \in [state: {"Hidden", "Loading", "Unavailable"}, rows: {<<>>}]
  BY <1>1, <1>2
<1>3. CASE m.apps \in [state: {"Loaded"}, rows: Seq(Figures)]
  BY <1>1, <1>3, LenProperties
<1> QED
  BY <1>1, <1>2, <1>3 DEF AppSections

LEMMA ShapeOfLoaded ==
  ASSUME NEW r \in Readings, NEW m \in Modules
  PROVE  LET s == MenuShapeFor(LoadedModel(r, m))
         IN  /\ s \in Shapes
             /\ s.apps = m.apps.state
             /\ s.rows \in Nat
             /\ s.rows <= APP_ROW_POOL /\ s.rows <= Len(m.apps.rows)
             /\ s.rows = APP_ROW_POOL \/ s.rows = Len(m.apps.rows)
             /\ s.swap = SwapUsed[r]
             /\ s.cpu = (m.cpu # NoFigure) /\ s.gpu = (m.gpu # NoFigure)
             /\ s.shared = IF m.shared \in {"Loading", "Offline"} THEN "Status" ELSE m.shared
<1> DEFINE n == IF Len(m.apps.rows) < APP_ROW_POOL THEN Len(m.apps.rows) ELSE APP_ROW_POOL
           loaded == LoadedModel(r, m)
           shared == IF m.shared \in {"Loading", "Offline"} THEN "Status" ELSE m.shared
           s == [state |-> "Loaded", apps |-> m.apps.state, rows |-> n, swap |-> SwapUsed[r],
                 cpu |-> m.cpu # NoFigure, gpu |-> m.gpu # NoFigure,
                 shared |-> shared]
<1>1. loaded # NoModel
  BY DEF LoadedModel, NoModel
<1>2. MenuShapeFor(loaded) = s
  BY <1>1 DEF MenuShapeFor, ShapeWithRows, Rows, LoadedModel
<1>3. APP_ROW_POOL \in Nat /\ Len(m.apps.rows) \in Nat /\ SwapUsed[r] \in BOOLEAN
  BY Sections, TrayAssumption
<1>4. /\ n \in Nat /\ n <= APP_ROW_POOL /\ n <= Len(m.apps.rows)
      /\ n = APP_ROW_POOL \/ n = Len(m.apps.rows)
  BY <1>3
<1>5. shared \in {"Hidden", "Status", "Reading"}
        /\ m.apps.state \in {"Hidden", "Loading", "Unavailable", "Loaded"}
  BY Sections
<1> HIDE DEF n, shared
<1>6. s \in Shapes
  BY <1>3, <1>4, <1>5 DEF Shapes
<1> QED
  BY <1>2, <1>4, <1>6 DEF shared

\* The items of DataItems, by what they are for.
LEMMA DataItemCases ==
  ASSUME NEW item \in DataItems
  PROVE  \/ item \in MemoryItems
         \/ \E n \in 1 .. APP_ROW_POOL : item = AppRow(n)
         \/ item \in {Item("Swap"), Item("Cpu"), Item("Gpu"),
                      Item("SharedStatus"), Item("SharedMac")}
BY DEF DataItems, AppRows, SharedItems

LEMMA ItemNames ==
  /\ \A a, b : Item(a) = Item(b) => a = b
  /\ \A a, b : AppRow(a) = AppRow(b) => a = b
  /\ \A a, n : Item(a) = AppRow(n) => a = "App"
BY DEF Item, AppRow

LEMMA FixedHaveNoContent ==
  ASSUME NEW item \in DataItems
  PROVE  item \notin {Item("Loading"), Item("AppLoading"), Item("AppUnavailable")}
           \union FixedItems
BY DataItemCases DEF FixedItems, MemoryItems, Item, AppRow, Separator

LEMMA ItemHasContent ==
  ASSUME NEW m \in Models, NEW item \in DataItems
  PROVE  item \in ToSet(MenuSlots(MenuShapeFor(m)))
           <=> Content(m, item) # NotDrawn
<1>1. CASE m = NoModel
  <2>1. Content(m, item) = NotDrawn
    BY <1>1 DEF Content
  <2>2. MenuShapeFor(m) = NoModel
    BY <1>1 DEF MenuShapeFor, ShapeWithRows
  <2>3. ToSet(MenuSlots(MenuShapeFor(m))) = {Item("Loading")} \union FixedItems
    BY <2>2, LoadingSlotsList DEF Lists
  <2> QED
    BY <2>1, <2>3, FixedHaveNoContent
<1>2. CASE m # NoModel
  <2>1. PICK r \in Readings, beside \in Modules : m = LoadedModel(r, beside)
    BY <1>2 DEF Models
  <2> DEFINE s == MenuShapeFor(m)
  <2>2. /\ s \in Shapes
        /\ s.apps = beside.apps.state
        /\ s.rows \in Nat
        /\ s.rows <= APP_ROW_POOL /\ s.rows <= Len(beside.apps.rows)
        /\ s.rows = APP_ROW_POOL \/ s.rows = Len(beside.apps.rows)
        /\ s.swap = SwapUsed[r]
        /\ s.cpu = (beside.cpu # NoFigure) /\ s.gpu = (beside.gpu # NoFigure)
        /\ s.shared = IF beside.shared \in {"Loading", "Offline"} THEN "Status"
                      ELSE beside.shared
    BY <2>1, ShapeOfLoaded
  <2>3. /\ m.reading = r /\ m.apps = beside.apps /\ m.cpu = beside.cpu /\ m.gpu = beside.gpu
        /\ m.shared = beside.shared
    BY <2>1 DEF LoadedModel
  <2>4. Pressure[r] # "Neutral" /\ SwapUsed[r] \in BOOLEAN /\ APP_ROW_POOL \in Nat
    BY TrayAssumption DEF Pressures
  <2>5. /\ beside.apps.state \in {"Hidden", "Loading", "Unavailable", "Loaded"}
        /\ Len(beside.apps.rows) \in Nat
        /\ beside.apps.state # "Loaded" => Len(beside.apps.rows) = 0
        /\ beside.shared \in {"Hidden", "Loading", "Offline", "Reading"}
    BY Sections
  <2>6. \A figure : [figure |-> figure, accent |-> Pressure[r]] # NotDrawn
    BY <2>4 DEF NotDrawn
  <2> HIDE DEF s
  <2>7. item \in ToSet(MenuSlots(s)) <=> item \in LoadedItems(s)
    BY <2>2, SlotsList, FixedHaveNoContent DEF Lists
  <2>8. item \notin {Separator, Item("AppLoading"), Item("AppUnavailable")}
    BY FixedHaveNoContent DEF FixedItems
  <2>9. CASE item \in MemoryItems
    <3>1. Content(m, item) = [figure |-> r, accent |-> Pressure[r]]
      BY <1>2, <2>3, <2>9 DEF Content, MemoryItems, AppRows, Item, AppRow
    <3>2. item \in LoadedItems(s)
      BY <2>9 DEF LoadedItems, MemoryItems
    <3> QED
      BY <2>6, <2>7, <3>1, <3>2 DEF s
  <2>10. CASE \E n \in 1 .. APP_ROW_POOL : item = AppRow(n)
    <3>1. PICK n \in 1 .. APP_ROW_POOL : item = AppRow(n)
      BY <2>10
    <3>2. Content(m, item) = IF n <= Len(beside.apps.rows)
            THEN [figure |-> beside.apps.rows[n], accent |-> Pressure[r]] ELSE NotDrawn
      BY <1>2, <2>3, <3>1 DEF Content, MemoryItems, AppRows, Item, AppRow
    <3>3. item \in LoadedItems(s) <=> item \in AppItems(s)
      BY <3>1, <2>8, ItemNames DEF LoadedItems, CpuAndGpuItems, SharedMacItems
    <3>4. item \in AppItems(s) <=> s.apps = "Loaded" /\ n <= s.rows
      <4>1. \A k : item = AppRow(k) <=> k = n
        BY <3>1, ItemNames
      <4> QED
        BY <2>2, <2>4, <2>5, <2>8, <4>1 DEF AppItems
    <3>5. n <= Len(beside.apps.rows) <=> s.apps = "Loaded" /\ n <= s.rows
      BY <2>2, <2>4, <2>5
    <3> QED
      BY <2>6, <2>7, <3>2, <3>3, <3>4, <3>5 DEF s
  <2>11. CASE item = Item("Swap")
    <3>1. Content(m, item) = IF SwapUsed[r] THEN [figure |-> r, accent |-> Pressure[r]]
                                  ELSE NotDrawn
      BY <1>2, <2>3, <2>11 DEF Content, MemoryItems, AppRows, Item, AppRow
    <3>2. item \in LoadedItems(s) <=> s.swap
      BY <2>8, <2>11, ItemNames DEF LoadedItems, AppItems, CpuAndGpuItems, SharedMacItems
    <3> QED
      BY <2>2, <2>6, <2>7, <3>1, <3>2 DEF s
  <2>12. CASE item = Item("Cpu")
    <3>1. Content(m, item) = IF beside.cpu = NoFigure THEN NotDrawn
                                  ELSE [figure |-> beside.cpu, accent |-> Pressure[r]]
      BY <1>2, <2>3, <2>12 DEF Content, MemoryItems, AppRows, Item, AppRow
    <3>2. item \in LoadedItems(s) <=> s.cpu
      BY <2>8, <2>12, ItemNames DEF LoadedItems, AppItems, CpuAndGpuItems, SharedMacItems
    <3> QED
      BY <2>2, <2>6, <2>7, <3>1, <3>2 DEF s
  <2>13. CASE item = Item("Gpu")
    <3>1. Content(m, item) = IF beside.gpu = NoFigure THEN NotDrawn
                                  ELSE [figure |-> beside.gpu, accent |-> Pressure[r]]
      BY <1>2, <2>3, <2>13 DEF Content, MemoryItems, AppRows, Item, AppRow
    <3>2. item \in LoadedItems(s) <=> s.gpu
      BY <2>8, <2>13, ItemNames DEF LoadedItems, AppItems, CpuAndGpuItems, SharedMacItems
    <3> QED
      BY <2>2, <2>6, <2>7, <3>1, <3>2 DEF s
  <2>14. CASE item = Item("SharedStatus")
    <3>1. Content(m, item) = IF beside.shared \in {"Loading", "Offline"}
            THEN [figure |-> beside.shared, accent |-> "Neutral"] ELSE NotDrawn
      BY <1>2, <2>3, <2>14 DEF Content, MemoryItems, AppRows, Item, AppRow
    <3>2. item \in LoadedItems(s) <=> s.shared = "Status"
      BY <2>2, <2>8, <2>14, ItemNames
      DEF Shapes, LoadedItems, AppItems, CpuAndGpuItems, SharedMacItems
    <3>3. Content(m, item) # NotDrawn <=> beside.shared \in {"Loading", "Offline"}
      BY <3>1 DEF NotDrawn
    <3> QED
      BY <2>2, <2>5, <2>7, <3>2, <3>3 DEF s
  <2>15. CASE item = Item("SharedMac")
    <3>1. Content(m, item) = IF beside.shared = "Reading"
            THEN [figure |-> "Reading", accent |-> "Neutral"] ELSE NotDrawn
      BY <1>2, <2>3, <2>15 DEF Content, MemoryItems, AppRows, Item, AppRow
    <3>2. item \in LoadedItems(s) <=> s.shared = "Reading"
      BY <2>2, <2>8, <2>15, ItemNames
      DEF Shapes, LoadedItems, AppItems, CpuAndGpuItems, SharedMacItems
    <3>3. Content(m, item) # NotDrawn <=> beside.shared = "Reading"
      BY <3>1 DEF NotDrawn
    <3> QED
      BY <2>2, <2>5, <2>7, <3>2, <3>3 DEF s
  <2> QED
    BY <2>9, <2>10, <2>11, <2>12, <2>13, <2>14, <2>15, DataItemCases
<1> QED
  BY <1>1, <1>2

--------------------------------------------------------------------------------
(* What the status item and the dropdown keep *)

\* What was drawn: the menu's shape, its items and the views of what it shows are those
\* of the last model, open or not.
DrawnIsModel ==
  /\ model \in Models
  /\ shape = MenuShapeFor(model)
  /\ menu = MenuSlots(shape)
  /\ \A item \in DataItems :
       Content(model, item) # NotDrawn => view[item] = Content(model, item)

\* What one reading is in three places.
OneReading ==
  dropdown_open =>
    IF model = NoModel
    THEN /\ last_snapshot = NoReading
         /\ last_tooltip = NoReading
         /\ last_gauge.percent = 0
    ELSE /\ last_snapshot = model.reading
         /\ last_tooltip = model.reading
         /\ last_gauge.percent = UsedPercent[model.reading]
         /\ last_gauge.pressure = Pressure[model.reading]

TrayInv == dropdown_open \in BOOLEAN /\ DrawnIsModel /\ OneReading

LEMMA TrayStarts == TrayInit => TrayInv
<1> SUFFICES ASSUME TrayInit
             PROVE  TrayInv
  OBVIOUS
<1>1. /\ ~dropdown_open /\ model = NoModel /\ dropdown_open \in BOOLEAN
      /\ shape = MenuShapeFor(model) /\ menu = MenuSlots(shape)
  BY DEF TrayInit
<1>2. \A item \in DataItems : Content(model, item) = NotDrawn
  BY <1>1 DEF Content
<1> QED
  BY <1>1, <1>2 DEF TrayInv, DrawnIsModel, OneReading, Models

\* Whatever was drawn before, the menu and the views are the new model's.
LEMMA ApplyDraws ==
  ASSUME DrawnIsModel, NEW m \in Models, ApplyModel(m)
  PROVE  DrawnIsModel' /\ model' = m
<1>1. shape' = MenuShapeFor(m) /\ model' = m
  BY DEF ApplyModel
<1>2. menu' = MenuSlots(MenuShapeFor(m))
  <2>1. CASE shape = MenuShapeFor(m)
    BY <2>1 DEF ApplyModel, DrawnIsModel
  <2>2. CASE shape # MenuShapeFor(m)
    BY <2>2 DEF ApplyModel
  <2> QED
    BY <2>1, <2>2
<1>3. ASSUME NEW item \in DataItems, Content(m, item) # NotDrawn
      PROVE  view'[item] = Content(m, item)
  BY <1>3 DEF ApplyModel, Updated
<1> QED
  BY <1>1, <1>2, <1>3 DEF DrawnIsModel

LEMMA SnapshotIsShown ==
  ASSUME DrawnIsModel, NEW r \in Readings, SetMenuSnapshot(r)
  PROVE  DrawnIsModel' /\ model' # NoModel /\ model'.reading = r
<1>1. PICK m \in Modules : ApplyModel(LoadedModel(r, m))
  BY DEF SetMenuSnapshot, LoadedModel
<1>2. LoadedModel(r, m) \in Models
  BY DEF Models
<1>3. DrawnIsModel' /\ model' = LoadedModel(r, m)
  BY <1>1, <1>2, ApplyDraws
<1> QED
  BY <1>3 DEF LoadedModel, NoModel

LEMMA RefreshKeepsInv ==
  ASSUME TrayInv, dropdown_open' \in BOOLEAN,
         dropdown_open => dropdown_open', TrayRefresh
  PROVE  TrayInv'
<1>1. ASSUME NEW reading \in Readings, NEW trend \in Trends,
             last_snapshot' = reading, SetGaugeSnapshot(reading, trend),
             IF dropdown_open' THEN SetMenuSnapshot(reading) ELSE UNCHANGED dropdown
      PROVE  TrayInv'
  <2>1. /\ last_tooltip' = reading
        /\ last_gauge'.percent = UsedPercent[reading]
        /\ last_gauge'.pressure = Pressure[reading]
    BY <1>1 DEF SetGaugeSnapshot, SetGauge, MadeAnew
  <2>2. CASE dropdown_open'
    <3>1. DrawnIsModel' /\ model' # NoModel /\ model'.reading = reading
      BY <1>1, <2>2, SnapshotIsShown DEF TrayInv
    <3> QED
      BY <1>1, <2>1, <3>1 DEF TrayInv, OneReading
  <2>3. CASE ~dropdown_open'
    <3>1. UNCHANGED <<model, menu, shape, view>> /\ ~dropdown_open
      BY <1>1, <2>3 DEF dropdown, TrayInv
    <3> QED
      BY <2>3, <3>1 DEF TrayInv, DrawnIsModel, OneReading
  <2> QED
    BY <2>2, <2>3
<1>2. ASSUME last_snapshot' = NoReading, SetPlaceholder
      PROVE  TrayInv'
  <2>1. last_tooltip' = NoReading /\ last_gauge'.percent = 0
    BY <1>2 DEF SetPlaceholder, SetGauge, MadeAnew
  <2>2. DrawnIsModel' /\ model' = NoModel
    BY <1>2, ApplyDraws DEF TrayInv, SetPlaceholder, Models
  <2> QED
    BY <1>2, <2>1, <2>2 DEF TrayInv, OneReading
<1> QED
  BY <1>1, <1>2 DEF TrayRefresh

LEMMA TrayNextKeepsInv ==
  ASSUME TrayInv, [TrayNext]_trayVars
  PROVE  TrayInv'
<1>1. CASE TrayTick
  BY <1>1, RefreshKeepsInv DEF TrayTick, TrayInv
<1>2. CASE TrayMenuWillOpen
  BY <1>2, RefreshKeepsInv DEF TrayMenuWillOpen, TrayInv
<1>3. CASE DrainTimerFires
  <2>1. model # NoModel /\ last_snapshot = model.reading
    BY <1>3 DEF DrainTimerFires, TrayInv, OneReading
  <2>2. last_snapshot \in Readings
    BY <2>1 DEF TrayInv, DrawnIsModel, Models, LoadedModel
  <2>3. DrawnIsModel' /\ model' # NoModel /\ model'.reading = last_snapshot
    BY <1>3, <2>2, SnapshotIsShown DEF DrainTimerFires, TrayInv
  <2>4. UNCHANGED <<dropdown_open, last_snapshot, last_gauge, last_tooltip>>
    BY <1>3 DEF DrainTimerFires, trayEngine, icon
  <2> QED
    BY <1>3, <2>1, <2>3, <2>4 DEF DrainTimerFires, TrayInv, OneReading
<1>4. CASE TrayMenuDidClose
  <2>1. ~dropdown_open' /\ UNCHANGED <<model, menu, shape, view>> /\ dropdown_open' \in BOOLEAN
    BY <1>4 DEF TrayMenuDidClose, dropdown
  <2> QED
    BY <2>1 DEF TrayInv, DrawnIsModel, OneReading
<1>5. CASE UNCHANGED trayVars
  BY <1>5 DEF trayVars, trayEngine, icon, dropdown, TrayInv, DrawnIsModel, OneReading
<1> QED
  BY <1>1, <1>2, <1>3, <1>4, <1>5 DEF TrayNext

LEMMA TrayInvariance == TraySpec => []TrayInv
<1>1. TrayInv /\ [TrayNext]_trayVars => TrayInv'
  BY TrayNextKeepsInv
<1> QED
  BY TrayStarts, <1>1, PTL DEF TraySpec

LEMMA OpenIsBuilt ==
  ASSUME TrayInv, dropdown_open
  PROVE  /\ model \in Models
         /\ menu = MenuSlots(MenuShapeFor(model))
         /\ \A item \in DataItems :
              Content(model, item) # NotDrawn => view[item] = Content(model, item)
BY DEF TrayInv, DrawnIsModel

\* The open dropdown has an item for whatever the last model has content for and for
\* nothing else, each drawing that content, for any number of app rows and any
\* pool: what a view or the cached shape kept from an earlier model is never seen
\* (tray/mod.rs:198-267; tray/layout.rs:60-80).
THEOREM MenuShowsLastModel == TraySpec => []DropdownShowsModel
<1>1. TrayInv => DropdownShowsModel
  <2> SUFFICES ASSUME TrayInv, dropdown_open, NEW item \in DataItems
               PROVE  /\ item \in InMenu <=> Content(model, item) # NotDrawn
                      /\ item \in InMenu => view[item] = Content(model, item)
    BY DEF DropdownShowsModel
  <2>1. InMenu = ToSet(MenuSlots(MenuShapeFor(model)))
    BY OpenIsBuilt DEF InMenu
  <2> QED
    BY <2>1, OpenIsBuilt, ItemHasContent
<1> QED
  BY TrayInvariance, <1>1, PTL

\* The icon, the tooltip and the rows of an open dropdown are of one reading, for
\* any readings and any order of ticks, toggles, opens, closes and drains
\* (engine.rs:484-528, 560-585; tray/mod.rs:84-105, 154-196).
THEOREM OneReadingEverywhere == TraySpec => []IconMatchesDropdown
<1>1. TrayInv => IconMatchesDropdown
  <2> SUFFICES ASSUME TrayInv, dropdown_open
               PROVE  IconMatchesDropdown
    BY DEF IconMatchesDropdown
  <2>1. CASE model = NoModel
    <3>1. menu = MenuSlots(NoModel)
      BY <2>1, OpenIsBuilt DEF MenuShapeFor, ShapeWithRows
    <3> QED
      BY <2>1, <3>1, LoadingSlotsList DEF TrayInv, OneReading, IconMatchesDropdown
  <2>2. CASE model # NoModel
    <3>1. /\ last_tooltip = model.reading
          /\ last_gauge.percent = UsedPercent[model.reading]
          /\ last_gauge.pressure = Pressure[model.reading]
      BY <2>2 DEF TrayInv, OneReading
    <3>2. model.reading \in Readings
      BY <2>2, OpenIsBuilt DEF Models, LoadedModel
    <3>3. Pressure[model.reading] # "Neutral"
      BY <3>2, TrayAssumption DEF Pressures
    <3>4. ASSUME NEW item \in MemoryItems
          PROVE  view[item].accent = Pressure[model.reading]
      <4>1. Content(model, item) = [figure |-> model.reading, accent |-> Pressure[model.reading]]
        BY <2>2, <3>4 DEF Content, MemoryItems, AppRows, Item, AppRow
      <4>2. item \in DataItems
        BY DEF DataItems
      <4>3. Content(model, item) # NotDrawn
        BY <3>3, <4>1 DEF NotDrawn
      <4>4. view[item] = Content(model, item)
        BY <4>2, <4>3, OpenIsBuilt
      <4> QED
        BY <4>1, <4>4
    <3> QED
      BY <2>2, <3>1, <3>4 DEF IconMatchesDropdown
  <2> QED
    BY <2>1, <2>2
<1> QED
  BY TrayInvariance, <1>1, PTL

--------------------------------------------------------------------------------
(* Types *)

LEMMA MenuTypes ==
  ASSUME NEW m \in Models
  PROVE  ToSet(MenuSlots(MenuShapeFor(m))) \subseteq DataItems \union
           {Item(name) : name \in {"Loading", "AppLoading", "AppUnavailable", "Separator",
                                        "Settings", "Quit"}}
<1> DEFINE others == {Item(name) : name \in {"Loading", "AppLoading", "AppUnavailable",
                                                  "Separator", "Settings", "Quit"}}
<1>1. FixedItems \subseteq others /\ Item("Loading") \in others
        /\ {Item("AppLoading"), Item("AppUnavailable"), Separator} \subseteq others
  BY DEF FixedItems, Separator
<1> HIDE DEF others
<1>2. CASE m = NoModel
  <2>1. MenuShapeFor(m) = NoModel
    BY <1>2 DEF MenuShapeFor, ShapeWithRows
  <2> QED
    BY <1>1, <2>1, LoadingSlotsList DEF Lists, others
<1>3. CASE m # NoModel
  <2>1. PICK r \in Readings, beside \in Modules : m = LoadedModel(r, beside)
    BY <1>3 DEF Models
  <2> DEFINE s == MenuShapeFor(m)
  <2>2. s \in Shapes /\ s.rows \in Nat /\ s.rows <= APP_ROW_POOL
    BY <2>1, ShapeOfLoaded
  <2>3. APP_ROW_POOL \in Nat
    BY TrayAssumption
  <2> HIDE DEF s
  <2>4. AppItems(s) \subseteq DataItems \union others
    BY <1>1, <2>2, <2>3 DEF AppItems, DataItems, AppRows
  <2>5. CpuAndGpuItems(s) \subseteq DataItems \union others
    BY <1>1 DEF CpuAndGpuItems, DataItems
  <2>6. SharedMacItems(s) \subseteq DataItems \union others
    BY <1>1 DEF SharedMacItems, DataItems, SharedItems
  <2>7. LoadedItems(s) \subseteq DataItems \union others
    BY <2>4, <2>5, <2>6 DEF LoadedItems, DataItems, MemoryItems
  <2> QED
    BY <1>1, <2>2, <2>7, SlotsList DEF Lists, s, others
<1> QED
  BY <1>2, <1>3

LEMMA ContentAccent ==
  ASSUME NEW m \in Models, NEW item \in DataItems
  PROVE  Content(m, item).accent \in Pressures \union {"Neutral"}
<1>1. CASE m = NoModel
  BY <1>1 DEF Content, NotDrawn
<1>2. CASE m # NoModel
  <2>1. m.reading \in Readings
    BY <1>2 DEF Models, LoadedModel
  <2>2. Pressure[m.reading] \in Pressures
    BY <2>1, TrayAssumption
  <2> QED
    BY <1>2, <2>2, DataItemCases
    DEF Content, NotDrawn, AppRows, MemoryItems, Item, AppRow
<1> QED
  BY <1>1, <1>2

\* What the menu has is in OpenIsBuilt; the rest of the types.
TrayTypes ==
  /\ last_snapshot \in Readings \union {NoReading}
  /\ \A item \in DataItems : view[item].accent \in Pressures \union {"Neutral"}
  /\ last_gauge \in [percent: 0 .. 100, trend: Trends, pressure: Pressures]
  /\ last_tooltip \in Readings \union {NoReading}

LEMMA ApplyTypes ==
  ASSUME TrayTypes, NEW m \in Models, ApplyModel(m), NEW item \in DataItems
  PROVE  view'[item].accent \in Pressures \union {"Neutral"}
<1>1. view'[item] = IF Content(m, item) = NotDrawn THEN view[item]
                    ELSE Content(m, item)
  BY DEF ApplyModel, Updated
<1> QED
  BY <1>1, ContentAccent DEF TrayTypes

LEMMA GaugeTypes ==
  ASSUME NEW percent \in 0 .. 100, NEW trend \in Trends,
         NEW pressure \in Pressures, SetGauge(percent, trend, pressure)
  PROVE  last_gauge' \in [percent: 0 .. 100, trend: Trends, pressure: Pressures]
BY DEF SetGauge, MadeAnew

LEMMA RefreshTypes ==
  ASSUME TrayTypes, TrayRefresh
  PROVE  TrayTypes'
<1>1. ASSUME NEW reading \in Readings, NEW trend \in Trends,
             last_snapshot' = reading, SetGaugeSnapshot(reading, trend),
             IF dropdown_open' THEN SetMenuSnapshot(reading) ELSE UNCHANGED dropdown
      PROVE  TrayTypes'
  <2>1. last_gauge' \in [percent: 0 .. 100, trend: Trends, pressure: Pressures]
          /\ last_tooltip' = reading
    <3>1. UsedPercent[reading] \in 0 .. 100 /\ Pressure[reading] \in Pressures
      BY TrayAssumption
    <3> QED
      BY <1>1, <3>1, GaugeTypes DEF SetGaugeSnapshot
  <2>2. CASE dropdown_open'
    <3>1. PICK m \in Modules : ApplyModel(LoadedModel(reading, m))
      BY <1>1, <2>2 DEF SetMenuSnapshot, LoadedModel
    <3>2. LoadedModel(reading, m) \in Models
      BY DEF Models
    <3> QED
      BY <1>1, <2>1, <3>1, <3>2, ApplyTypes DEF TrayTypes
  <2>3. CASE ~dropdown_open'
    <3>1. UNCHANGED <<model, menu, shape, view>>
      BY <1>1, <2>3 DEF dropdown
    <3> QED
      BY <1>1, <2>1, <3>1 DEF TrayTypes
  <2> QED
    BY <2>2, <2>3
<1>2. ASSUME last_snapshot' = NoReading, SetPlaceholder
      PROVE  TrayTypes'
  <2>1. last_gauge' \in [percent: 0 .. 100, trend: Trends, pressure: Pressures]
          /\ last_tooltip' = NoReading
    <3>1. 0 \in 0 .. 100 /\ "Stable" \in Trends /\ "Normal" \in Pressures
      BY TrayAssumption DEF Pressures
    <3> QED
      BY <1>2, <3>1, GaugeTypes DEF SetPlaceholder
  <2>2. NoModel \in Models
    BY DEF Models
  <2> QED
    BY <1>2, <2>1, <2>2, ApplyTypes DEF TrayTypes, SetPlaceholder
<1> QED
  BY <1>1, <1>2 DEF TrayRefresh

LEMMA DrainTypes ==
  ASSUME TrayTypes, DrainTimerFires
  PROVE  TrayTypes'
<1>1. last_snapshot \in Readings
  BY DEF DrainTimerFires, TrayTypes
<1>2. PICK m \in Modules : ApplyModel(LoadedModel(last_snapshot, m))
  BY DEF DrainTimerFires, SetMenuSnapshot, LoadedModel
<1>3. LoadedModel(last_snapshot, m) \in Models
  BY <1>1 DEF Models
<1> QED
  BY <1>2, <1>3, ApplyTypes DEF DrainTimerFires, trayEngine, icon, TrayTypes

\* The menu closes, or nothing happens.
LEMMA StillTypes ==
  ASSUME TrayTypes, TrayMenuDidClose \/ UNCHANGED trayVars
  PROVE  TrayTypes'
BY DEF TrayMenuDidClose, trayVars, trayEngine, icon, dropdown, TrayTypes

\* Every item of the menu is one the controller has, every figure drawn in a known
\* colour, and the icon's percentage and pressure are in range.
THEOREM TrayTypeCorrect == TraySpec => []TrayTypeOK
<1>1. TrayInit => TrayTypes
  <2> SUFFICES ASSUME TrayInit
               PROVE  TrayTypes
    OBVIOUS
  <2>1. \A item \in DataItems : view[item].accent \in Pressures \union {"Neutral"}
    BY DEF TrayInit, NotDrawn
  <2>2. last_gauge \in [percent: 0 .. 100, trend: Trends, pressure: Pressures]
    BY TrayAssumption DEF TrayInit, Pressures
  <2> QED
    BY <2>1, <2>2 DEF TrayInit, TrayTypes
<1>2. TrayTypes /\ [TrayNext]_trayVars => TrayTypes'
  BY RefreshTypes, DrainTypes, StillTypes DEF TrayNext, TrayTick, TrayMenuWillOpen
<1>3. TrayInv /\ TrayTypes => TrayTypeOK
  <2> SUFFICES ASSUME TrayInv, TrayTypes
               PROVE  TrayTypeOK
    OBVIOUS
  <2>1. InMenu \subseteq DataItems \union
          {Item(name) : name \in {"Loading", "AppLoading", "AppUnavailable", "Separator",
                                       "Settings", "Quit"}}
    BY MenuTypes DEF TrayInv, DrawnIsModel, InMenu
  <2> QED
    BY <2>1 DEF TrayInv, TrayTypes, TrayTypeOK
<1> QED
  BY TrayInvariance, <1>1, <1>2, <1>3, PTL DEF TraySpec
================================================================================
