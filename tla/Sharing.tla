-------------------------------- MODULE Sharing --------------------------------
(***************************************************************************)
(* Share over Tailscale: the setting and its listener, src/share.rs and    *)
(* the part of src/engine.rs and src/app.rs that turns it on and off.      *)
(*                                                                         *)
(* The main thread runs an engine step and then its effects one by one; an *)
(* effect may dispatch another event, whose effects run before the rest.   *)
(* Between two effects, and while the main thread waits in ShareServer's   *)
(* drop, the listener thread, its clients and the other processes go on.   *)
(*                                                                         *)
(* Left out: the content of a reading (a client tells a reading from no    *)
(* reading), the request (whatever it asks, the answer is the same) and    *)
(* the deadlines' lengths (an exchange ends, a fetch may give up).         *)
(***************************************************************************)
EXTENDS Naturals, Sequences

CONSTANTS
  Clients,      \* fetches that may be under way at once
  MaxBacklog,   \* connections the kernel queues on a listener
  Failures      \* what may fail: {"port", "spawn", "sampler", "memory", "answer"}

VARIABLES
  running,      \* the rami process is alive and holds the AppLock
  stored,       \* shareOverTailscale in the user defaults; survives a crash
  share_over_tailscale,  \* the engine's setting
  checked,      \* the Settings item's checkmark
  work,         \* the effects the main thread has still to perform
  main,         \* where the main thread is: "free", or in drop "waking" or "joining"
  share_server, \* share_server is Some
  stop,         \* the flag the listener thread looks at
  thread,       \* the listener thread
  port,         \* who listens on SHARE_PORT
  backlog,      \* connections the listener has not accepted
  serving,      \* the connection being answered
  late,         \* the fetches that connected after the last sample
  fetch         \* what each fetch came to

engine == <<stored, share_over_tailscale, checked>>
listener == <<stop, thread, port, backlog, serving, late, fetch>>
vars == <<running, engine, work, main, share_server, listener>>

Wake == "Wake"      \* the throwaway connection of drop
Gone == "Gone"      \* a connection whose client has given up
Nobody == "Nobody"

ASSUME ConstantsAssumption ==
  /\ MaxBacklog \in Nat \ {0}
  /\ Clients \cap {Wake, Gone, Nobody} = {}

MayFail(what) == IF what \in Failures THEN BOOLEAN ELSE {TRUE}

Persist(on) == [effect |-> "PersistSetting", on |-> on]
Share(on) == [effect |-> "Share", on |-> on]
Render(on) == [effect |-> "Render", on |-> on]

Init ==
  /\ running = FALSE
  /\ stored \in BOOLEAN
  /\ share_over_tailscale = FALSE /\ checked = FALSE
  /\ work = <<>> /\ main = "free" /\ share_server = FALSE
  /\ stop = FALSE /\ thread = "none"
  /\ port \in IF "port" \in Failures THEN {"free", "other"} ELSE {"free"}
  /\ backlog = <<>> /\ serving = Nobody /\ late = {}
  /\ fetch = [c \in Clients |-> "idle"]

--------------------------------------------------------------------------------
(* Events: each needs the main thread back in the run loop. *)

Idle == running /\ main = "free" /\ work = <<>>

\* App::new: the stored setting, then Startup's refresh and sharing.
Launch ==
  /\ ~running
  /\ running' = TRUE
  /\ share_over_tailscale' = stored /\ checked' = FALSE
  /\ work' = <<Render(stored)>> \o (IF stored THEN <<Share(TRUE)>> ELSE <<>>)
  /\ UNCHANGED <<stored, main, share_server, listener>>

ToggledSharesFirst(on) == <<Share(on), Persist(on), Render(on)>>

Toggled(on) == <<Persist(on), Share(on), Render(on)>>

ToggleShareOverTailscale ==
  /\ Idle
  /\ share_over_tailscale' = ~share_over_tailscale
  /\ work' = Toggled(share_over_tailscale')
  /\ UNCHANGED <<running, stored, checked, main, share_server, listener>>

RefreshedWithoutSettings == <<>>

\* What any refresh renders first.
Refreshed == <<Render(share_over_tailscale)>>

\* A tick, a menu open, another item's toggle.
Refresh ==
  /\ Idle
  /\ work' = Refreshed
  /\ UNCHANGED <<running, engine, main, share_server, listener>>

--------------------------------------------------------------------------------
(* Effects *)

NextEffect(effect, on) ==
  work # <<>> /\ Head(work) = [effect |-> effect, on |-> on]

PersistSetting ==
  /\ main = "free"
  /\ \E on \in BOOLEAN : NextEffect("PersistSetting", on) /\ stored' = on
  /\ work' = Tail(work)
  /\ UNCHANGED <<running, share_over_tailscale, checked, main, share_server, listener>>

RenderSettingsState ==
  /\ main = "free"
  /\ \E on \in BOOLEAN : NextEffect("Render", on) /\ checked' = on
  /\ work' = Tail(work)
  /\ UNCHANGED <<running, stored, share_over_tailscale, main, share_server, listener>>

\* ShareServer::start: bind, then spawn.
Started ==
  /\ share_server' = TRUE /\ stop' = FALSE
  /\ thread' = "starting" /\ port' = "rami" /\ late' = {}
  /\ work' = Tail(work)
  /\ UNCHANGED <<engine, backlog, serving, fetch>>

\* The failure is an event of its own, dispatched from inside the effect.
ShareFailed ==
  /\ work' = (IF share_over_tailscale THEN <<Persist(FALSE), Render(FALSE)>> ELSE <<>>)
               \o Tail(work)
  /\ share_over_tailscale' = FALSE
  /\ UNCHANGED <<stored, checked, share_server, listener>>

SetSharingOn ==
  /\ main = "free" /\ NextEffect("Share", TRUE)
  /\ \/ /\ share_server
        /\ work' = Tail(work)
        /\ UNCHANGED <<engine, share_server, listener>>
     \/ /\ ~share_server /\ port = "free"
        /\ Started
     \/ /\ ~share_server /\ (port # "free" \/ "spawn" \in Failures)
        /\ ShareFailed
  /\ UNCHANGED <<running, main>>

\* Taking the server drops it: the flag first, then the wake, then the join.
SetSharingOff ==
  /\ main = "free" /\ NextEffect("Share", FALSE)
  /\ work' = Tail(work)
  /\ share_server' = FALSE
  /\ IF share_server THEN stop' = TRUE /\ main' = "waking" ELSE UNCHANGED <<stop, main>>
  /\ UNCHANGED <<running, engine, thread, port, backlog, serving, late, fetch>>

NeverWoken == backlog

\* backlog after drop's connect: refused, or timed out on a full queue, it is
\* ignored.
Woken ==
  IF port = "rami" /\ Len(backlog) < MaxBacklog THEN Append(backlog, Wake) ELSE backlog

WakeListener ==
  /\ main = "waking"
  /\ main' = "joining"
  /\ backlog' = Woken
  /\ UNCHANGED <<running, engine, work, share_server, stop, thread, port, serving, late,
                 fetch>>

JoinsNothing == TRUE

ThreadHasEnded == thread = "ended"

JoinListener ==
  /\ main = "joining" /\ ThreadHasEnded
  /\ main' = "free"
  /\ thread' = IF thread = "ended" THEN "none" ELSE thread
  /\ UNCHANGED <<running, engine, work, share_server, stop, port, backlog, serving, late,
                 fetch>>

--------------------------------------------------------------------------------
(* The listener thread: serve *)

\* The fetches after these connections were reset: a fetch takes a reading from
\* a whole answer only.
Reset(connections) == [c \in Clients |-> IF c \in connections THEN "offline" ELSE fetch[c]]
Queued == {backlog[i] : i \in DOMAIN backlog}

\* The thread returns and with it the listener.
ThreadReturns(dropped) ==
  /\ thread' = "ended" /\ port' = "free" /\ backlog' = <<>>
  /\ fetch' = Reset(Queued \union dropped)

ServeStarts ==
  /\ thread = "starting"
  /\ \E sampler \in MayFail("sampler") :
       IF sampler THEN thread' = "accepting" /\ UNCHANGED <<port, backlog, fetch>>
       ELSE ThreadReturns({})
  /\ UNCHANGED <<running, engine, work, main, share_server, stop, serving, late>>

SampledBeforeAccept == late

\* late after memory.sample().
Sampled == {}

\* Accepting is where the stop flag is looked at, and only there.
Accept ==
  /\ thread = "accepting" /\ backlog # <<>>
  /\ IF stop
     THEN ThreadReturns({}) /\ UNCHANGED <<serving, late>>
     ELSE /\ serving' = Head(backlog)
          /\ backlog' = Tail(backlog)
          /\ late' = Sampled
          /\ thread' = "answering"
          /\ UNCHANGED <<port, fetch>>
  /\ UNCHANGED <<running, engine, work, main, share_server, stop>>

\* The fetches once the client being served has its answer, or what there was of it.
Answered(sampled, written) ==
  [c \in Clients |-> IF c # serving THEN fetch[c]
                     ELSE IF sampled /\ written THEN "reading" ELSE "offline"]

EndsOnError(sampled, written) ==
  IF written
  THEN /\ thread' = "accepting"
       /\ fetch' = Answered(sampled, written)
       /\ UNCHANGED <<port, backlog>>
  ELSE ThreadReturns({serving})

\* The answer is written within its deadline, or not: then the thread goes on.
GoesOn(sampled, written) ==
  /\ thread' = "accepting"
  /\ fetch' = Answered(sampled, written)
  /\ UNCHANGED <<port, backlog>>

\* A client that has given up, or a slow one, is a write that may fail.
Answer ==
  /\ thread = "answering"
  /\ serving' = Nobody
  /\ \E sampled \in MayFail("memory"), written \in MayFail("answer") :
       GoesOn(sampled, written)
  /\ UNCHANGED <<running, engine, work, main, share_server, stop, late>>

--------------------------------------------------------------------------------
(* Clients, other processes, and the end of this one *)

Ask(c) ==
  /\ fetch[c] # "waiting"
  /\ \/ /\ port = "rami" /\ Len(backlog) < MaxBacklog
        /\ fetch' = [fetch EXCEPT ![c] = "waiting"]
        /\ backlog' = Append(backlog, c)
        /\ late' = late \union {c}
     \/ /\ port # "rami" \/ Len(backlog) = MaxBacklog
        /\ fetch' = [fetch EXCEPT ![c] = "offline"]
        /\ UNCHANGED <<backlog, late>>
  /\ UNCHANGED <<running, engine, work, main, share_server, stop, thread, port, serving>>

\* FETCH_TIMEOUT: the connection is left where it is, its client gone.
GiveUp(c) ==
  /\ fetch[c] = "waiting"
  /\ fetch' = [fetch EXCEPT ![c] = "offline"]
  /\ backlog' = [i \in DOMAIN backlog |-> IF backlog[i] = c THEN Gone ELSE backlog[i]]
  /\ serving' = IF serving = c THEN Gone ELSE serving
  /\ UNCHANGED <<running, engine, work, main, share_server, stop, thread, port, late>>

OtherProcess ==
  /\ "port" \in Failures
  /\ \/ port = "free" /\ port' = "other"
     \/ port = "other" /\ port' = "free"
  /\ UNCHANGED <<running, engine, work, main, share_server, stop, thread, backlog, serving,
                 late, fetch>>

\* Quit or a crash, at any point: nothing is dropped in order, the kernel closes
\* what was open.
Exit ==
  /\ running
  /\ running' = FALSE
  /\ work' = <<>> /\ main' = "free" /\ share_server' = FALSE
  /\ stop' = FALSE /\ thread' = "none" /\ serving' = Nobody /\ late' = {}
  /\ port' = IF port = "rami" THEN "free" ELSE port
  /\ backlog' = <<>>
  /\ fetch' = Reset(Queued \union {serving})
  /\ UNCHANGED engine

--------------------------------------------------------------------------------

MainThread ==
  PersistSetting \/ RenderSettingsState \/ SetSharingOn \/ SetSharingOff
    \/ WakeListener \/ JoinListener
Serve == ServeStarts \/ Accept \/ Answer

Next ==
  \/ Launch \/ ToggleShareOverTailscale \/ Refresh
  \/ MainThread \/ Serve
  \/ \E c \in Clients : Ask(c) \/ GiveUp(c)
  \/ OtherProcess \/ Exit

Spec == Init /\ [][Next]_vars

\* The main thread and the listener run; with Auto-Refresh on a tick comes
\* whenever the main thread is idle.  Nobody has to toggle, ask or quit.
FairSpec == Spec /\ WF_vars(MainThread) /\ WF_vars(Serve) /\ SF_vars(Refresh)

--------------------------------------------------------------------------------
(* Properties *)

Effects == [effect: {"PersistSetting", "Share", "Render"}, on: BOOLEAN]
Connections == Clients \union {Wake, Gone}

TypeOK ==
  /\ running \in BOOLEAN
  /\ stored \in BOOLEAN /\ share_over_tailscale \in BOOLEAN /\ checked \in BOOLEAN
  /\ work \in Seq(Effects)
  /\ main \in {"free", "waking", "joining"}
  /\ share_server \in BOOLEAN /\ stop \in BOOLEAN
  /\ thread \in {"none", "starting", "accepting", "answering", "ended"}
  /\ port \in {"free", "rami", "other"}
  /\ backlog \in Seq(Connections) /\ Len(backlog) <= MaxBacklog
  /\ serving \in Connections \union {Nobody}
  /\ late \subseteq Clients
  /\ fetch \in [Clients -> {"idle", "waiting", "reading", "offline"}]

\* Once drop has returned nothing of the old server is left, so a new one can
\* bind straight away: a bind never fails for a port rami itself still holds
\* (share.rs:202-234).
DroppedServerIsGone ==
  main = "free" /\ ~share_server => thread = "none" /\ port # "rami" /\ backlog = <<>>

\* Whatever failed on the way, an idle rami holds a server exactly when the setting is
\* on, and what it stored is that setting: the nested ShareFailed stores its FALSE after
\* the toggle stored its TRUE (engine.rs:375-383, 469-476; app.rs:181-184, 285-300).
SettingIsInForce ==
  Idle => (share_server <=> share_over_tailscale) /\ (stored <=> share_over_tailscale)

\* The reading a client gets was sampled after it connected, however long it
\* queued (share.rs:252-273).
ServesFreshReading == serving \notin late

\* The listener, once it has its sampler, ends only when told to: not for a client that
\* gave up, nor for an exchange that failed (share.rs:252-273).
EndsOnlyWhenTold ==
  [][thread' = "ended" /\ thread \in {"accepting", "answering"} => stop]_vars

\* Until it ends a fetch is queued on a listener that serves on, or is being answered
\* (share.rs:202-234, 252-273).
WaitsOnListener ==
  \A c \in Clients : fetch[c] = "waiting" =>
    /\ c \in Queued \/ c = serving
    /\ thread \in {"starting", "accepting", "answering"}

\* So no fetch waits on a connection that nobody will ever answer or close.
NoWaitOnDeadConnection == EndsOnlyWhenTold /\ []WaitsOnListener

\* Turning sharing off returns: the listener, blocked in accept, is woken and
\* ends, whatever it was doing (share.rs:224-234).
StopEnds == (main # "free") ~> (main = "free")

\* With Auto-Refresh on the checkmark catches up with the setting, after a failed
\* bind too (engine.rs:484-488; app.rs:247-250).
CheckmarkCatchesUp ==
  (running /\ checked # share_over_tailscale) ~>
    (~running \/ checked = share_over_tailscale)

\* What .cursor/skills/verify-rami/features/share-over-tailscale.md:34 says: "If
\* another process holds port 47960, turning sharing on unchecks it again".
CheckmarkFollowsSetting == Idle => (checked <=> share_over_tailscale)

================================================================================
