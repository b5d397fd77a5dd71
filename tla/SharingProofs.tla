------------------------------ MODULE SharingProofs ------------------------------
(***************************************************************************)
(* What holds of Sharing for any clients, any backlog and any failures.    *)
(*                                                                         *)
(* The inductive invariant has three parts besides the types: who holds    *)
(* the port, the thread and the server; which fetch is on which            *)
(* connection; and what the effects still to perform will make of the      *)
(* server, the setting and the store.                                      *)
(***************************************************************************)
EXTENDS Sharing, SequenceTheorems, TLAPS

Alive == {"starting", "accepting", "answering"}

\* The thread has the port as long as it lives, nothing is queued where nobody listens,
\* and a connection is being answered only by a thread that answers.
ThreadHoldsPort ==
  /\ thread \in Alive <=> port = "rami"
  /\ backlog # <<>> => port = "rami"
  /\ serving # Nobody <=> thread = "answering"

\* There is a thread, running or ended, for a server or for a drop under way.
ServerHasThread ==
  /\ thread # "none" <=> share_server \/ main # "free"
  /\ main # "free" => ~share_server
  /\ ~running => thread = "none" /\ work = <<>>

\* No fetch is in the queue twice.
Distinct(queue) ==
  \A i, j \in DOMAIN queue : queue[i] = queue[j] /\ queue[i] \in Clients => i = j

\* A fetch waits exactly while it is on a connection, and it is on one only.
OneConnectionEach ==
  /\ \A c \in Clients : fetch[c] = "waiting" <=> c \in Queued \/ c = serving
  /\ Distinct(backlog)
  /\ serving \in Clients => serving \notin Queued

\* The effects left when every remaining one only draws.
OnlyDraws(effects) ==
  \/ effects = <<>>
  \/ \E on \in BOOLEAN : effects = <<Render(on)>>
  \/ \E on \in BOOLEAN : effects = <<Render(FALSE), Render(on)>>

\* Where the effects of an event stand, by the setting, the store and the server: nothing
\* is left to do; the toggle has been stored or not yet; a launch is about to share; or
\* the sharing failed and is to be taken back in the store.
Stand(effects, on, kept, server) ==
  \/ OnlyDraws(effects) /\ server = on /\ kept = on
  \/ effects = <<Persist(on), Share(on), Render(on)>> /\ server = ~on
  \/ effects = <<Share(on), Render(on)>> /\ server = ~on /\ kept = on
  \/ effects \in {<<Render(TRUE), Share(TRUE)>>, <<Share(TRUE)>>} /\ on /\ kept /\ ~server
  \/ /\ effects \in {<<Persist(FALSE), Render(FALSE)>>,
                     <<Persist(FALSE), Render(FALSE), Render(TRUE)>>}
     /\ ~on /\ ~server

EffectsKeepPromise ==
  running => Stand(work, share_over_tailscale, stored, share_server)

Inv ==
  /\ TypeOK /\ ThreadHoldsPort /\ ServerHasThread /\ OneConnectionEach
  /\ EffectsKeepPromise /\ ServesFreshReading

--------------------------------------------------------------------------------
(* Types *)

\* The effects an event or a failure puts to the main thread.
LEMMA EffectTypes ==
  \A on \in BOOLEAN : Persist(on) \in Effects /\ Share(on) \in Effects /\ Render(on) \in Effects
BY DEF Persist, Share, Render, Effects

\* A sequence written out is one.
LEMMA ShortSequences ==
  ASSUME NEW S
  PROVE  /\ <<>> \in Seq(S)
         /\ \A a \in S : <<a>> \in Seq(S)
         /\ \A a, b \in S : <<a, b>> \in Seq(S)
         /\ \A a, b, c \in S : <<a, b, c>> \in Seq(S)
OBVIOUS

\* Replacing what a queue holds keeps its length.
LEMMA MappedBacklog ==
  ASSUME NEW S, NEW s \in Seq(S), NEW c
  PROVE  LET t == [i \in DOMAIN s |-> IF s[i] = c THEN Gone ELSE s[i]]
         IN  t \in Seq(S \union {Gone}) /\ Len(t) = Len(s) /\ DOMAIN t = DOMAIN s
<1> DEFINE t == [i \in DOMAIN s |-> IF s[i] = c THEN Gone ELSE s[i]]
<1>1. Len(s) \in Nat /\ DOMAIN s = 1 .. Len(s) /\ s \in [1 .. Len(s) -> S]
  BY LenProperties
<1>2. t \in [1 .. Len(s) -> S \union {Gone}]
  BY <1>1
<1>3. t \in Seq(S \union {Gone})
  BY <1>1, <1>2, SeqDef
<1> QED
  BY <1>1, <1>2, <1>3, LenProperties

\* Putting short sequences together.
LEMMA Concatenations ==
  ASSUME NEW a, NEW b, NEW c
  PROVE  /\ <<a>> \o <<>> = <<a>> /\ <<a, b>> \o <<>> = <<a, b>>
         /\ <<a>> \o <<b>> = <<a, b>> /\ <<a, b>> \o <<c>> = <<a, b, c>>
<1> DEFINE S == {a, b, c}
           s == <<a>> \o <<b>>
           t == <<a, b>>
           u == <<a, b>> \o <<c>>
           v == <<a, b, c>>
<1>1. /\ <<a>> \in Seq(S) /\ <<b>> \in Seq(S) /\ <<c>> \in Seq(S)
      /\ <<a, b>> \in Seq(S) /\ <<a, b, c>> \in Seq(S)
  OBVIOUS
<1>2. Len(s) = 2 /\ s[1] = a /\ s[2] = b /\ s \in Seq(S)
  BY <1>1, ConcatProperties
<1>3. Len(t) = 2 /\ t[1] = a /\ t[2] = b /\ t \in Seq(S)
  BY <1>1
<1>4. Len(u) = 3 /\ u[1] = a /\ u[2] = b /\ u[3] = c /\ u \in Seq(S)
  BY <1>1, ConcatProperties
<1>5. Len(v) = 3 /\ v[1] = a /\ v[2] = b /\ v[3] = c /\ v \in Seq(S)
  BY <1>1
<1>6. <<a>> \o <<>> = <<a>> /\ <<a, b>> \o <<>> = <<a, b>>
  BY <1>1, ConcatEmptySeq
<1> HIDE DEF S, s, t, u, v
<1>7. \A i \in 1 .. Len(s) : s[i] = t[i]
  BY <1>2, <1>3
<1>8. \A i \in 1 .. Len(u) : u[i] = v[i]
  BY <1>4, <1>5
<1>9. s = t /\ u = v
  BY <1>2, <1>3, <1>4, <1>5, <1>7, <1>8, SeqEqual
<1> QED
  BY <1>6, <1>9 DEF s, t, u, v

\* The work of an event is typed, and so is what is left of it.
LEMMA WorkTypes ==
  ASSUME TypeOK, Next
  PROVE  work' \in Seq(Effects)
<1>1. work \in Seq(Effects) /\ (work # <<>> => Tail(work) \in Seq(Effects))
  BY HeadTailProperties DEF TypeOK
<1>2. CASE Launch
  <2>1. work' = <<Render(stored)>> \/ work' = <<Render(stored), Share(TRUE)>>
    BY <1>2, Concatenations DEF Launch
  <2>2. Render(stored) \in Effects /\ Share(TRUE) \in Effects
    BY EffectTypes DEF TypeOK
  <2>3. <<Render(stored)>> \in Seq(Effects) /\ <<Render(stored), Share(TRUE)>> \in Seq(Effects)
    BY <2>2, ShortSequences
  <2> QED
    BY <2>1, <2>3
<1>3. CASE ToggleShareOverTailscale
  <2>1. PICK on \in BOOLEAN : work' = <<Persist(on), Share(on), Render(on)>>
    BY <1>3 DEF ToggleShareOverTailscale, Toggled, TypeOK
  <2> QED
    BY <2>1, EffectTypes, ShortSequences
<1>4. CASE Refresh
  BY <1>4, EffectTypes DEF Refresh, Refreshed, TypeOK
<1>5. CASE PersistSetting \/ RenderSettingsState \/ SetSharingOff
  BY <1>1, <1>5 DEF PersistSetting, RenderSettingsState, SetSharingOff, NextEffect
<1>6. CASE SetSharingOn
  <2>1. work # <<>>
    BY <1>6 DEF SetSharingOn, NextEffect
  <2>2. CASE ShareFailed
    <3>1. Persist(FALSE) \in Effects /\ Render(FALSE) \in Effects
      BY EffectTypes
    <3>2. <<Persist(FALSE), Render(FALSE)>> \in Seq(Effects) /\ <<>> \in Seq(Effects)
      BY <3>1, ShortSequences
    <3> QED
      BY <1>1, <2>1, <2>2, <3>2, ConcatProperties DEF ShareFailed
  <2> QED
    BY <1>1, <1>6, <2>1, <2>2 DEF SetSharingOn, Started
<1>7. CASE \/ WakeListener \/ JoinListener \/ Serve \/ OtherProcess
           \/ \E c \in Clients : Ask(c) \/ GiveUp(c)
  BY <1>1, <1>7 DEF WakeListener, JoinListener, Serve, ServeStarts, Accept, Answer, GoesOn,
                    OtherProcess, Ask, GiveUp
<1>8. CASE Exit
  BY <1>8, EmptySeq DEF Exit
<1> QED
  BY <1>2, <1>3, <1>4, <1>5, <1>6, <1>7, <1>8 DEF Next, MainThread

\* So is the backlog, which never grows past its limit.
LEMMA BacklogTypes ==
  ASSUME TypeOK, Next
  PROVE  backlog' \in Seq(Connections) /\ Len(backlog') <= MaxBacklog
<1>1. backlog \in Seq(Connections) /\ Len(backlog) <= MaxBacklog /\ MaxBacklog \in Nat
      /\ Len(backlog) \in Nat
  BY ConstantsAssumption, LenProperties DEF TypeOK
<1>2. <<>> \in Seq(Connections) /\ Len(<<>>) <= MaxBacklog
  BY <1>1, EmptySeq
<1>3. CASE WakeListener
  <2>1. backlog' = Woken /\ Wake \in Connections
    BY <1>3 DEF WakeListener, Connections
  <2> QED
    BY <1>1, <2>1, AppendProperties DEF Woken
<1>4. CASE ServeStarts
  BY <1>1, <1>2, <1>4 DEF ServeStarts, ThreadReturns
<1>5. CASE Accept
  <2>1. backlog # <<>>
    BY <1>5 DEF Accept
  <2>2. Tail(backlog) \in Seq(Connections) /\ Len(Tail(backlog)) = Len(backlog) - 1
    BY <1>1, <2>1, HeadTailProperties
  <2>3. backlog' = <<>> \/ backlog' = Tail(backlog)
    BY <1>5 DEF Accept, ThreadReturns
  <2>4. Len(Tail(backlog)) <= MaxBacklog
    BY <1>1, <2>2
  <2> QED
    BY <1>2, <2>2, <2>3, <2>4
<1>6. ASSUME NEW c \in Clients, Ask(c)
      PROVE  backlog' \in Seq(Connections) /\ Len(backlog') <= MaxBacklog
  <2>1. c \in Connections
    BY DEF Connections
  <2>2. CASE backlog' = Append(backlog, c) /\ Len(backlog) < MaxBacklog
    BY <1>1, <2>1, <2>2, AppendProperties
  <2> QED
    BY <1>1, <1>6, <2>2 DEF Ask
<1>7. ASSUME NEW c \in Clients, GiveUp(c)
      PROVE  backlog' \in Seq(Connections) /\ Len(backlog') <= MaxBacklog
  <2>1. Connections \union {Gone} = Connections
    BY DEF Connections
  <2>2. backlog' = [i \in DOMAIN backlog |-> IF backlog[i] = c THEN Gone ELSE backlog[i]]
    BY <1>7 DEF GiveUp
  <2> QED
    BY <1>1, <2>1, <2>2, MappedBacklog
<1>8. CASE Exit
  BY <1>2, <1>8 DEF Exit
<1>9. CASE \/ Launch \/ ToggleShareOverTailscale \/ Refresh \/ PersistSetting
           \/ RenderSettingsState \/ SetSharingOn \/ SetSharingOff \/ JoinListener
           \/ Answer \/ OtherProcess
  BY <1>1, <1>9 DEF Launch, ToggleShareOverTailscale, Refresh, PersistSetting,
       RenderSettingsState, SetSharingOn, Started, ShareFailed, SetSharingOff, JoinListener,
       Answer, GoesOn, OtherProcess, listener
<1> QED
  BY <1>3, <1>4, <1>5, <1>6, <1>7, <1>8, <1>9 DEF Next, MainThread, Serve

\* Every action keeps the types.
LEMMA TypesKept ==
  ASSUME TypeOK, [Next]_vars
  PROVE  TypeOK'
<1>1. CASE UNCHANGED vars
  BY <1>1 DEF vars, engine, listener, TypeOK
<1>2. CASE Next
  <2>1. work' \in Seq(Effects) /\ backlog' \in Seq(Connections) /\ Len(backlog') <= MaxBacklog
    BY <1>2, WorkTypes, BacklogTypes
  <2>2. ASSUME NEW waits
        PROVE  Reset(waits) \in [Clients -> {"idle", "waiting", "reading", "offline"}]
    BY DEF Reset, TypeOK
  <2>3. Queued \subseteq Connections
    BY ElementOfSeq, LenProperties DEF Queued, TypeOK
  <2> SUFFICES /\ running' \in BOOLEAN
               /\ stored' \in BOOLEAN /\ share_over_tailscale' \in BOOLEAN
               /\ checked' \in BOOLEAN
               /\ main' \in {"free", "waking", "joining"}
               /\ share_server' \in BOOLEAN /\ stop' \in BOOLEAN
               /\ thread' \in {"none", "starting", "accepting", "answering", "ended"}
               /\ port' \in {"free", "rami", "other"}
               /\ serving' \in Connections \union {Nobody}
               /\ late' \subseteq Clients
               /\ fetch' \in [Clients -> {"idle", "waiting", "reading", "offline"}]
    BY <2>1 DEF TypeOK
  <2>4. CASE Launch \/ ToggleShareOverTailscale \/ Refresh
    <3>1. CASE Launch
      BY <3>1 DEF Launch, listener, TypeOK
    <3>2. CASE ToggleShareOverTailscale
      BY <3>2 DEF ToggleShareOverTailscale, Idle, listener, TypeOK
    <3>3. CASE Refresh
      BY <3>3 DEF Refresh, engine, listener, TypeOK
    <3> QED
      BY <2>4, <3>1, <3>2, <3>3
  <2>5. CASE PersistSetting \/ RenderSettingsState \/ SetSharingOff
    <3>1. CASE PersistSetting
      BY <3>1 DEF PersistSetting, listener, TypeOK
    <3>2. CASE RenderSettingsState
      BY <3>2 DEF RenderSettingsState, listener, TypeOK
    <3>3. CASE SetSharingOff
      BY <3>3 DEF SetSharingOff, engine, TypeOK
    <3> QED
      BY <2>5, <3>1, <3>2, <3>3
  <2>6. CASE SetSharingOn
    BY <2>6 DEF SetSharingOn, Started, ShareFailed, engine, listener, TypeOK
  <2>7. CASE WakeListener \/ JoinListener \/ OtherProcess
    BY <2>7 DEF WakeListener, JoinListener, OtherProcess, engine, TypeOK
  <2>8. CASE ServeStarts
    BY <2>2, <2>3, <2>8 DEF ServeStarts, ThreadReturns, engine, TypeOK
  <2>9. CASE Accept
    <3>1. Head(backlog) \in Connections
      BY <2>9, HeadTailProperties DEF Accept, TypeOK
    <3> QED
      BY <2>2, <2>3, <2>9, <3>1 DEF Accept, ThreadReturns, Sampled, engine, TypeOK
  <2>10. CASE Answer
    BY <2>10 DEF Answer, GoesOn, Answered, engine, TypeOK
  <2>11. ASSUME NEW c \in Clients, Ask(c) \/ GiveUp(c)
         PROVE  TypeOK'
    BY <2>1, <2>11 DEF Ask, GiveUp, engine, Connections, TypeOK
  <2>12. CASE Exit
    BY <2>2, <2>3, <2>12 DEF Exit, engine, TypeOK, Nobody
  <2> QED
    BY <1>2, <2>4, <2>5, <2>6, <2>7, <2>8, <2>9, <2>10, <2>11, <2>12
       DEF Next, MainThread, Serve, TypeOK
<1> QED
  BY <1>1, <1>2

--------------------------------------------------------------------------------
(* The listener's life *)

\* bind takes a port nobody has, and the thread that returns gives it back.
LEMMA ThreadHoldsPortKept ==
  ASSUME TypeOK, ThreadHoldsPort, ServerHasThread, [Next]_vars
  PROVE  ThreadHoldsPort'
<1> USE DEF ThreadHoldsPort, Alive
<1>1. CASE UNCHANGED vars
  BY <1>1 DEF vars, listener
<1>2. CASE Launch \/ ToggleShareOverTailscale \/ Refresh
  BY <1>2 DEF Launch, ToggleShareOverTailscale, Refresh, listener
<1>3. CASE PersistSetting \/ RenderSettingsState \/ SetSharingOff
  BY <1>3 DEF PersistSetting, RenderSettingsState, SetSharingOff, listener
<1>4. CASE SetSharingOn
  BY <1>4 DEF SetSharingOn, Started, ShareFailed, ServerHasThread, listener
<1>5. CASE WakeListener
  BY <1>5, AppendProperties DEF WakeListener, Woken
<1>6. CASE JoinListener
  BY <1>6 DEF JoinListener, ThreadHasEnded
<1>7. CASE ServeStarts
  BY <1>7 DEF ServeStarts, ThreadReturns
<1>8. CASE Accept
  <2>1. Head(backlog) # Nobody
    BY <1>8, ConstantsAssumption, HeadTailProperties
       DEF Accept, TypeOK, Connections, Wake, Gone, Nobody
  <2> QED
    BY <1>8, <2>1 DEF Accept, ThreadReturns
<1>9. CASE Answer
  BY <1>9 DEF Answer, GoesOn, Answered
<1>10. ASSUME NEW c \in Clients, Ask(c)
       PROVE  ThreadHoldsPort'
  BY <1>10 DEF Ask
<1>11. ASSUME NEW c \in Clients, GiveUp(c)
       PROVE  ThreadHoldsPort'
  <2>1. backlog = <<>> => backlog' = <<>>
    BY <1>11 DEF GiveUp
  <2> QED
    BY <1>11, <2>1, ConstantsAssumption DEF GiveUp, Gone, Nobody
<1>12. CASE OtherProcess
  BY <1>12 DEF OtherProcess
<1>13. CASE Exit
  BY <1>13 DEF Exit
<1> QED
  BY <1>1, <1>2, <1>3, <1>4, <1>5, <1>6, <1>7, <1>8, <1>9, <1>10, <1>11, <1>12, <1>13
     DEF Next, MainThread, Serve

\* Taking the server begins a drop, which only the end of the thread ends.
LEMMA ServerHasThreadKept ==
  ASSUME TypeOK, ServerHasThread, [Next]_vars
  PROVE  ServerHasThread'
<1> USE DEF ServerHasThread
<1>1. CASE UNCHANGED vars
  BY <1>1 DEF vars, listener
<1>2. CASE Launch \/ ToggleShareOverTailscale \/ Refresh
  BY <1>2 DEF Launch, ToggleShareOverTailscale, Refresh, Idle, listener
<1>3. CASE PersistSetting \/ RenderSettingsState \/ SetSharingOff
  BY <1>3 DEF PersistSetting, RenderSettingsState, SetSharingOff, NextEffect, listener
<1>4. CASE SetSharingOn
  BY <1>4 DEF SetSharingOn, Started, ShareFailed, NextEffect, listener
<1>5. CASE WakeListener \/ JoinListener
  BY <1>5 DEF WakeListener, JoinListener, ThreadHasEnded
<1>6. CASE ServeStarts
  BY <1>6 DEF ServeStarts, ThreadReturns
<1>7. CASE Accept
  BY <1>7 DEF Accept, ThreadReturns
<1>8. CASE Answer
  BY <1>8 DEF Answer, GoesOn, Answered
<1>9. ASSUME NEW c \in Clients, Ask(c) \/ GiveUp(c)
      PROVE  ServerHasThread'
  BY <1>9 DEF Ask, GiveUp
<1>10. CASE OtherProcess
  BY <1>10 DEF OtherProcess
<1>11. CASE Exit
  BY <1>11 DEF Exit
<1> QED
  BY <1>1, <1>2, <1>3, <1>4, <1>5, <1>6, <1>7, <1>8, <1>9, <1>10, <1>11
     DEF Next, MainThread, Serve

--------------------------------------------------------------------------------
(* Who is on which connection *)

\* What a queue holds after its first went, and after one more came.
LEMMA QueueContents ==
  ASSUME NEW S, NEW s \in Seq(S)
  PROVE  LET held(t) == {t[i] : i \in DOMAIN t}
         IN  /\ s # <<>> => held(s) = held(Tail(s)) \union {Head(s)}
             /\ \A e \in S : held(Append(s, e)) = held(s) \union {e}
<1> DEFINE held(t) == {t[i] : i \in DOMAIN t}
<1>1. Len(s) \in Nat /\ DOMAIN s = 1 .. Len(s)
  BY LenProperties
<1>2. ASSUME s # <<>>
      PROVE  held(s) = held(Tail(s)) \union {Head(s)}
  <2>1. /\ Len(s) # 0 /\ Head(s) = s[1]
        /\ Tail(s) \in Seq(S) /\ Len(Tail(s)) = Len(s) - 1
        /\ \A i \in 1 .. Len(Tail(s)) : Tail(s)[i] = s[i + 1]
    BY <1>2, EmptySeq, HeadTailProperties
  <2>2. DOMAIN Tail(s) = 1 .. Len(s) - 1
    BY <2>1, LenProperties
  <2>3. ASSUME NEW i \in DOMAIN s
        PROVE  s[i] = Head(s) \/ \E j \in DOMAIN Tail(s) : s[i] = Tail(s)[j]
    <3>1. CASE i = 1
      BY <2>1, <3>1
    <3>2. CASE i # 1
      <4>1. i - 1 \in DOMAIN Tail(s) /\ Tail(s)[i - 1] = s[i]
        BY <1>1, <2>1, <2>2, <3>2
      <4> QED
        BY <4>1
    <3> QED
      BY <3>1, <3>2
  <2>4. ASSUME NEW j \in DOMAIN Tail(s)
        PROVE  \E i \in DOMAIN s : s[i] = Tail(s)[j]
    <3>1. j + 1 \in DOMAIN s /\ Tail(s)[j] = s[j + 1]
      BY <1>1, <2>1, <2>2
    <3> QED
      BY <3>1
  <2>5. \E i \in DOMAIN s : s[i] = Head(s)
    BY <1>1, <2>1
  <2> QED
    BY <2>3, <2>4, <2>5
<1>3. ASSUME NEW e \in S
      PROVE  held(Append(s, e)) = held(s) \union {e}
  <2> DEFINE t == Append(s, e)
  <2>1. /\ t \in Seq(S) /\ Len(t) = Len(s) + 1
        /\ \A i \in 1 .. Len(s) : t[i] = s[i]
        /\ t[Len(s) + 1] = e
    BY AppendProperties
  <2>2. DOMAIN t = 1 .. Len(s) + 1
    BY <2>1, LenProperties
  <2> HIDE DEF t
  <2>3. ASSUME NEW i \in DOMAIN t
        PROVE  t[i] = e \/ (i \in DOMAIN s /\ t[i] = s[i])
    BY <1>1, <2>1, <2>2
  <2>4. ASSUME NEW i \in DOMAIN s
        PROVE  i \in DOMAIN t /\ t[i] = s[i]
    BY <1>1, <2>1, <2>2
  <2>5. Len(s) + 1 \in DOMAIN t
    BY <1>1, <2>2
  <2>6. held(t) = held(s) \union {e}
    BY <2>1, <2>3, <2>4, <2>5
  <2> QED
    BY <2>6 DEF t
<1> QED
  BY <1>2, <1>3

\* A queue stays free of repetitions when its first goes, which is then not in it any
\* more, and when one comes that was not in it.
LEMMA DistinctQueue ==
  ASSUME NEW S, NEW s \in Seq(S), Distinct(s)
  PROVE  LET held(t) == {t[i] : i \in DOMAIN t}
         IN  /\ s # <<>> => /\ Distinct(Tail(s))
                            /\ Head(s) \in Clients => Head(s) \notin held(Tail(s))
             /\ \A e \in S : e \notin held(s) \/ e \notin Clients => Distinct(Append(s, e))
<1> DEFINE held(t) == {t[i] : i \in DOMAIN t}
<1>1. Len(s) \in Nat /\ DOMAIN s = 1 .. Len(s)
  BY LenProperties
<1>2. ASSUME s # <<>>
      PROVE  /\ Distinct(Tail(s))
             /\ Head(s) \in Clients => Head(s) \notin held(Tail(s))
  <2>1. /\ Len(s) # 0 /\ Head(s) = s[1]
        /\ Tail(s) \in Seq(S) /\ Len(Tail(s)) = Len(s) - 1
        /\ \A i \in 1 .. Len(Tail(s)) : Tail(s)[i] = s[i + 1]
    BY <1>2, EmptySeq, HeadTailProperties
  <2>2. DOMAIN Tail(s) = 1 .. Len(s) - 1
    BY <2>1, LenProperties
  <2>3. \A j \in DOMAIN Tail(s) : j + 1 \in DOMAIN s /\ j + 1 # 1 /\ Tail(s)[j] = s[j + 1]
    BY <1>1, <2>1, <2>2
  <2>4. Distinct(Tail(s))
    <3> SUFFICES ASSUME NEW i \in DOMAIN Tail(s), NEW j \in DOMAIN Tail(s),
                        Tail(s)[i] = Tail(s)[j], Tail(s)[i] \in Clients
                 PROVE  i = j
      BY DEF Distinct
    <3>1. i + 1 = j + 1
      BY <2>3 DEF Distinct
    <3> QED
      BY <2>2, <3>1
  <2>5. 1 \in DOMAIN s
    BY <1>1, <2>1
  <2>6. Head(s) \in Clients => Head(s) \notin held(Tail(s))
    BY <2>1, <2>3, <2>5 DEF Distinct
  <2> QED
    BY <2>4, <2>6
<1>3. ASSUME NEW e \in S, e \notin held(s) \/ e \notin Clients
      PROVE  Distinct(Append(s, e))
  <2> DEFINE t == Append(s, e)
  <2>1. /\ t \in Seq(S) /\ Len(t) = Len(s) + 1
        /\ \A i \in 1 .. Len(s) : t[i] = s[i]
        /\ t[Len(s) + 1] = e
    BY AppendProperties
  <2>2. DOMAIN t = 1 .. Len(s) + 1
    BY <2>1, LenProperties
  <2> HIDE DEF t
  <2>3. \A i \in DOMAIN t : (i = Len(s) + 1 /\ t[i] = e) \/ (i \in DOMAIN s /\ t[i] = s[i])
    BY <1>1, <2>1, <2>2
  <2>4. \A i \in DOMAIN s : ~(s[i] = e /\ e \in Clients)
    BY <1>3
  <2>5. Distinct(t)
    BY <2>3, <2>4 DEF Distinct
  <2> QED
    BY <2>5 DEF t
<1> QED
  BY <1>2, <1>3

\* A connection is handed from the queue to the answer and ends there or where its fetch
\* gives up; closing the queue ends all that were in it.
LEMMA OneConnectionEachKept ==
  ASSUME TypeOK, ThreadHoldsPort, ServerHasThread, OneConnectionEach, [Next]_vars
  PROVE  OneConnectionEach'
<1> USE DEF OneConnectionEach
<1>1. backlog \in Seq(Connections)
  BY DEF TypeOK
<1>2. Wake \in Connections \ Clients /\ Gone \in Connections \ Clients /\ Nobody \notin Clients
  BY ConstantsAssumption DEF Connections
<1>3. ASSUME UNCHANGED <<backlog, serving, fetch>>
      PROVE  OneConnectionEach'
  BY <1>3 DEF Queued
<1>4. ASSUME backlog' = <<>>, serving' = Nobody,
             \A c \in Clients : fetch'[c] # "waiting"
      PROVE  OneConnectionEach'
  BY <1>2, <1>4 DEF Queued, Distinct
<1>5. CASE UNCHANGED vars
  BY <1>3, <1>5 DEF vars, listener
<1>6. CASE \/ Launch \/ ToggleShareOverTailscale \/ Refresh \/ PersistSetting
           \/ RenderSettingsState \/ SetSharingOff \/ JoinListener \/ OtherProcess
  BY <1>3, <1>6 DEF Launch, ToggleShareOverTailscale, Refresh, PersistSetting,
       RenderSettingsState, SetSharingOff, JoinListener, OtherProcess, listener
<1>7. CASE SetSharingOn
  BY <1>3, <1>7 DEF SetSharingOn, Started, ShareFailed, listener
<1>8. CASE WakeListener
  <2>1. CASE backlog' = backlog
    BY <1>3, <1>8, <2>1 DEF WakeListener
  <2>2. CASE backlog' = Append(backlog, Wake)
    <3>1. Distinct(backlog')
      BY <1>1, <1>2, <2>2, DistinctQueue
    <3>2. Queued' = Queued \union {Wake}
      BY <1>1, <1>2, <2>2, QueueContents DEF Queued
    <3> QED
      BY <1>2, <1>8, <3>1, <3>2 DEF WakeListener
  <2> QED
    BY <1>8, <2>1, <2>2 DEF WakeListener, Woken
<1>9. ASSUME thread # "answering", ThreadReturns({}), UNCHANGED serving
      PROVE  OneConnectionEach'
  <2>1. serving = Nobody
    BY <1>9 DEF ThreadHoldsPort
  <2>2. \A c \in Clients : fetch'[c] # "waiting"
    BY <1>2, <1>9, <2>1 DEF ThreadReturns, Reset
  <2> QED
    BY <1>4, <1>9, <2>1, <2>2 DEF ThreadReturns
<1>10. CASE ServeStarts
  BY <1>3, <1>9, <1>10 DEF ServeStarts
<1>11. CASE Accept
  <2>1. CASE stop
    BY <1>9, <1>11, <2>1 DEF Accept
  <2>2. CASE ~stop
    <3>1. /\ serving' = Head(backlog) /\ backlog' = Tail(backlog) /\ backlog # <<>>
          /\ serving = Nobody /\ fetch' = fetch
      BY <1>11, <2>2 DEF Accept, ThreadHoldsPort
    <3>2. Distinct(backlog') /\ (serving' \in Clients => serving' \notin Queued')
      BY <1>1, <3>1, DistinctQueue DEF Queued
    <3>3. Queued = Queued' \union {serving'}
      <4>1. {backlog[i] : i \in DOMAIN backlog} =
              {Tail(backlog)[i] : i \in DOMAIN Tail(backlog)} \union {Head(backlog)}
        BY <1>1, <3>1, QueueContents
      <4> QED
        BY <3>1, <4>1 DEF Queued
    <3> QED
      BY <1>2, <3>1, <3>2, <3>3
  <2> QED
    BY <2>1, <2>2
<1>12. CASE Answer
  <2>1. /\ serving' = Nobody /\ UNCHANGED backlog
        /\ \A c \in Clients \ {serving} : fetch'[c] = fetch[c]
        /\ serving \in Clients => fetch'[serving] # "waiting"
    BY <1>12 DEF Answer, GoesOn, Answered
  <2>2. Queued' = Queued
    BY <2>1 DEF Queued
  <2> QED
    BY <1>2, <2>1, <2>2
<1>13. ASSUME NEW c \in Clients, Ask(c)
       PROVE  OneConnectionEach'
  <2>1. c \notin Queued /\ c # serving
    BY <1>13 DEF Ask
  <2>2. CASE backlog' = Append(backlog, c) /\ fetch' = [fetch EXCEPT ![c] = "waiting"]
    <3>1. c \in Connections /\ c \notin {backlog[i] : i \in DOMAIN backlog}
      BY <2>1 DEF Connections, Queued
    <3>2. Distinct(backlog')
      BY <1>1, <2>2, <3>1, DistinctQueue
    <3>3. Queued' = Queued \union {c}
      BY <1>1, <2>2, <3>1, QueueContents DEF Queued
    <3> QED
      BY <1>13, <2>1, <2>2, <3>2, <3>3 DEF Ask, TypeOK
  <2>3. CASE UNCHANGED backlog /\ fetch' = [fetch EXCEPT ![c] = "offline"]
    <3>1. Queued' = Queued
      BY <2>3 DEF Queued
    <3> QED
      BY <1>13, <2>1, <2>3, <3>1 DEF Ask, TypeOK
  <2> QED
    BY <1>13, <2>2, <2>3 DEF Ask
<1>14. ASSUME NEW c \in Clients, GiveUp(c)
       PROVE  OneConnectionEach'
  <2>1. /\ DOMAIN backlog' = DOMAIN backlog
        /\ \A i \in DOMAIN backlog : backlog'[i] = IF backlog[i] = c THEN Gone ELSE backlog[i]
        /\ serving' = IF serving = c THEN Gone ELSE serving
        /\ fetch' = [fetch EXCEPT ![c] = "offline"]
    BY <1>14 DEF GiveUp
  <2>2. \A d \in Clients \ {c} : d \in Queued' <=> d \in Queued
    BY <1>2, <2>1 DEF Queued
  <2>3. c \notin Queued' /\ c # serving'
    BY <1>2, <2>1 DEF Queued
  <2>4. Distinct(backlog')
    BY <1>2, <2>1 DEF Distinct
  <2>5. serving' \in Clients => serving' \notin Queued'
    BY <1>2, <2>1, <2>2, <2>3
  <2> QED
    BY <1>2, <2>1, <2>2, <2>3, <2>4, <2>5 DEF TypeOK
<1>15. CASE Exit
  <2>1. \A c \in Clients : fetch'[c] # "waiting"
    BY <1>15 DEF Exit, Reset
  <2> QED
    BY <1>4, <1>15, <2>1 DEF Exit
<1> QED
  BY <1>5, <1>6, <1>7, <1>8, <1>10, <1>11, <1>12, <1>13, <1>14, <1>15
     DEF Next, MainThread, Serve

\* A fetch that connects while another is answered is sampled for anew.
LEMMA ServesFreshReadingKept ==
  ASSUME TypeOK, OneConnectionEach, ServesFreshReading, [Next]_vars
  PROVE  ServesFreshReading'
<1> USE DEF ServesFreshReading
<1>1. CASE UNCHANGED <<serving, late>>
  BY <1>1
<1>2. CASE late' = {}
  BY <1>2
<1>3. CASE Answer
  BY <1>3, ConstantsAssumption DEF Answer, TypeOK
<1>4. ASSUME NEW c \in Clients, Ask(c)
      PROVE  ServesFreshReading'
  BY <1>4 DEF Ask, OneConnectionEach
<1>5. ASSUME NEW c \in Clients, GiveUp(c)
      PROVE  ServesFreshReading'
  BY <1>5, ConstantsAssumption DEF GiveUp, TypeOK
<1>6. UNCHANGED <<serving, late>> \/ late' = {} \/ Answer \/ \E c \in Clients : Ask(c) \/ GiveUp(c)
  <2>1. CASE UNCHANGED vars
    BY <2>1 DEF vars, listener
  <2>2. CASE Launch \/ ToggleShareOverTailscale \/ Refresh \/ OtherProcess
    BY <2>2 DEF Launch, ToggleShareOverTailscale, Refresh, OtherProcess, listener
  <2>3. CASE MainThread
    BY <2>3 DEF MainThread, PersistSetting, RenderSettingsState, SetSharingOn, Started,
         ShareFailed, SetSharingOff, WakeListener, JoinListener, listener
  <2>4. CASE ServeStarts \/ Accept
    BY <2>4 DEF ServeStarts, Accept, Sampled
  <2>5. CASE Exit
    BY <2>5 DEF Exit
  <2> QED
    BY <2>1, <2>2, <2>3, <2>4, <2>5 DEF Next, Serve
<1> QED
  BY <1>1, <1>2, <1>3, <1>4, <1>5, <1>6

--------------------------------------------------------------------------------
(* What the main thread still has to do *)

\* The first and the rest of a sequence written out.
LEMMA HeadsAndTails ==
  /\ \A a : Head(<<a>>) = a /\ Tail(<<a>>) = <<>>
  /\ \A a, b : Head(<<a, b>>) = a /\ Tail(<<a, b>>) = <<b>>
  /\ \A a, b, c : Head(<<a, b, c>>) = a /\ Tail(<<a, b, c>>) = <<b, c>>
OBVIOUS

\* The first effect and the rest of it, for all the shapes the work can have.
LEMMA FirstEffect ==
  ASSUME NEW effects, NEW on \in BOOLEAN, NEW kept \in BOOLEAN, NEW server \in BOOLEAN,
         Stand(effects, on, kept, server), effects # <<>>
  PROVE  \/ /\ \E b \in BOOLEAN : Head(effects) = Render(b)
            /\ OnlyDraws(Tail(effects)) /\ server = on /\ kept = on
         \/ /\ Head(effects) = Persist(on) /\ server = ~on
            /\ Tail(effects) = <<Share(on), Render(on)>>
         \/ /\ Head(effects) = Share(on) /\ server = ~on /\ kept = on
            /\ Tail(effects) = <<Render(on)>>
         \/ /\ Head(effects) = Render(TRUE) /\ on /\ kept /\ ~server
            /\ Tail(effects) = <<Share(TRUE)>>
         \/ /\ Head(effects) = Share(TRUE) /\ on /\ kept /\ ~server
            /\ Tail(effects) = <<>>
         \/ /\ Head(effects) = Persist(FALSE) /\ ~on /\ ~server
            /\ OnlyDraws(Tail(effects))
<1>1. CASE OnlyDraws(effects) /\ server = on /\ kept = on
  <2>1. ASSUME NEW b \in BOOLEAN, effects = <<Render(b)>>
        PROVE  Head(effects) = Render(b) /\ Tail(effects) = <<>>
    BY <2>1, HeadsAndTails, Zenon
  <2>2. ASSUME NEW b \in BOOLEAN, effects = <<Render(FALSE), Render(b)>>
        PROVE  Head(effects) = Render(FALSE) /\ Tail(effects) = <<Render(b)>>
    BY <2>2, HeadsAndTails, Zenon
  <2>3. OnlyDraws(<<>>) /\ \A b \in BOOLEAN : OnlyDraws(<<Render(b)>>)
    BY Zenon DEF OnlyDraws
  <2>4. effects # <<>>
    OBVIOUS
  <2>5. CASE \E b \in BOOLEAN : effects = <<Render(b)>>
    <3>1. PICK b \in BOOLEAN : effects = <<Render(b)>>
      BY <2>5
    <3>2. Head(effects) = Render(b) /\ OnlyDraws(Tail(effects))
      BY <2>1, <2>3, <3>1, Zenon
    <3> QED
      BY <1>1, <3>2, Zenon
  <2>6. CASE \E b \in BOOLEAN : effects = <<Render(FALSE), Render(b)>>
    <3>1. PICK b \in BOOLEAN : effects = <<Render(FALSE), Render(b)>>
      BY <2>6
    <3>2. Head(effects) = Render(FALSE) /\ OnlyDraws(Tail(effects))
      BY <2>2, <2>3, <3>1, Zenon
    <3>3. \E a \in BOOLEAN : Head(effects) = Render(a)
      BY <3>2
    <3> QED
      BY <1>1, <3>2, <3>3, Zenon
  <2> QED
    BY <1>1, <2>4, <2>5, <2>6, Zenon DEF OnlyDraws
<1>2. CASE effects = <<Persist(on), Share(on), Render(on)>> /\ server = ~on
  <2>1. Head(effects) = Persist(on) /\ Tail(effects) = <<Share(on), Render(on)>>
    BY <1>2, HeadsAndTails, Zenon
  <2> QED
    BY <1>2, <2>1, Zenon
<1>3. CASE effects = <<Share(on), Render(on)>> /\ server = ~on /\ kept = on
  <2>1. Head(effects) = Share(on) /\ Tail(effects) = <<Render(on)>>
    BY <1>3, HeadsAndTails, Zenon
  <2> QED
    BY <1>3, <2>1, Zenon
<1>4. CASE effects \in {<<Render(TRUE), Share(TRUE)>>, <<Share(TRUE)>>}
           /\ on /\ kept /\ ~server
  <2>1. CASE effects = <<Render(TRUE), Share(TRUE)>>
    BY <1>4, <2>1, HeadsAndTails, Zenon
  <2>2. CASE effects = <<Share(TRUE)>>
    BY <1>4, <2>2, HeadsAndTails, Zenon
  <2> QED
    BY <1>4, <2>1, <2>2, Zenon
<1>5. CASE /\ effects \in {<<Persist(FALSE), Render(FALSE)>>,
                           <<Persist(FALSE), Render(FALSE), Render(TRUE)>>}
           /\ ~on /\ ~server
  <2>1. CASE effects = <<Persist(FALSE), Render(FALSE)>>
    <3>1. Head(effects) = Persist(FALSE) /\ Tail(effects) = <<Render(FALSE)>>
      BY <2>1, HeadsAndTails, Zenon
    <3>2. OnlyDraws(Tail(effects))
      BY <3>1, Zenon DEF OnlyDraws
    <3> QED
      BY <1>5, <3>1, <3>2, Zenon
  <2>2. CASE effects = <<Persist(FALSE), Render(FALSE), Render(TRUE)>>
    <3>1. Head(effects) = Persist(FALSE) /\ Tail(effects) = <<Render(FALSE), Render(TRUE)>>
      BY <2>2, HeadsAndTails, Zenon
    <3>2. OnlyDraws(Tail(effects))
      BY <3>1, Zenon DEF OnlyDraws
    <3> QED
      BY <1>5, <3>1, <3>2, Zenon
  <2> QED
    BY <1>5, <2>1, <2>2, Zenon
<1> QED
  BY <1>1, <1>2, <1>3, <1>4, <1>5 DEF Stand

\* Effects of different kinds, and for different values, are told apart.
LEMMA EffectsDiffer ==
  \A a, b \in BOOLEAN :
    /\ Persist(a) # Share(b) /\ Share(a) # Render(b) /\ Persist(a) # Render(b)
    /\ Persist(a) = Persist(b) => a = b
    /\ Share(a) = Share(b) => a = b
    /\ Render(a) = Render(b) => a = b
BY DEF Persist, Share, Render

\* Every effect, the nested failure included, leads to where the next ones start from.
LEMMA EffectsKeepPromiseKept ==
  ASSUME TypeOK, ServerHasThread, EffectsKeepPromise, [Next]_vars
  PROVE  EffectsKeepPromise'
<1> USE DEF EffectsKeepPromise
<1> DEFINE on == share_over_tailscale
<1>1. on \in BOOLEAN /\ stored \in BOOLEAN /\ share_server \in BOOLEAN
  BY DEF TypeOK
<1>2. CASE UNCHANGED <<running, share_over_tailscale, stored, work, share_server>>
  BY <1>2
<1>3. CASE Launch
  <2>1. running' /\ ~share_server /\ UNCHANGED <<stored, share_server>> /\ on' = stored
    BY <1>3 DEF Launch, ServerHasThread, listener
  <2>2. CASE stored
    <3>1. work' = <<Render(TRUE), Share(TRUE)>>
      BY <1>1, <1>3, <2>2, Concatenations DEF Launch
    <3> QED
      BY <2>1, <2>2, <3>1 DEF Stand
  <2>3. CASE ~stored
    <3>1. work' = <<Render(FALSE)>>
      BY <1>1, <1>3, <2>3, Concatenations DEF Launch
    <3> QED
      BY <1>1, <2>1, <2>3, <3>1 DEF Stand, OnlyDraws
  <2> QED
    BY <2>2, <2>3
<1>4. ASSUME Idle
      PROVE  share_server = on /\ stored = on
  <2>1. work = <<>> /\ Stand(work, on, stored, share_server)
    BY <1>4 DEF Idle
  <2> QED
    BY <2>1 DEF Stand
<1>5. CASE ToggleShareOverTailscale
  <2>1. /\ UNCHANGED share_server /\ on' = ~on /\ on' \in BOOLEAN
        /\ work' = <<Persist(on'), Share(on'), Render(on')>>
    BY <1>1, <1>5 DEF ToggleShareOverTailscale, Toggled, listener
  <2>2. share_server' = ~on'
    BY <1>1, <1>4, <1>5, <2>1 DEF ToggleShareOverTailscale
  <2> QED
    BY <2>1, <2>2 DEF Stand
<1>6. CASE Refresh
  <2>1. UNCHANGED <<share_server, share_over_tailscale, stored>> /\ work' = <<Render(on)>>
    BY <1>6 DEF Refresh, Refreshed, engine
  <2>2. OnlyDraws(work')
    BY <1>1, <2>1 DEF OnlyDraws
  <2>3. share_server = on /\ stored = on
    BY <1>4, <1>6 DEF Refresh
  <2> QED
    BY <2>1, <2>2, <2>3 DEF Stand
<1>7. CASE PersistSetting
  <2>1. PICK b \in BOOLEAN : Head(work) = Persist(b) /\ stored' = b
    BY <1>7 DEF PersistSetting, NextEffect, Persist
  <2>2. work # <<>> /\ running' = running /\ share_server' = share_server /\ on' = on
        /\ work' = Tail(work)
    BY <1>7 DEF PersistSetting, NextEffect, listener
  <2> SUFFICES ASSUME running
               PROVE  Stand(work', on, b, share_server)
    BY <2>1, <2>2
  <2>3. \/ Head(work) = Persist(on) /\ share_server = ~on
              /\ Tail(work) = <<Share(on), Render(on)>>
        \/ Head(work) = Persist(FALSE) /\ ~on /\ ~share_server /\ OnlyDraws(Tail(work))
    BY <1>1, <2>1, <2>2, FirstEffect, EffectsDiffer
  <2>4. b = on
    BY <1>1, <2>1, <2>3, EffectsDiffer
  <2> QED
    BY <1>1, <2>2, <2>3, <2>4 DEF Stand
<1>8. CASE RenderSettingsState
  <2>1. PICK b \in BOOLEAN : Head(work) = Render(b)
    BY <1>8 DEF RenderSettingsState, NextEffect, Render
  <2>2. /\ work # <<>> /\ work' = Tail(work)
        /\ UNCHANGED <<running, share_over_tailscale, stored, share_server>>
    BY <1>8 DEF RenderSettingsState, NextEffect, listener
  <2> SUFFICES ASSUME running
               PROVE  Stand(Tail(work), on, stored, share_server)
    BY <2>2
  <2>3. \/ OnlyDraws(Tail(work)) /\ share_server = on /\ stored = on
        \/ on /\ stored /\ ~share_server /\ Tail(work) = <<Share(TRUE)>>
    BY <1>1, <2>1, <2>2, FirstEffect, EffectsDiffer
  <2> QED
    BY <2>3 DEF Stand
<1>9. ASSUME NEW b \in BOOLEAN, NextEffect("Share", b), running
      PROVE  /\ b = on /\ stored = on /\ share_server = ~on
             /\ Tail(work) = <<Render(on)>> \/ (Tail(work) = <<>> /\ on)
  <2>1. work # <<>> /\ Head(work) = Share(b)
    BY <1>9 DEF NextEffect, Share
  <2>2. \/ Head(work) = Share(on) /\ share_server = ~on /\ stored = on
             /\ Tail(work) = <<Render(on)>>
        \/ Head(work) = Share(TRUE) /\ on /\ stored /\ ~share_server /\ Tail(work) = <<>>
    BY <1>1, <1>9, <2>1, FirstEffect, EffectsDiffer
  <2>3. b = on
    BY <1>1, <2>1, <2>2, EffectsDiffer
  <2> QED
    BY <1>1, <2>2, <2>3
<1>10. ASSUME OnlyDraws(work'), share_server' = on', stored' = on'
       PROVE  EffectsKeepPromise'
  BY <1>10 DEF Stand
<1>11. CASE SetSharingOn
  <2> SUFFICES ASSUME running
               PROVE  EffectsKeepPromise'
    BY <1>11 DEF SetSharingOn
  <2>1. /\ on = TRUE /\ stored = TRUE /\ ~share_server
        /\ Tail(work) = <<Render(TRUE)>> \/ Tail(work) = <<>>
    BY <1>1, <1>9, <1>11 DEF SetSharingOn
  <2>2. CASE Started
    <3>1. OnlyDraws(work')
      BY <2>1, <2>2 DEF Started, OnlyDraws
    <3> QED
      BY <1>10, <2>1, <2>2, <3>1 DEF Started, engine
  <2>3. CASE ShareFailed
    <3>1. work' \in {<<Persist(FALSE), Render(FALSE)>>,
                     <<Persist(FALSE), Render(FALSE), Render(TRUE)>>}
      BY <2>1, <2>3, Concatenations DEF ShareFailed
    <3> QED
      BY <2>1, <2>3, <3>1 DEF ShareFailed, Stand
  <2> QED
    BY <1>11, <2>1, <2>2, <2>3 DEF SetSharingOn
<1>12. CASE SetSharingOff
  <2> SUFFICES ASSUME running
               PROVE  EffectsKeepPromise'
    BY <1>12 DEF SetSharingOff
  <2>1. on = FALSE /\ stored = FALSE /\ Tail(work) = <<Render(FALSE)>>
    BY <1>1, <1>9, <1>12 DEF SetSharingOff
  <2>2. OnlyDraws(work')
    BY <1>12, <2>1 DEF SetSharingOff, OnlyDraws
  <2> QED
    BY <1>10, <1>12, <2>1, <2>2 DEF SetSharingOff, engine
<1>13. CASE \/ UNCHANGED vars \/ WakeListener \/ JoinListener \/ Serve \/ OtherProcess
            \/ \E c \in Clients : Ask(c) \/ GiveUp(c)
  BY <1>2, <1>13 DEF vars, engine, WakeListener, JoinListener, Serve, ServeStarts, Accept,
                     Answer, OtherProcess, Ask, GiveUp
<1>14. CASE Exit
  BY <1>14 DEF Exit
<1> QED
  BY <1>3, <1>5, <1>6, <1>7, <1>8, <1>11, <1>12, <1>13, <1>14 DEF Next, MainThread

--------------------------------------------------------------------------------
(* The invariant, and what follows from it *)

\* The invariant holds at first.
LEMMA InitInv == Init => Inv
<1> SUFFICES ASSUME Init
             PROVE  Inv
  OBVIOUS
<1>1. TypeOK
  <2>1. <<>> \in Seq(Effects) /\ <<>> \in Seq(Connections) /\ Len(<<>>) = 0
    BY EmptySeq
  <2>2. port \in {"free", "rami", "other"}
    BY DEF Init
  <2>3. 0 <= MaxBacklog
    BY ConstantsAssumption
  <2> QED
    BY <2>1, <2>2, <2>3 DEF Init, TypeOK
<1>2. ThreadHoldsPort /\ ServerHasThread
  BY DEF Init, ThreadHoldsPort, ServerHasThread, Alive
<1>3. OneConnectionEach
  BY ConstantsAssumption DEF Init, OneConnectionEach, Queued, Distinct
<1>4. EffectsKeepPromise /\ ServesFreshReading
  BY DEF Init, EffectsKeepPromise, ServesFreshReading
<1> QED
  BY <1>1, <1>2, <1>3, <1>4 DEF Inv

\* So it always holds.
LEMMA Invariance == Spec => []Inv
<1>1. Inv /\ [Next]_vars => Inv'
  BY TypesKept, ThreadHoldsPortKept, ServerHasThreadKept, OneConnectionEachKept,
     ServesFreshReadingKept, EffectsKeepPromiseKept DEF Inv
<1> QED
  BY <1>1, InitInv, PTL DEF Spec

\* Every variable keeps its type, and the kernel's queue its length.
THEOREM TypeCorrect == Spec => []TypeOK
<1>1. Inv => TypeOK
  BY DEF Inv
<1> QED
  BY <1>1, Invariance, PTL

\* When drop has returned, neither the thread nor the port nor a queue is left of the
\* server it dropped (share.rs:202-234).
THEOREM NothingIsLeft == Spec => []DroppedServerIsGone
<1>1. Inv => DroppedServerIsGone
  BY DEF Inv, DroppedServerIsGone, ThreadHoldsPort, ServerHasThread, Alive
<1> QED
  BY <1>1, Invariance, PTL

\* Whenever rami is idle, the server, the setting and the store agree, whatever failed
\* and in whatever order launches, toggles, refreshes and deaths of the process came
\* (engine.rs:375-383, 469-476; app.rs:181-184, 285-300).
THEOREM SettingIsKept == Spec => []SettingIsInForce
<1>1. Inv => SettingIsInForce
  BY DEF Inv, SettingIsInForce, EffectsKeepPromise, Idle, Stand
<1> QED
  BY <1>1, Invariance, PTL

\* The reading being sent was sampled after its client connected, for any number of
\* clients in any queue (share.rs:252-273).
THEOREM ReadingIsFresh == Spec => []ServesFreshReading
<1>1. Inv => ServesFreshReading
  BY DEF Inv
<1> QED
  BY <1>1, Invariance, PTL

\* A listener that has its sampler ends only when told to, whatever exchange fails, and
\* every waiting fetch is on a connection that a living thread holds (share.rs:202-234,
\* 252-273).
THEOREM WaitsAreHeld == Spec => NoWaitOnDeadConnection
<1>1. Inv => WaitsOnListener
  <2> SUFFICES ASSUME Inv, NEW c \in Clients, fetch[c] = "waiting"
               PROVE  (c \in Queued \/ c = serving) /\ thread \in Alive
    BY DEF WaitsOnListener, Alive
  <2>1. c \in Queued \/ c = serving
    BY DEF Inv, OneConnectionEach
  <2>2. CASE c \in Queued
    <3>1. backlog # <<>>
      BY <2>2 DEF Queued
    <3> QED
      BY <2>1, <3>1 DEF Inv, ThreadHoldsPort
  <2>3. CASE c = serving
    <3>1. serving # Nobody
      BY <2>3, ConstantsAssumption
    <3> QED
      BY <2>1, <3>1 DEF Inv, ThreadHoldsPort, Alive
  <2> QED
    BY <2>1, <2>2, <2>3
<1>2. ASSUME [Next]_vars
      PROVE  [thread' = "ended" /\ thread \in {"accepting", "answering"} => stop]_vars
  <2> SUFFICES ASSUME thread \in {"accepting", "answering"}, thread' = "ended"
               PROVE  stop
    OBVIOUS
  <2>1. CASE Accept
    BY <2>1 DEF Accept
  <2>2. CASE \/ ServeStarts \/ Answer \/ Exit \/ SetSharingOn \/ JoinListener
    BY <2>2 DEF ServeStarts, Answer, GoesOn, Exit, SetSharingOn, Started, ShareFailed,
                listener, JoinListener, ThreadHasEnded
  <2>3. CASE UNCHANGED thread
    BY <2>3
  <2>4. CASE \/ Launch \/ ToggleShareOverTailscale \/ Refresh \/ PersistSetting
             \/ RenderSettingsState \/ SetSharingOff \/ WakeListener \/ OtherProcess
             \/ UNCHANGED vars \/ \E c \in Clients : Ask(c) \/ GiveUp(c)
    BY <2>3, <2>4 DEF Launch, ToggleShareOverTailscale, Refresh, PersistSetting,
                      RenderSettingsState, SetSharingOff, WakeListener, OtherProcess, Ask,
                      GiveUp, vars, listener
  <2> QED
    BY <1>2, <2>1, <2>2, <2>4 DEF Next, MainThread, Serve
<1> QED
  BY <1>1, <1>2, Invariance, PTL DEF Spec, NoWaitOnDeadConnection, EndsOnlyWhenTold
================================================================================
