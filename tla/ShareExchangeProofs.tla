--------------------------- MODULE ShareExchangeProofs ---------------------------
(***************************************************************************)
(* How long an exchange of Share over Tailscale lasts, for any deadlines,  *)
(* any number of fetches and strangers, and any answers of other programs: *)
(* the bounds on the listener and on the main thread that waits for it,    *)
(* and the promise to a fetch that reached the queue in time.              *)
(*                                                                         *)
(* What an answer says does not matter there.  The last parts are about    *)
(* that: what the text of a reading is read as, wherever it is cut, what   *)
(* a fetch returns, and the types of it all.                               *)
(***************************************************************************)
EXTENDS ShareExchange, SequenceTheorems, FiniteSetTheorems, TLAPS

--------------------------------------------------------------------------------
(* The inductive invariant *)

ListenerType ==
  /\ server \in {"up", "stopping", "down"} /\ main \in {"free", "waking", "joining"}
  /\ queue \in Seq(Connection)
  /\ serving \in Connection \union {Nobody}
  /\ deadline \in Nat /\ held \in Nat
  /\ patience \in 0 .. IO_TIMEOUT /\ frozen \in Nat

Times == {"stage", "left", "ahead", "budget"}

FetchType ==
  /\ DOMAIN fetch = Fetches
  /\ \A f \in Fetches :
       /\ Times \subseteq DOMAIN fetch[f]
       /\ fetch[f].left \in Nat /\ fetch[f].ahead \in Nat /\ fetch[f].budget \in Nat

\* A listener that is down serves nobody.  One that is told to stop has the main thread
\* in drop, and has a connection to wake it once the main thread joins: the one made for
\* that, or those that left no room for it.
ListenerWakes ==
  /\ server = "down" => queue = <<>> /\ serving = Nobody
  /\ server = "up" => main = "free"
  /\ server = "stopping" => main # "free" /\ (main = "joining" => queue # <<>>)

\* What an exchange has taken and what it may still take are the deadline together.  The
\* main thread, as long as the listener is there, has been in drop no longer than the
\* exchange it waits for; and while it connects, no longer than its connection.
DeadlineHolds ==
  /\ serving = Nobody => deadline = 0 /\ held = 0
  /\ held + deadline <= REQUEST_DEADLINE
  /\ server # "down" => frozen + deadline <= REQUEST_DEADLINE
  /\ main = "free" => frozen = 0
  /\ main = "waking" => frozen + patience <= IO_TIMEOUT
  /\ frozen <= LongestStop

\* How long a fetch has been queued.
Waited(f) == fetch[f].budget - fetch[f].left

\* The time a queued fetch has waited, with the longest that all before it and its own
\* exchange may still take, is within what it could expect when it came.
Promised(f) == (fetch[f].ahead + 1) * REQUEST_DEADLINE

PromiseKept(f) ==
  \/ serving.who = f /\ Waited(f) + deadline <= Promised(f)
  \/ \E i \in DOMAIN queue :
       queue[i].who = f /\ Waited(f) + deadline + i * REQUEST_DEADLINE <= Promised(f)

Promises == \A f \in Fetches : fetch[f].stage = "queued" => PromiseKept(f)

Inv == ListenerType /\ FetchType /\ ListenerWakes /\ DeadlineHolds /\ Promises

--------------------------------------------------------------------------------
(* Facts about the queue, and about times *)

\* What an exchange before it costs.
LEMMA OneMore ==
  ASSUME NEW i \in Nat, NEW r \in Nat
  PROVE  i * r \in Nat /\ (i + 1) * r = i * r + r
OBVIOUS

\* The listener's constants.
LEMMA Deadlines ==
  /\ REQUEST_DEADLINE \in Nat /\ FETCH_TIMEOUT \in Nat /\ REQUEST_DEADLINE > 0
  /\ IO_TIMEOUT \in Nat /\ LongestStop \in Nat
  /\ REQUEST_DEADLINE <= LongestStop /\ IO_TIMEOUT <= LongestStop
BY ConstantsAssumption DEF LongestStop

\* No fetch is the throwaway connection, a stranger's or none.
LEMMA FetchesAreThemselves ==
  \A f \in Fetches : f # Stranger /\ f # Wake /\ f # Nobody.who
BY ConstantsAssumption

\* The connections there are.
LEMMA Connections ==
  /\ \A f \in Fetches : \A ready \in BOOLEAN : [who |-> f, ready |-> ready] \in Connection
  /\ \A ready \in BOOLEAN : [who |-> Stranger, ready |-> ready] \in Connection
  /\ [who |-> Wake, ready |-> TRUE] \in Connection
  /\ \A c \in Connection : [c EXCEPT !.ready = TRUE] \in Connection
  /\ \A c \in Connection : [c EXCEPT !.ready = TRUE].who = c.who
BY DEF Connection, Wake, Stranger

\* One more at the end of the queue.
LEMMA Entering ==
  ASSUME queue \in Seq(Connection), NEW c \in Connection, queue' = Append(queue, c)
  PROVE  /\ queue' \in Seq(Connection) /\ queue' # <<>>
         /\ Len(queue) + 1 \in DOMAIN queue' /\ queue'[Len(queue) + 1] = c
         /\ Len(queue) \in Nat
         /\ \A i \in DOMAIN queue : i \in DOMAIN queue' /\ queue'[i] = queue[i]
<1>1. /\ Append(queue, c) \in Seq(Connection) /\ Len(Append(queue, c)) = Len(queue) + 1
      /\ \A i \in 1 .. Len(queue) : Append(queue, c)[i] = queue[i]
      /\ Append(queue, c)[Len(queue) + 1] = c
  BY AppendProperties
<1>2. Len(queue) \in Nat /\ DOMAIN queue = 1 .. Len(queue)
  BY LenProperties
<1>3. DOMAIN queue' = 1 .. Len(queue) + 1
  BY <1>1, LenProperties
<1>4. queue' # <<>>
  BY <1>1, <1>2, EmptySeq
<1> QED
  BY <1>1, <1>2, <1>3, <1>4

\* The first of the queue leaves it.
LEMMA Leaving ==
  ASSUME NEW s \in Seq(Connection), s # <<>>
  PROVE  /\ Head(s) = s[1] /\ Head(s) \in Connection /\ Tail(s) \in Seq(Connection)
         /\ \A i \in DOMAIN s : i \in Nat /\ i > 0 /\ (i > 1 => i - 1 \in DOMAIN Tail(s)
                                                        /\ Tail(s)[i - 1] = s[i])
<1>1. /\ Head(s) \in Connection /\ Tail(s) \in Seq(Connection)
      /\ Len(Tail(s)) = Len(s) - 1 /\ \A i \in 1 .. Len(Tail(s)) : Tail(s)[i] = s[i + 1]
  BY HeadTailProperties
<1>2. Len(s) \in Nat /\ DOMAIN s = 1 .. Len(s)
  BY LenProperties
<1>3. DOMAIN Tail(s) = 1 .. Len(s) - 1
  BY <1>1, LenProperties
<1>4. Head(s) = s[1]
  OBVIOUS
<1>5. ASSUME NEW i \in DOMAIN s, i > 1
      PROVE  i - 1 \in DOMAIN Tail(s) /\ Tail(s)[i - 1] = s[i]
  <2>1. i \in Nat /\ i - 1 \in 1 .. Len(s) - 1 /\ (i - 1) + 1 = i
    BY <1>2, <1>5
  <2> QED
    BY <1>1, <1>3, <2>1
<1> QED
  BY <1>1, <1>2, <1>4, <1>5

\* Every connection of a queue replaced in its place.
LEMMA Replacing ==
  ASSUME NEW s \in Seq(Connection), NEW t, DOMAIN t = DOMAIN s, t = [i \in DOMAIN s |-> t[i]],
         \A i \in DOMAIN s : t[i] \in Connection
  PROVE  t \in Seq(Connection) /\ (s # <<>> => t # <<>>) /\ (s = <<>> => t = <<>>)
<1>1. Len(s) \in Nat /\ DOMAIN s = 1 .. Len(s)
  BY LenProperties
<1>2. t \in [1 .. Len(s) -> Connection]
  BY <1>1
<1>3. t \in Seq(Connection)
  BY <1>1, <1>2, SeqDef
<1>4. Len(t) = Len(s)
  BY <1>1, <1>3, LenProperties
<1> QED
  BY <1>3, <1>4, EmptySeq

\* Where there is no room there is a connection.
LEMMA FullIsNotEmpty == ~HasRoom => queue # <<>>
BY ConstantsAssumption, EmptySeq DEF HasRoom

\* A promise to a fetch stands while nothing before it grows.
LEMMA PromiseStands ==
  ASSUME ListenerType, FetchType, NEW f \in Fetches, PromiseKept(f), fetch'[f] = fetch[f],
         deadline' \in Nat, deadline' <= deadline,
         serving.who = f => serving'.who = f,
         \A i \in DOMAIN queue : i \in DOMAIN queue' /\ (queue[i].who = f => queue'[i].who = f)
  PROVE  PromiseKept(f)'
<1> DEFINE W == fetch[f].budget - fetch[f].left
           P == (fetch[f].ahead + 1) * REQUEST_DEADLINE
<1>1. W \in Int /\ P \in Int /\ deadline \in Nat
  <2>1. fetch[f].left \in Nat /\ fetch[f].ahead \in Nat /\ fetch[f].budget \in Nat
    BY DEF FetchType
  <2>2. fetch[f].ahead * REQUEST_DEADLINE \in Nat
        /\ P = fetch[f].ahead * REQUEST_DEADLINE + REQUEST_DEADLINE
    BY <2>1, Deadlines, OneMore
  <2>3. W \in Int
    BY <2>1
  <2>4. P \in Int
    <3> DEFINE before == fetch[f].ahead * REQUEST_DEADLINE
    <3>1. before \in Nat /\ P = before + REQUEST_DEADLINE
      BY <2>2
    <3> HIDE DEF P, before
    <3> QED
      BY <3>1, Deadlines
  <2>5. deadline \in Nat
    BY DEF ListenerType
  <2> QED
    BY <2>3, <2>4, <2>5
<1>2. CASE serving.who = f /\ W + deadline <= P
  <2>1. W + deadline' <= P
    <3> DEFINE left == deadline'
    <3>1. left \in Nat /\ left <= deadline
      OBVIOUS
    <3> HIDE DEF W, P, left
    <3>2. W + left <= P
      BY <1>1, <1>2, <3>1
    <3> QED
      BY <3>2 DEF left
  <2> QED
    BY <1>2, <2>1 DEF PromiseKept, Waited, Promised
<1>3. ASSUME NEW i \in DOMAIN queue, queue[i].who = f, W + deadline + i * REQUEST_DEADLINE <= P
      PROVE  PromiseKept(f)'
  <2>1. i \in Nat /\ i * REQUEST_DEADLINE \in Nat
    BY LenProperties, Deadlines, OneMore DEF ListenerType
  <2>2. W + deadline' + i * REQUEST_DEADLINE <= P
    <3> DEFINE iR == i * REQUEST_DEADLINE
               left == deadline'
    <3>1. iR \in Nat /\ W + deadline + iR <= P /\ left \in Nat /\ left <= deadline
      BY <1>3, <2>1
    <3> HIDE DEF W, P, iR, left
    <3>2. W + left + iR <= P
      BY <1>1, <3>1
    <3> QED
      BY <3>2 DEF iR, left
  <2> QED
    BY <1>3, <2>2 DEF PromiseKept, Waited, Promised
<1> QED
  BY <1>2, <1>3 DEF PromiseKept, Waited, Promised

\* So do all promises, when none is made and nothing before a queued fetch grows.
LEMMA PromisesStand ==
  ASSUME Inv,
         \A f \in Fetches : fetch'[f].stage = "queued" => fetch'[f] = fetch[f],
         deadline' \in Nat, deadline' <= deadline,
         \A f \in Fetches : fetch'[f].stage = "queued" =>
           /\ serving.who = f => serving'.who = f
           /\ \A i \in DOMAIN queue :
                i \in DOMAIN queue' /\ (queue[i].who = f => queue'[i].who = f)
  PROVE  Promises'
<1> SUFFICES ASSUME NEW f \in Fetches, fetch'[f].stage = "queued"
             PROVE  PromiseKept(f)'
  BY DEF Promises
<1>1. fetch'[f] = fetch[f] /\ fetch[f].stage = "queued"
  OBVIOUS
<1>2. PromiseKept(f) /\ ListenerType /\ FetchType
  BY <1>1 DEF Inv, Promises
<1> QED
  BY <1>1, <1>2, PromiseStands

\* A fetch that waits for nothing has its times.
LEMMA IdleTimes ==
  /\ Times \subseteq DOMAIN Idle /\ Idle.left = 0 /\ Idle.ahead = 0 /\ Idle.budget = 0
  /\ Times \subseteq DOMAIN Offline /\ Offline.left = 0 /\ Offline.ahead = 0
  /\ Offline.budget = 0 /\ Offline.stage = "offline"
BY DEF Idle, Offline, Times

\* It may have been reset: all others are as they were.
LEMMA ResetFetches ==
  ASSUME FetchType, NEW dropped, Reset(dropped)
  PROVE  /\ FetchType'
         /\ \A f \in Fetches : fetch'[f].stage = "queued" =>
              fetch'[f] = fetch[f] /\ \A c \in dropped : c.who # f
<1>1. DOMAIN fetch' = Fetches
      /\ \A f \in Fetches : \/ fetch'[f] = Offline
                            \/ fetch'[f] = fetch[f] /\ \A c \in dropped : c.who # f
  BY DEF Reset
<1> QED
  BY <1>1, IdleTimes DEF FetchType

--------------------------------------------------------------------------------
(* The invariant, action by action *)

\* The invariant holds at first.
LEMMA InitInv == Init => Inv
BY Deadlines, IdleTimes, EmptySeq
DEF Init, Inv, ListenerType, FetchType, ListenerWakes, DeadlineHolds, Promises, Idle

\* A stranger is after everyone in the queue.
LEMMA StrangerConnectsKeepsInv == Inv /\ StrangerConnects => Inv'
<1> SUFFICES ASSUME Inv, StrangerConnects PROVE Inv'
  OBVIOUS
<1> USE DEF Inv
<1>1. PICK ready \in BOOLEAN : queue' = Append(queue, [who |-> Stranger, ready |-> ready])
  BY DEF StrangerConnects, Enter
<1>2. /\ queue' \in Seq(Connection) /\ queue' # <<>>
      /\ \A i \in DOMAIN queue : i \in DOMAIN queue' /\ queue'[i] = queue[i]
  BY <1>1, Connections, Entering DEF ListenerType
<1>3. UNCHANGED <<server, serving, deadline, sampled, held, main, patience, frozen, fetch>> /\ server # "down"
  BY DEF StrangerConnects, stop
<1>4. ListenerType' /\ FetchType' /\ ListenerWakes' /\ DeadlineHolds'
  BY <1>2, <1>3 DEF ListenerType, FetchType, ListenerWakes, DeadlineHolds
<1>5. deadline' \in Nat /\ deadline' <= deadline
  BY <1>3 DEF ListenerType
<1>6. Promises'
  BY <1>2, <1>3, <1>5, PromisesStand
<1> QED
  BY <1>4, <1>6

\* A fetch that begins is not queued.
LEMMA AskKeepsInv == ASSUME Inv, NEW f \in Fetches, Ask(f) PROVE Inv'
<1> USE DEF Inv
<1> DEFINE asks == [Idle EXCEPT !.stage = "connecting", !.left = FETCH_TIMEOUT]
<1>1. /\ fetch' = [fetch EXCEPT ![f] = asks]
      /\ UNCHANGED <<server, queue, serving, deadline, sampled, held, main, patience, frozen>>
  BY DEF Ask, listener, stop
<1>2. /\ Times \subseteq DOMAIN asks /\ asks.stage = "connecting"
      /\ asks.left = FETCH_TIMEOUT /\ asks.ahead = 0 /\ asks.budget = 0
  BY DEF Idle, Times
<1> HIDE DEF asks
<1>3. FetchType'
  BY <1>1, <1>2, Deadlines DEF FetchType
<1>4. ListenerType' /\ ListenerWakes' /\ DeadlineHolds'
  BY <1>1 DEF ListenerType, ListenerWakes, DeadlineHolds
<1>5. deadline' \in Nat /\ deadline' <= deadline
  BY <1>1 DEF ListenerType
<1>6. \A g \in Fetches : fetch'[g].stage = "queued" => fetch'[g] = fetch[g]
  BY <1>1, <1>2 DEF FetchType
<1>7. Promises'
  BY <1>1, <1>5, <1>6, PromisesStand
<1> QED
  BY <1>3, <1>4, <1>7

\* A fetch that fails without a listener, or is answered by another program.
LEMMA NotConnectedKeepsInv == ASSUME Inv, NEW f \in Fetches, NotConnected(f) PROVE Inv'
<1> USE DEF Inv
<1>1. UNCHANGED <<server, queue, serving, deadline, sampled, held, main, patience, frozen>>
  BY DEF NotConnected, listener, stop
<1>2. /\ FetchType'
      /\ \A g \in Fetches : fetch'[g].stage = "queued" => fetch'[g] = fetch[g]
  <2>1. CASE fetch' = [fetch EXCEPT ![f] = Offline]
    BY <2>1, IdleTimes DEF FetchType
  <2>2. ASSUME NEW answer,
               fetch' = [fetch EXCEPT ![f].stage = "answered", ![f].answer = answer]
        PROVE  /\ FetchType'
               /\ \A g \in Fetches : fetch'[g].stage = "queued" => fetch'[g] = fetch[g]
    <3>1. /\ fetch'[f] = [fetch[f] EXCEPT !.stage = "answered", !.answer = answer]
          /\ DOMAIN fetch' = Fetches
          /\ \A g \in Fetches : g # f => fetch'[g] = fetch[g]
      BY <2>2 DEF FetchType
    <3>2. Times \subseteq DOMAIN fetch[f]
      BY DEF FetchType
    <3>3. /\ Times \subseteq DOMAIN fetch'[f] /\ fetch'[f].stage = "answered"
          /\ fetch'[f].left = fetch[f].left /\ fetch'[f].ahead = fetch[f].ahead
          /\ fetch'[f].budget = fetch[f].budget
      BY <3>1, <3>2 DEF Times
    <3> QED
      BY <3>1, <3>3 DEF FetchType
  <2> QED
    BY <2>1, <2>2 DEF NotConnected
<1>3. ListenerType' /\ ListenerWakes' /\ DeadlineHolds'
  BY <1>1 DEF ListenerType, ListenerWakes, DeadlineHolds
<1>4. deadline' \in Nat /\ deadline' <= deadline
  BY <1>1 DEF ListenerType
<1>5. Promises'
  BY <1>1, <1>2, <1>4, PromisesStand
<1> QED
  BY <1>2, <1>3, <1>5

\* What has arrived of a request changes nobody's place.
LEMMA RequestArrivesKeepsInv == Inv /\ RequestArrives => Inv'
<1> SUFFICES ASSUME Inv, RequestArrives PROVE Inv'
  OBVIOUS
<1> USE DEF Inv
<1>1. UNCHANGED <<server, deadline, sampled, held, main, patience, frozen, fetch>>
  BY DEF RequestArrives, stop
<1>2. /\ queue' \in Seq(Connection) /\ (queue = <<>> <=> queue' = <<>>)
      /\ \A i \in DOMAIN queue : i \in DOMAIN queue' /\ queue'[i].who = queue[i].who
      /\ serving' \in Connection \union {Nobody} /\ (serving' = Nobody <=> serving = Nobody)
      /\ serving'.who = serving.who
  <2>1. ASSUME NEW i \in DOMAIN queue, queue' = [queue EXCEPT ![i].ready = TRUE]
        PROVE  /\ queue' \in Seq(Connection) /\ (queue = <<>> <=> queue' = <<>>)
               /\ \A j \in DOMAIN queue : j \in DOMAIN queue' /\ queue'[j].who = queue[j].who
    <3>1. \A j \in DOMAIN queue : queue[j] \in Connection
      BY ElementOfSeq, LenProperties DEF ListenerType
    <3>2. DOMAIN queue' = DOMAIN queue /\ queue' = [j \in DOMAIN queue |-> queue'[j]]
      BY <2>1
    <3>3. \A j \in DOMAIN queue :
            queue'[j] = IF j = i THEN [queue[j] EXCEPT !.ready = TRUE] ELSE queue[j]
      BY <2>1
    <3>4. \A j \in DOMAIN queue : queue'[j] \in Connection /\ queue'[j].who = queue[j].who
      BY <3>1, <3>3, Connections
    <3>5. queue \in Seq(Connection)
      BY DEF ListenerType
    <3> DEFINE t == queue'
    <3>6. DOMAIN t = DOMAIN queue /\ t = [j \in DOMAIN queue |-> t[j]]
          /\ \A j \in DOMAIN queue : t[j] \in Connection
      BY <3>2, <3>4
    <3> HIDE DEF t
    <3>7. t \in Seq(Connection) /\ (queue # <<>> => t # <<>>) /\ (queue = <<>> => t = <<>>)
      BY <3>5, <3>6, Replacing
    <3> QED
      BY <3>2, <3>4, <3>7 DEF t
  <2>2. CASE serving # Nobody /\ serving' = [serving EXCEPT !.ready = TRUE] /\ queue' = queue
    <3>1. serving \in Connection
      BY <2>2 DEF ListenerType
    <3>2. serving' \in Connection /\ serving'.who = serving.who
      BY <2>2, <3>1, Connections
    <3>3. \A c \in Connection : c # Nobody
      BY FetchesAreThemselves DEF Connection, Nobody, Stranger, Wake
    <3> QED
      BY <2>2, <3>2, <3>3 DEF ListenerType
  <2> QED
    BY <2>1, <2>2 DEF RequestArrives, ListenerType
<1>3. ListenerType' /\ FetchType' /\ ListenerWakes' /\ DeadlineHolds'
  BY <1>1, <1>2 DEF ListenerType, FetchType, ListenerWakes, DeadlineHolds
<1>4. deadline' \in Nat /\ deadline' <= deadline
  BY <1>1 DEF ListenerType
<1>5. Promises'
  BY <1>1, <1>2, <1>4, PromisesStand
<1> QED
  BY <1>3, <1>5

\* Dripping bytes does not put the deadline off: it is the exchange's, not the read's.
LEMMA DripKeepsInv == Inv /\ Drip => Inv'
<1> SUFFICES ASSUME Inv, Drip PROVE Inv'
  OBVIOUS
<1> USE DEF Inv
<1>1. UNCHANGED <<server, queue, serving, deadline, sampled, held, main, patience, frozen, fetch>>
  BY DEF Drip, RemainsAfterRead, stop
<1> QED
  BY <1>1 DEF ListenerType, FetchType, ListenerWakes, DeadlineHolds, Promises, PromiseKept,
              Waited, Promised

\* A listener that starts has nobody yet.
LEMMA StartKeepsInv == Inv /\ Start => Inv'
<1> SUFFICES ASSUME Inv, Start PROVE Inv'
  OBVIOUS
<1> USE DEF Inv
<1>1. /\ UNCHANGED <<queue, serving, deadline, sampled, held, main, patience, frozen, fetch>>
      /\ server = "down" /\ server' = "up" /\ main = "free"
      /\ serving = Nobody /\ deadline = 0 /\ frozen = 0
  BY DEF Start, stop, ListenerWakes, DeadlineHolds
<1>2. ListenerType' /\ FetchType' /\ ListenerWakes' /\ DeadlineHolds'
  BY <1>1, Deadlines DEF ListenerType, FetchType, ListenerWakes, DeadlineHolds
<1>3. deadline' \in Nat /\ deadline' <= deadline
  BY <1>1 DEF ListenerType
<1>4. Promises'
  BY <1>1, <1>3, PromisesStand
<1> QED
  BY <1>2, <1>4

\* One that is told to stop goes on with the exchange it has.
LEMMA StopKeepsInv == Inv /\ Stop => Inv'
<1> SUFFICES ASSUME Inv, Stop PROVE Inv'
  OBVIOUS
<1> USE DEF Inv
<1>1. /\ UNCHANGED <<queue, serving, deadline, sampled, held, frozen, fetch>>
      /\ server = "up" /\ server' = "stopping"
      /\ main' = "waking" /\ patience' = IO_TIMEOUT
  BY DEF Stop, WakeTimeout
<1>2. frozen = 0
  BY <1>1 DEF ListenerWakes, DeadlineHolds
<1>3. ListenerType' /\ FetchType' /\ ListenerWakes' /\ DeadlineHolds'
  BY <1>1, <1>2, Deadlines DEF ListenerType, FetchType, ListenerWakes, DeadlineHolds
<1>4. deadline' \in Nat /\ deadline' <= deadline
  BY <1>1 DEF ListenerType
<1>5. Promises'
  BY <1>1, <1>4, PromisesStand
<1> QED
  BY <1>3, <1>5

\* The waking connection is behind all who are queued; where there is no room for it,
\* they are there to wake the listener.
LEMMA WokenKeepsInv == Inv /\ Woken => Inv'
<1> SUFFICES ASSUME Inv, Woken PROVE Inv'
  OBVIOUS
<1> USE DEF Inv
<1>1. /\ UNCHANGED <<server, serving, deadline, sampled, held, frozen, fetch>>
      /\ main = "waking" /\ main' = "joining" /\ patience' = 0
  BY DEF Woken
<1>2. /\ queue' \in Seq(Connection) /\ (server = "stopping" => queue' # <<>>)
      /\ (server # "stopping" => queue' = queue)
      /\ \A i \in DOMAIN queue : i \in DOMAIN queue' /\ queue'[i] = queue[i]
  <2>1. CASE server = "stopping" /\ HasRoom
    <3>1. queue' = Append(queue, [who |-> Wake, ready |-> TRUE])
      BY <2>1 DEF Woken, Enter
    <3> QED
      BY <2>1, <3>1, Connections, Entering DEF ListenerType
  <2>2. CASE ~(server = "stopping" /\ HasRoom)
    <3>1. queue' = queue /\ queue \in Seq(Connection)
      BY <2>2 DEF Woken, ListenerType
    <3>2. ~HasRoom => queue # <<>>
      BY FullIsNotEmpty
    <3> QED
      BY <2>2, <3>1, <3>2
  <2> QED
    BY <2>1, <2>2
<1>3. server # "up"
  BY <1>1 DEF ListenerWakes
<1>4. ListenerType' /\ FetchType' /\ ListenerWakes' /\ DeadlineHolds'
  BY <1>1, <1>2, <1>3, Deadlines DEF ListenerType, FetchType, ListenerWakes, DeadlineHolds
<1>5. deadline' \in Nat /\ deadline' <= deadline
  BY <1>1 DEF ListenerType
<1>6. Promises'
  BY <1>1, <1>2, <1>5, PromisesStand
<1> QED
  BY <1>4, <1>6

\* drop returns with no listener left.
LEMMA JoinedKeepsInv == Inv /\ Joined => Inv'
<1> SUFFICES ASSUME Inv, Joined PROVE Inv'
  OBVIOUS
<1> USE DEF Inv
<1>1. /\ UNCHANGED <<server, queue, serving, deadline, sampled, held, patience, fetch>>
      /\ server = "down" /\ main' = "free" /\ frozen' = 0
  BY DEF Joined, listener
<1>2. ListenerType' /\ FetchType' /\ ListenerWakes' /\ DeadlineHolds'
  BY <1>1, Deadlines DEF ListenerType, FetchType, ListenerWakes, DeadlineHolds
<1>3. deadline' \in Nat /\ deadline' <= deadline
  BY <1>1 DEF ListenerType
<1>4. Promises'
  BY <1>1, <1>3, PromisesStand
<1> QED
  BY <1>2, <1>4

\* A process that ends resets whoever it had.
LEMMA ExitKeepsInv == Inv /\ Exit => Inv'
<1> SUFFICES ASSUME Inv, Exit PROVE Inv'
  OBVIOUS
<1> USE DEF Inv
<1>1. /\ server' = "down" /\ queue' = <<>> /\ serving' = Nobody
      /\ deadline' = 0 /\ held' = 0
      /\ main' = "free" /\ patience' = 0 /\ frozen' = 0
      /\ Reset(Queued \union {serving})
  BY DEF Exit
<1>2. /\ FetchType'
      /\ \A f \in Fetches : fetch'[f].stage = "queued" =>
           fetch'[f] = fetch[f] /\ \A c \in Queued \union {serving} : c.who # f
  BY <1>1, ResetFetches
<1>3. \A f \in Fetches : fetch'[f].stage # "queued"
  <2> SUFFICES ASSUME NEW f \in Fetches, fetch'[f].stage = "queued" PROVE FALSE
    OBVIOUS
  <2>1. fetch[f].stage = "queued" /\ serving.who # f /\ \A i \in DOMAIN queue : queue[i].who # f
    BY <1>2 DEF Queued
  <2> QED
    BY <2>1 DEF Promises, PromiseKept
<1>4. ListenerType' /\ ListenerWakes' /\ DeadlineHolds'
  BY <1>1, Deadlines, EmptySeq DEF ListenerType, ListenerWakes, DeadlineHolds
<1> QED
  BY <1>2, <1>3, <1>4 DEF Promises

\* The answer that ends, whole or cut, is nobody's turn any more.
LEMMA AnswerEndsKeepsInv == ASSUME Inv, NEW f \in Fetches, AnswerEnds(f) PROVE Inv'
<1> USE DEF Inv
<1>1. UNCHANGED <<server, queue, serving, deadline, sampled, held, main, patience, frozen>>
  BY DEF AnswerEnds, listener, stop
<1>2. PICK n \in 0 .. Len(fetch[f].answer) :
        fetch' = [fetch EXCEPT
                    ![f].stage = IF TooLong(n) THEN "offline" ELSE "done",
                    ![f].left = 0, ![f].answer = <<>>,
                    ![f].whole = (n = Len(fetch[f].answer)),
                    ![f].result = IF TooLong(n) THEN NoReading
                                  ELSE ParseResponse(SubSeq(fetch[f].answer, 1, n))]
  BY DEF AnswerEnds
<1> DEFINE end == IF TooLong(n) THEN "offline" ELSE "done"
           whole == (n = Len(fetch[f].answer))
           result == IF TooLong(n) THEN NoReading
                     ELSE ParseResponse(SubSeq(fetch[f].answer, 1, n))
<1>3. end # "queued"
  OBVIOUS
<1> HIDE DEF end, whole, result
<1>4. /\ DOMAIN fetch' = Fetches
      /\ \A g \in Fetches : g # f => fetch'[g] = fetch[g]
      /\ fetch'[f] = [fetch[f] EXCEPT !.stage = end, !.left = 0, !.answer = <<>>,
                                      !.whole = whole, !.result = result]
  BY <1>2 DEF FetchType, end, whole, result
<1>5. /\ Times \subseteq DOMAIN fetch'[f] /\ fetch'[f].stage = end
      /\ fetch'[f].left = 0 /\ fetch'[f].ahead = fetch[f].ahead
      /\ fetch'[f].budget = fetch[f].budget
  <2>1. Times \subseteq DOMAIN fetch[f]
    BY DEF FetchType
  <2> QED
    BY <1>4, <2>1 DEF Times
<1>6. FetchType'
  <2>1. ASSUME NEW g \in Fetches
        PROVE  /\ Times \subseteq DOMAIN fetch'[g]
               /\ fetch'[g].left \in Nat /\ fetch'[g].ahead \in Nat /\ fetch'[g].budget \in Nat
    <3>1. CASE g = f
      BY <1>5, <3>1 DEF FetchType
    <3>2. CASE g # f
      <4>1. fetch'[g] = fetch[g]
        BY <1>4, <3>2
      <4> QED
        BY <4>1 DEF FetchType
    <3> QED
      BY <3>1, <3>2
  <2> QED
    BY <1>4, <2>1 DEF FetchType
<1>7. \A g \in Fetches : fetch'[g].stage = "queued" => fetch'[g] = fetch[g]
  BY <1>3, <1>4, <1>5
<1>8. ListenerType' /\ ListenerWakes' /\ DeadlineHolds'
  BY <1>1 DEF ListenerType, ListenerWakes, DeadlineHolds
<1>9. deadline' \in Nat /\ deadline' <= deadline
  BY <1>1 DEF ListenerType
<1>10. Promises'
  BY <1>1, <1>7, <1>9, PromisesStand
<1> QED
  BY <1>6, <1>8, <1>10

\* A fetch that gives up leaves its place taken, by nobody's connection.
LEMMA FetchFailsKeepsInv == ASSUME Inv, NEW f \in Fetches, FetchFails(f) PROVE Inv'
<1> USE DEF Inv
<1> DEFINE gone == [who |-> Stranger, ready |-> TRUE]
           closed(c) == IF c.who = f THEN gone ELSE c
           rest == [i \in DOMAIN queue |-> closed(queue[i])]
<1>1. /\ UNCHANGED <<server, deadline, sampled, held, main, patience, frozen>>
      /\ fetch' = [fetch EXCEPT ![f] = Offline]
      /\ queue' = rest /\ serving' = closed(serving)
  BY DEF FetchFails, stop
<1>2. /\ gone \in Connection
      /\ \A g \in Fetches : Nobody.who # g
      /\ \A c \in Connection : c # Nobody
  BY Connections, FetchesAreThemselves DEF Connection, Nobody, Stranger, Wake
<1>3. /\ rest \in Seq(Connection) /\ (queue # <<>> => rest # <<>>)
      /\ (queue = <<>> => rest = <<>>)
  <2>1. queue \in Seq(Connection) /\ \A i \in DOMAIN queue : queue[i] \in Connection
    BY ElementOfSeq, LenProperties DEF ListenerType
  <2>2. DOMAIN rest = DOMAIN queue /\ \A i \in DOMAIN queue : rest[i] \in Connection
    BY <1>2, <2>1
  <2>3. rest = [i \in DOMAIN queue |-> rest[i]]
    OBVIOUS
  <2> HIDE DEF rest
  <2> QED
    BY <2>1, <2>2, <2>3, Replacing
<1>4. /\ serving' \in Connection \union {Nobody} /\ (serving' = Nobody <=> serving = Nobody)
      /\ \A g \in Fetches : g # f /\ serving.who = g => serving'.who = g
  BY <1>1, <1>2 DEF ListenerType
<1>5. /\ FetchType'
      /\ \A g \in Fetches : fetch'[g].stage = "queued" => fetch'[g] = fetch[g] /\ g # f
  BY <1>1, IdleTimes DEF FetchType
<1>6. ListenerType' /\ ListenerWakes' /\ DeadlineHolds'
  <2> HIDE DEF rest, closed
  <2> QED
    BY <1>1, <1>3, <1>4 DEF ListenerType, ListenerWakes, DeadlineHolds
<1>7. \A g \in Fetches : g # f =>
        \A i \in DOMAIN queue : i \in DOMAIN queue' /\ (queue[i].who = g => queue'[i].who = g)
  BY <1>1
<1>8. deadline' \in Nat /\ deadline' <= deadline
  BY <1>1 DEF ListenerType
<1>9. Promises'
  <2> HIDE DEF rest, closed
  <2> QED
    BY <1>4, <1>5, <1>7, <1>8, PromisesStand
<1> QED
  BY <1>5, <1>6, <1>9

\* A fetch that enters the queue finds what it is promised before it.
LEMMA ConnectedKeepsInv == ASSUME Inv, NEW f \in Fetches, Connected(f) PROVE Inv'
<1> USE DEF Inv
<1>1. PICK ready \in BOOLEAN : queue' = Append(queue, [who |-> f, ready |-> ready])
  BY DEF Connected, Enter
<1> DEFINE place == Len(queue) + 1
<1>2. /\ queue' \in Seq(Connection) /\ queue' # <<>> /\ Len(queue) \in Nat
      /\ place \in DOMAIN queue' /\ queue'[place].who = f
      /\ \A i \in DOMAIN queue : i \in DOMAIN queue' /\ queue'[i] = queue[i]
  BY <1>1, Connections, Entering DEF ListenerType
<1>3. /\ UNCHANGED <<server, serving, deadline, sampled, held, main, patience, frozen>> /\ server # "down"
      /\ fetch' = [fetch EXCEPT ![f].stage = "queued", ![f].ahead = Len(queue) + Occupied,
                                ![f].budget = fetch[f].left]
  BY DEF Connected, stop
<1>4. /\ DOMAIN fetch' = Fetches
      /\ \A g \in Fetches : g # f => fetch'[g] = fetch[g]
      /\ fetch'[f] = [fetch[f] EXCEPT !.stage = "queued", !.ahead = Len(queue) + Occupied,
                                      !.budget = fetch[f].left]
  BY <1>3 DEF FetchType
<1>5. /\ Times \subseteq DOMAIN fetch'[f]
      /\ fetch'[f].left = fetch[f].left /\ fetch'[f].ahead = Len(queue) + Occupied
      /\ fetch'[f].budget = fetch[f].left
  <2>1. Times \subseteq DOMAIN fetch[f]
    BY DEF FetchType
  <2> QED
    BY <1>4, <2>1 DEF Times
<1>6. Occupied \in Nat /\ fetch[f].left \in Nat
  BY DEF Occupied, FetchType
<1>7. FetchType'
  <2>1. ASSUME NEW g \in Fetches
        PROVE  /\ Times \subseteq DOMAIN fetch'[g]
               /\ fetch'[g].left \in Nat /\ fetch'[g].ahead \in Nat /\ fetch'[g].budget \in Nat
    <3>1. CASE g = f
      BY <1>2, <1>5, <1>6, <3>1
    <3>2. CASE g # f
      <4>1. fetch'[g] = fetch[g]
        BY <1>4, <3>2
      <4> QED
        BY <4>1 DEF FetchType
    <3> QED
      BY <3>1, <3>2
  <2> QED
    BY <1>4, <2>1 DEF FetchType
<1>8. ListenerType' /\ ListenerWakes' /\ DeadlineHolds'
  BY <1>2, <1>3 DEF ListenerType, ListenerWakes, DeadlineHolds
<1>9. PromiseKept(f)'
  <2> DEFINE cost == place * REQUEST_DEADLINE
             owed == (Len(queue) + Occupied + 1) * REQUEST_DEADLINE
  <2>1. cost \in Nat /\ deadline \in Nat /\ deadline + cost <= owed /\ owed \in Nat
    <3>1. place \in Nat /\ cost \in Nat /\ deadline \in Nat
      BY <1>2, Deadlines, OneMore DEF ListenerType
    <3>2. CASE serving = Nobody
      BY <1>2, <3>1, <3>2 DEF Occupied, DeadlineHolds
    <3>3. CASE serving # Nobody
      <4>1. owed = (place + 1) * REQUEST_DEADLINE
        BY <1>2, <3>3 DEF Occupied
      <4>2. owed = cost + REQUEST_DEADLINE
        BY <3>1, <4>1, Deadlines, OneMore
      <4>3. deadline <= REQUEST_DEADLINE
        BY Deadlines DEF DeadlineHolds, ListenerType
      <4> HIDE DEF cost, owed
      <4> QED
        BY <3>1, <4>2, <4>3, Deadlines
    <3> QED
      BY <3>2, <3>3
  <2>2. Waited(f)' = 0 /\ Promised(f)' = owed /\ deadline' = deadline
    <3>1. fetch'[f].budget - fetch'[f].left = 0
      BY <1>5, <1>6
    <3>2. (fetch'[f].ahead + 1) * REQUEST_DEADLINE = owed
      BY <1>5
    <3> QED
      BY <1>3, <3>1, <3>2 DEF Waited, Promised
  <2>3. Waited(f)' + deadline' + place * REQUEST_DEADLINE <= Promised(f)'
    BY <2>1, <2>2
  <2> QED
    BY <1>2, <2>3 DEF PromiseKept
<1>10. ASSUME NEW g \in Fetches, g # f, fetch'[g].stage = "queued"
       PROVE  PromiseKept(g)'
  <2>1. fetch'[g] = fetch[g] /\ PromiseKept(g)
    BY <1>4, <1>10 DEF Promises
  <2>2. deadline' \in Nat /\ deadline' <= deadline /\ serving' = serving
    BY <1>3 DEF ListenerType
  <2> QED
    BY <1>2, <2>1, <2>2, PromiseStands
<1> QED
  BY <1>7, <1>8, <1>9, <1>10 DEF Promises

\* The connection at the head of the queue has the listener: everyone behind it is one
\* place further, and has its deadline before them instead of the place.
LEMMA AcceptKeepsInv == Inv /\ Accept => Inv'
<1> SUFFICES ASSUME Inv, Accept PROVE Inv'
  OBVIOUS
<1> USE DEF Inv
<1>1. /\ server # "down" /\ serving = Nobody /\ queue # <<>> /\ queue \in Seq(Connection)
      /\ deadline = 0 /\ held = 0
  BY DEF Accept, ListenerType, DeadlineHolds
<1>2. CASE server = "stopping"
  <2>1. /\ server' = "down" /\ queue' = <<>> /\ Reset(Queued)
        /\ UNCHANGED <<serving, deadline, sampled, held, main, patience, frozen>>
    BY <1>2 DEF Accept, stop
  <2>2. /\ FetchType'
        /\ \A f \in Fetches : fetch'[f].stage = "queued" =>
             fetch'[f] = fetch[f] /\ \A c \in Queued : c.who # f
    BY <2>1, ResetFetches
  <2>3. \A f \in Fetches : fetch'[f].stage # "queued"
    <3> SUFFICES ASSUME NEW f \in Fetches, fetch'[f].stage = "queued" PROVE FALSE
      OBVIOUS
    <3>1. fetch[f].stage = "queued" /\ \A i \in DOMAIN queue : queue[i].who # f
      BY <2>2 DEF Queued
    <3>2. serving.who # f
      BY <1>1, FetchesAreThemselves
    <3> QED
      BY <3>1, <3>2 DEF Promises, PromiseKept
  <2>4. ListenerType' /\ ListenerWakes' /\ DeadlineHolds'
    BY <1>1, <2>1, Deadlines, EmptySeq DEF ListenerType, ListenerWakes, DeadlineHolds
  <2> QED
    BY <2>2, <2>3, <2>4 DEF Promises
<1>3. CASE server # "stopping"
  <2>1. /\ serving' = Head(queue) /\ queue' = Tail(queue)
        /\ deadline' = REQUEST_DEADLINE /\ held' = 0
        /\ UNCHANGED <<server, main, patience, frozen, fetch>>
    BY <1>3 DEF Accept, TimeToAnswer, stop
  <2>2. /\ queue[1] \in Connection /\ serving' = queue[1] /\ queue' \in Seq(Connection)
        /\ \A i \in DOMAIN queue : i \in Nat /\ i > 0 /\ (i > 1 => i - 1 \in DOMAIN queue'
                                                        /\ queue'[i - 1] = queue[i])
    BY <1>1, <2>1, Leaving
  <2>3. serving' # Nobody
    BY <2>2, FetchesAreThemselves DEF Connection, Nobody, Stranger, Wake
  <2>4. server = "up" /\ main = "free" /\ frozen = 0
    BY <1>1, <1>3 DEF ListenerType, ListenerWakes, DeadlineHolds
  <2>5. ListenerType' /\ FetchType' /\ ListenerWakes' /\ DeadlineHolds'
    BY <1>1, <1>3, <2>1, <2>2, <2>3, <2>4, Deadlines
    DEF ListenerType, FetchType, ListenerWakes, DeadlineHolds
  <2>6. ASSUME NEW f \in Fetches, fetch[f].stage = "queued" PROVE PromiseKept(f)'
    <3> DEFINE W == fetch[f].budget - fetch[f].left
               P == (fetch[f].ahead + 1) * REQUEST_DEADLINE
    <3>1. W \in Int /\ P \in Int
      <4>1. fetch[f].left \in Nat /\ fetch[f].ahead \in Nat /\ fetch[f].budget \in Nat
        BY DEF FetchType
      <4>2. P = fetch[f].ahead * REQUEST_DEADLINE + REQUEST_DEADLINE
            /\ fetch[f].ahead * REQUEST_DEADLINE \in Nat
        BY <4>1, Deadlines, OneMore
      <4> QED
        BY <4>1, <4>2, Deadlines
    <3>2. Waited(f)' = W /\ Promised(f)' = P
      BY <2>1 DEF Waited, Promised
    <3>3. PICK i \in DOMAIN queue :
            queue[i].who = f /\ W + deadline + i * REQUEST_DEADLINE <= P
      BY <1>1, <2>6, FetchesAreThemselves DEF Promises, PromiseKept, Waited, Promised
    <3>4. i \in Nat /\ i > 0
      BY <2>2
    <3>5. CASE i = 1
      <4>1. W + REQUEST_DEADLINE <= P
        <5> HIDE DEF W, P
        <5> QED
          BY <1>1, <3>1, <3>3, <3>5, Deadlines
      <4>2. serving'.who = f /\ Waited(f)' + deadline' <= Promised(f)'
        BY <2>1, <2>2, <3>2, <3>3, <3>5, <4>1
      <4> QED
        BY <4>2 DEF PromiseKept
    <3>6. CASE i > 1
      <4> DEFINE cost == (i - 1) * REQUEST_DEADLINE
      <4>1. cost \in Nat /\ i * REQUEST_DEADLINE = cost + REQUEST_DEADLINE
        <5>1. i - 1 \in Nat /\ (i - 1) + 1 = i
          BY <3>4
        <5> QED
          BY <5>1, Deadlines, OneMore
      <4>2. W + REQUEST_DEADLINE + cost <= P
        <5> HIDE DEF W, P, cost
        <5> QED
          BY <1>1, <3>1, <3>3, <4>1, Deadlines
      <4>3. i - 1 \in DOMAIN queue' /\ queue'[i - 1].who = f
        BY <2>2, <3>3, <3>6
      <4>4. Waited(f)' + deadline' + (i - 1) * REQUEST_DEADLINE <= Promised(f)'
        BY <2>1, <3>2, <4>2
      <4> QED
        BY <4>3, <4>4 DEF PromiseKept
    <3> QED
      BY <3>4, <3>5, <3>6
  <2> QED
    BY <2>1, <2>5, <2>6 DEF Promises
<1> QED
  BY <1>2, <1>3

\* Whoever is answered is out of the way of the others.
LEMMA AnswerKeepsInv == Inv /\ Answer => Inv'
<1> SUFFICES ASSUME Inv, Answer PROVE Inv'
  OBVIOUS
<1> USE DEF Inv
<1> DEFINE answered(f) ==
             [fetch[f] EXCEPT !.stage = "answered", !.answer = Response,
                              !.sent = sampled, !.ahead = 0, !.budget = 0]
<1>1. /\ serving # Nobody /\ serving' = Nobody /\ deadline' = 0 /\ held' = 0
      /\ UNCHANGED <<server, queue, main, patience, frozen>>
      /\ fetch' = [f \in Fetches |-> IF f # serving.who THEN fetch[f] ELSE answered(f)]
  BY DEF Answer, stop
<1>2. ASSUME NEW f \in Fetches
      PROVE  /\ Times \subseteq DOMAIN answered(f) /\ answered(f).stage = "answered"
             /\ answered(f).left = fetch[f].left /\ answered(f).ahead = 0
             /\ answered(f).budget = 0
  <2>1. Times \subseteq DOMAIN fetch[f]
    BY DEF FetchType
  <2> QED
    BY <2>1 DEF Times
<1> HIDE DEF answered
<1>3. FetchType'
  <2>1. ASSUME NEW g \in Fetches
        PROVE  /\ Times \subseteq DOMAIN fetch'[g]
               /\ fetch'[g].left \in Nat /\ fetch'[g].ahead \in Nat /\ fetch'[g].budget \in Nat
    <3>1. fetch'[g] = fetch[g] \/ fetch'[g] = answered(g)
      BY <1>1
    <3> QED
      BY <1>2, <3>1 DEF FetchType
  <2> QED
    BY <1>1, <2>1 DEF FetchType
<1>4. \A f \in Fetches : fetch'[f].stage = "queued" => fetch'[f] = fetch[f] /\ serving.who # f
  BY <1>1, <1>2
<1>5. (server # "down" => frozen + 0 <= REQUEST_DEADLINE) /\ deadline \in Nat
  BY Deadlines DEF ListenerType, DeadlineHolds
<1>6. ListenerType' /\ ListenerWakes' /\ DeadlineHolds'
  BY <1>1, <1>5, Deadlines DEF ListenerType, ListenerWakes, DeadlineHolds
<1>7. deadline' \in Nat /\ deadline' <= deadline
  BY <1>1, <1>5
<1>8. Promises'
  BY <1>1, <1>4, <1>7, PromisesStand
<1> QED
  BY <1>3, <1>6, <1>8

\* Time passes only where an exchange has some left, and then it is that exchange's: the
\* wait of all behind it, and of the main thread, grows by what its deadline loses.
LEMMA TimePassesKeepsInv == Inv /\ TimePasses => Inv'
<1> SUFFICES ASSUME Inv, TimePasses PROVE Inv'
  OBVIOUS
<1> USE DEF Inv
<1>1. /\ ~Urgent /\ UNCHANGED <<server, main, queue, serving, sampled>>
      /\ deadline' = IF deadline > 0 THEN deadline - 1 ELSE 0
      /\ held' = IF serving = Nobody THEN 0 ELSE Later(held, REQUEST_DEADLINE)
      /\ patience' = IF patience > 0 THEN patience - 1 ELSE 0
      /\ frozen' = IF main = "free" THEN 0 ELSE Later(frozen, LongestStop)
      /\ fetch' = [f \in Fetches |->
                     IF fetch[f].stage \in Waiting THEN [fetch[f] EXCEPT !.left = @ - 1]
                     ELSE fetch[f]]
  BY DEF TimePasses
<1>2. /\ deadline \in Nat /\ held \in Nat /\ frozen \in Nat
      /\ patience \in Nat /\ patience <= IO_TIMEOUT
  BY Deadlines DEF ListenerType
<1>3. /\ serving # Nobody => deadline > 0
      /\ queue # <<>> => serving # Nobody
      /\ \A f \in Fetches : fetch[f].stage \in Waiting => fetch[f].left > 0
  <2>1. ~(serving # Nobody /\ (serving.ready \/ deadline = 0))
    BY <1>1 DEF Urgent
  <2>2. ~(server # "down" /\ serving = Nobody /\ queue # <<>>)
    BY <1>1 DEF Urgent
  <2>3. \A f \in Fetches : ~(fetch[f].stage \in Waiting /\ fetch[f].left = 0)
    BY <1>1 DEF Urgent
  <2>4. server = "down" => queue = <<>>
    BY DEF ListenerWakes
  <2>5. \A f \in Fetches : fetch[f].left \in Nat
    BY DEF FetchType
  <2> QED
    BY <1>2, <2>1, <2>2, <2>3, <2>4, <2>5
<1>4. deadline' \in Nat /\ (serving # Nobody => deadline' = deadline - 1)
      /\ (serving = Nobody => deadline' = 0)
  BY <1>1, <1>2, <1>3 DEF DeadlineHolds
<1>5. DeadlineHolds'
  <2>1. /\ held + deadline <= REQUEST_DEADLINE
        /\ server # "down" => frozen + deadline <= REQUEST_DEADLINE
        /\ main = "free" => frozen = 0
        /\ main = "waking" => frozen + patience <= IO_TIMEOUT
    BY DEF DeadlineHolds
  <2>2. held' + deadline' <= REQUEST_DEADLINE
    BY <1>1, <1>2, <1>4, <2>1, Deadlines DEF Later
  <2>3. CASE main = "free"
    <3>1. frozen' = 0 /\ deadline' <= REQUEST_DEADLINE
      BY <1>1, <1>2, <1>4, <2>1, <2>3, Deadlines
    <3> QED
      BY <1>1, <1>4, <2>2, <2>3, <3>1, Deadlines DEF DeadlineHolds
  <2>4. ASSUME main # "free"
        PROVE  /\ frozen' \in Nat /\ frozen' <= frozen + 1
               /\ server # "down" => frozen' + deadline' <= REQUEST_DEADLINE
    <3>1. frozen' \in Nat /\ frozen' <= frozen + 1
      BY <1>1, <1>2, <2>4, Deadlines DEF Later
    <3>2. ASSUME server # "down" PROVE frozen' + deadline' <= REQUEST_DEADLINE
      <4>1. server = "stopping"
        BY <2>4, <3>2 DEF ListenerType, ListenerWakes
      <4>2. queue # <<>>
        <5>1. ~(main = "waking" /\ (patience = 0 \/ (server = "stopping" /\ HasRoom)))
          BY <1>1 DEF Urgent
        <5>2. CASE main = "waking"
          BY <4>1, <5>1, <5>2, FullIsNotEmpty
        <5>3. CASE main = "joining"
          BY <4>1, <5>3 DEF ListenerWakes
        <5> QED
          BY <2>4, <5>2, <5>3 DEF ListenerType
      <4>3. deadline' = deadline - 1
        BY <1>3, <1>4, <4>2
      <4> DEFINE later == frozen'
                 left == deadline'
      <4> HIDE DEF later, left
      <4>4. later \in Nat /\ later <= frozen + 1 /\ left = deadline - 1
        BY <3>1, <4>3 DEF later, left
      <4>5. later + left <= REQUEST_DEADLINE
        BY <1>2, <2>1, <3>2, <4>4, Deadlines
      <4> QED
        BY <4>5 DEF later, left
    <3> QED
      BY <3>1, <3>2
  <2>5. CASE main = "waking"
    <3>1. patience > 0
      BY <1>1, <1>2, <2>5 DEF Urgent
    <3>2. patience' = patience - 1
      BY <1>1, <3>1
    <3>3. frozen' + patience' <= IO_TIMEOUT /\ frozen' <= IO_TIMEOUT
      BY <1>2, <2>1, <2>4, <2>5, <3>1, <3>2, Deadlines
    <3>4. frozen' <= LongestStop
      BY <2>4, <2>5, <3>3, Deadlines
    <3> QED
      BY <1>1, <1>4, <2>2, <2>4, <2>5, <3>3, <3>4 DEF DeadlineHolds
  <2>6. CASE main = "joining"
    <3>1. server # "down"
      BY <1>1, <2>6 DEF Urgent
    <3>2. frozen' <= LongestStop
      BY <1>4, <2>4, <2>6, <3>1, Deadlines
    <3> QED
      BY <1>1, <1>4, <2>2, <2>4, <2>6, <3>2 DEF DeadlineHolds
  <2> QED
    BY <2>3, <2>5, <2>6 DEF ListenerType
<1>6. ListenerType' /\ ListenerWakes'
  <2>1. held' \in Nat /\ frozen' \in Nat /\ patience' \in 0 .. IO_TIMEOUT
    BY <1>1, <1>2, Deadlines DEF Later
  <2> QED
    BY <1>1, <1>4, <2>1 DEF ListenerType, ListenerWakes
<1>7. ASSUME NEW f \in Fetches
      PROVE  /\ Times \subseteq DOMAIN fetch'[f] /\ fetch'[f].stage = fetch[f].stage
             /\ fetch'[f].ahead = fetch[f].ahead /\ fetch'[f].budget = fetch[f].budget
             /\ fetch'[f].left \in Nat
             /\ fetch[f].stage \in Waiting => fetch'[f].left = fetch[f].left - 1
  <2>1. Times \subseteq DOMAIN fetch[f] /\ fetch[f].left \in Nat
    BY DEF FetchType
  <2>2. CASE fetch[f].stage \in Waiting
    <3>1. fetch'[f] = [fetch[f] EXCEPT !.left = fetch[f].left - 1]
      BY <1>1, <2>2
    <3>2. fetch[f].left > 0
      BY <1>3, <2>2
    <3>3. /\ Times \subseteq DOMAIN fetch'[f] /\ fetch'[f].stage = fetch[f].stage
          /\ fetch'[f].ahead = fetch[f].ahead /\ fetch'[f].budget = fetch[f].budget
          /\ fetch'[f].left = fetch[f].left - 1
      BY <2>1, <3>1 DEF Times
    <3> QED
      BY <2>1, <3>2, <3>3
  <2>3. CASE fetch[f].stage \notin Waiting
    BY <1>1, <2>1, <2>3
  <2> QED
    BY <2>2, <2>3
<1>8. FetchType'
  BY <1>1, <1>7 DEF FetchType
<1>9. ASSUME NEW f \in Fetches, fetch'[f].stage = "queued" PROVE PromiseKept(f)'
  <2> DEFINE W == fetch[f].budget - fetch[f].left
             P == (fetch[f].ahead + 1) * REQUEST_DEADLINE
  <2>1. fetch[f].stage = "queued" /\ fetch'[f].left = fetch[f].left - 1
    BY <1>7, <1>9 DEF Waiting
  <2>2. W \in Int /\ P \in Int
    <3>1. fetch[f].left \in Nat /\ fetch[f].ahead \in Nat /\ fetch[f].budget \in Nat
      BY DEF FetchType
    <3>2. P = fetch[f].ahead * REQUEST_DEADLINE + REQUEST_DEADLINE
          /\ fetch[f].ahead * REQUEST_DEADLINE \in Nat
      BY <3>1, Deadlines, OneMore
    <3> QED
      BY <3>1, <3>2, Deadlines
  <2>3. Waited(f)' = W + 1 /\ Promised(f)' = P
    <3>1. fetch[f].left \in Nat /\ fetch[f].budget \in Nat
      BY DEF FetchType
    <3>2. fetch'[f].budget - fetch'[f].left = W + 1
      BY <1>7, <2>1, <3>1
    <3> QED
      BY <1>7, <3>2 DEF Waited, Promised
  <2>4. CASE serving.who = f /\ W + deadline <= P
    <3>1. serving # Nobody
      BY <2>4, FetchesAreThemselves
    <3>2. deadline' = deadline - 1
      BY <1>4, <3>1
    <3>3. W + 1 + (deadline - 1) <= P
      <4> HIDE DEF W, P
      <4> QED
        BY <1>2, <2>2, <2>4
    <3>4. Waited(f)' + deadline' <= Promised(f)'
      BY <2>3, <3>2, <3>3
    <3> QED
      BY <1>1, <2>4, <3>4 DEF PromiseKept
  <2>5. ASSUME NEW i \in DOMAIN queue, queue[i].who = f,
               W + deadline + i * REQUEST_DEADLINE <= P
        PROVE  PromiseKept(f)'
    <3> DEFINE cost == i * REQUEST_DEADLINE
    <3>1. cost \in Nat
      BY LenProperties, Deadlines, OneMore DEF ListenerType
    <3>2. serving # Nobody
      <4>1. queue # <<>>
        BY <2>5
      <4> QED
        BY <1>3, <4>1
    <3>3. deadline' = deadline - 1
      BY <1>4, <3>2
    <3>4. W + 1 + (deadline - 1) + cost <= P
      <4>1. W + deadline + cost <= P
        BY <2>5
      <4> HIDE DEF W, P, cost
      <4> QED
        BY <1>2, <2>2, <3>1, <4>1
    <3>5. Waited(f)' + deadline' + i * REQUEST_DEADLINE <= Promised(f)'
      BY <2>3, <3>3, <3>4
    <3> QED
      BY <1>1, <2>5, <3>5 DEF PromiseKept
  <2> QED
    BY <2>1, <2>4, <2>5 DEF Promises, PromiseKept, Waited, Promised
<1> QED
  BY <1>5, <1>6, <1>8, <1>9 DEF Promises

--------------------------------------------------------------------------------
(* Theorems *)

\* So it always holds.
LEMMA Invariance == Spec => []Inv
<1>1. ASSUME Inv, [Next]_vars PROVE Inv'
  <2>1. CASE UNCHANGED vars
    <3>1. /\ UNCHANGED <<server, queue, serving, deadline, sampled, held>>
          /\ UNCHANGED <<main, patience, frozen, fetch>>
      BY <2>1 DEF vars, listener, stop
    <3> QED
      BY <1>1, <3>1 DEF Inv, ListenerType, FetchType, ListenerWakes, DeadlineHolds, Promises,
                        PromiseKept, Waited, Promised
  <2>2. ASSUME NEW f \in Fetches,
               Ask(f) \/ Connected(f) \/ NotConnected(f) \/ AnswerEnds(f) \/ FetchFails(f)
        PROVE  Inv'
    BY <1>1, <2>2, AskKeepsInv, ConnectedKeepsInv, NotConnectedKeepsInv, AnswerEndsKeepsInv,
       FetchFailsKeepsInv
  <2> QED
    BY <1>1, <2>1, <2>2, StrangerConnectsKeepsInv, RequestArrivesKeepsInv, AcceptKeepsInv,
       DripKeepsInv, AnswerKeepsInv, StartKeepsInv, StopKeepsInv, WokenKeepsInv,
       JoinedKeepsInv, ExitKeepsInv, TimePassesKeepsInv DEF Next
<1> QED
  BY <1>1, InitInv, PTL DEF Spec

\* However its client drips, an exchange holds the listener for the request deadline at
\* most, and once told to stop the listener ends within that deadline.  The main thread is
\* held until then, or until its waking connection times out on a full queue if that is
\* later (share.rs:224-234, 276-305).
THEOREM ExchangesEnd == Spec => []ExchangesAreBounded
<1>1. Inv => ExchangesAreBounded
  <2> SUFFICES ASSUME Inv PROVE ExchangesAreBounded
    OBVIOUS
  <2>1. /\ held \in Nat /\ frozen \in Nat /\ deadline \in Nat
        /\ held + deadline <= REQUEST_DEADLINE /\ frozen <= LongestStop
        /\ server # "down" => frozen + deadline <= REQUEST_DEADLINE
    BY DEF Inv, ListenerType, DeadlineHolds
  <2> QED
    BY <2>1, Deadlines DEF ExchangesAreBounded
<1> QED
  BY <1>1, Invariance, PTL

\* A fetch gives up in the queue only when those before it, at the request deadline each,
\* and its own exchange could take all the time it had: whoever is before it, and however
\* many come after (share.rs:31-34, 155-184, 252-305).
THEOREM PromptAnswer == Spec => []PromptFetchIsAnswered
<1>1. Inv => PromptFetchIsAnswered
  <2> SUFFICES ASSUME Inv, NEW f \in Fetches, fetch[f].stage = "queued", fetch[f].left = 0
               PROVE  (fetch[f].ahead + 1) * REQUEST_DEADLINE >= fetch[f].budget
    BY DEF PromptFetchIsAnswered
  <2> DEFINE P == (fetch[f].ahead + 1) * REQUEST_DEADLINE
  <2>1. fetch[f].budget \in Nat /\ deadline \in Nat
    BY DEF Inv, ListenerType, FetchType
  <2>2. P \in Int
    <3>1. fetch[f].ahead \in Nat
      BY DEF Inv, FetchType
    <3>2. P = fetch[f].ahead * REQUEST_DEADLINE + REQUEST_DEADLINE
          /\ fetch[f].ahead * REQUEST_DEADLINE \in Nat
      BY <3>1, Deadlines, OneMore
    <3> QED
      BY <3>2, Deadlines
  <2>3. Waited(f) = fetch[f].budget
    BY <2>1 DEF Waited
  <2>4. CASE Waited(f) + deadline <= P
    <3> HIDE DEF P
    <3>1. fetch[f].budget + deadline <= P
      BY <2>3, <2>4
    <3>2. P >= fetch[f].budget
      BY <2>1, <2>2, <3>1
    <3> QED
      BY <3>2 DEF P
  <2>5. ASSUME NEW i \in DOMAIN queue, Waited(f) + deadline + i * REQUEST_DEADLINE <= P
        PROVE  P >= fetch[f].budget
    <3> DEFINE cost == i * REQUEST_DEADLINE
    <3>1. cost \in Nat /\ fetch[f].budget + deadline + cost <= P
      BY <2>3, <2>5, LenProperties, Deadlines, OneMore DEF Inv, ListenerType
    <3> HIDE DEF P, cost
    <3> QED
      BY <2>1, <2>2, <3>1
  <2> QED
    BY <2>4, <2>5 DEF Inv, Promises, PromiseKept, Promised
<1> QED
  BY <1>1, Invariance, PTL

--------------------------------------------------------------------------------
(* What an answer says *)

\* The units there are, and the texts of them.
Key == Field \union {"version", "error", "HTTP/1.0", "Content-Length", "blank"}
Text == Seq([key: Key, value: Nat])

\* No field has the version's name.
LEMMA FieldNames ==
  /\ Field = {"memory", "cpu_user_percent", "cpu_system_percent", "gpu_percent"}
  /\ \A f \in Field : f \in Key /\ f # "version"
BY DEF Field, Key

\* A number is all of its units or none.
LEMMA NumberOfUnits ==
  /\ Cardinality(NoNumber) = 0 /\ NoNumber = 1 .. 0
  /\ Cardinality(Whole) = 2 /\ Whole = 1 .. 2
<1>1. Whole = 1 .. 2 /\ NoNumber = 1 .. 0
  BY DEF Whole, NoNumber
<1>2. Cardinality(1 .. 2) = 2
  <2>1. 1 \in Int /\ 2 \in Int
    OBVIOUS
  <2>2. IsFiniteSet(1 .. 2) /\ Cardinality(1 .. 2) = IF 1 > 2 THEN 0 ELSE 2 - 1 + 1
    BY <2>1, FS_Interval
  <2> QED
    BY <2>2
<1>3. Cardinality(NoNumber) = 0
  BY FS_EmptySet DEF NoNumber
<1> QED
  BY <1>1, <1>2, <1>3

\* A line says what the reading has of its field, and nothing of another.
LEMMA LineSays ==
  ASSUME NEW r, NEW f \in Field, r[f] \in {NoNumber, Whole}
  PROVE  /\ Line(r, f) \in Text
         /\ \A g \in Field : Number(Line(r, f), g) = IF g = f THEN r[f] ELSE NoNumber
<1> DEFINE c == Cardinality(r[f])
           l == [i \in 1 .. c |-> [key |-> f, value |-> i]]
<1>1. c \in Nat /\ r[f] = 1 .. c
  <2>1. CASE r[f] = NoNumber
    <3>1. c = 0
      BY <2>1, NumberOfUnits
    <3> QED
      BY <2>1, <3>1, NumberOfUnits
  <2>2. CASE r[f] = Whole
    <3>1. c = 2
      BY <2>2, NumberOfUnits
    <3> QED
      BY <2>2, <3>1, NumberOfUnits
  <2> QED
    BY <2>1, <2>2
<1>2. l = Line(r, f)
  BY DEF Line, Unit
<1> HIDE DEF c
<1>3. l \in [1 .. c -> [key: Key, value: Nat]]
  BY <1>1, FieldNames
<1>4. l \in Text
  BY <1>1, <1>3, SeqDef DEF Text
<1>5. \A g \in Field : Number(l, g) = {l[i].value : i \in {j \in 1 .. c : l[j].key = g}}
  BY DEF Number
<1>6. \A j \in 1 .. c : l[j].key = f /\ l[j].value = j
  OBVIOUS
<1> HIDE DEF l
<1>7. ASSUME NEW g \in Field
      PROVE  Number(l, g) = IF g = f THEN r[f] ELSE NoNumber
  <2>1. CASE g = f
    <3>1. \A j \in 1 .. c : l[j].key = g
      BY <1>6, <2>1
    <3>2. \A n : n \in Number(l, g) <=> \E j \in 1 .. c : n = l[j].value
      BY <1>5, <3>1
    <3>3. \A n : n \in Number(l, g) <=> n \in 1 .. c
      BY <1>6, <3>2
    <3> QED
      BY <1>1, <2>1, <3>3
  <2>2. CASE g # f
    BY <1>5, <1>6, <2>2 DEF NoNumber
  <2> QED
    BY <2>1, <2>2
<1> QED
  BY <1>2, <1>4, <1>7

\* Two texts say what either does.
LEMMA TextsSay ==
  ASSUME NEW s \in Text, NEW t \in Text
  PROVE  s \o t \in Text /\ \A f : Number(s \o t, f) = Number(s, f) \union Number(t, f)
<1> DEFINE u == s \o t
<1>1. /\ Len(s) \in Nat /\ DOMAIN s = 1 .. Len(s) /\ Len(t) \in Nat /\ DOMAIN t = 1 .. Len(t)
      /\ u \in Text /\ DOMAIN u = 1 .. Len(s) + Len(t)
      /\ \A i \in 1 .. Len(s) + Len(t) : u[i] = IF i <= Len(s) THEN s[i] ELSE t[i - Len(s)]
  <2>1. /\ u \in Text /\ Len(u) = Len(s) + Len(t)
        /\ \A i \in 1 .. Len(s) + Len(t) : u[i] = IF i <= Len(s) THEN s[i] ELSE t[i - Len(s)]
    BY ConcatProperties DEF Text
  <2> HIDE DEF u
  <2> QED
    BY <2>1, LenProperties DEF Text
<1> HIDE DEF u
<1>2. ASSUME NEW f PROVE Number(u, f) = Number(s, f) \union Number(t, f)
  <2>1. \A i \in DOMAIN s : i \in DOMAIN u /\ u[i] = s[i]
    BY <1>1
  <2>2. \A i \in DOMAIN t : Len(s) + i \in DOMAIN u /\ u[Len(s) + i] = t[i]
    BY <1>1
  <2>3. ASSUME NEW i \in DOMAIN u
        PROVE (\E j \in DOMAIN s : s[j] = u[i]) \/ (\E j \in DOMAIN t : t[j] = u[i])
    <3>1. CASE i <= Len(s)
      BY <1>1, <3>1
    <3>2. CASE ~(i <= Len(s))
      <4>1. i - Len(s) \in DOMAIN t /\ t[i - Len(s)] = u[i]
        BY <1>1, <3>2
      <4> QED
        BY <4>1
    <3> QED
      BY <3>1, <3>2
  <2>4. \A v : v \in Number(u, f) <=> \E i \in DOMAIN u : u[i].key = f /\ v = u[i].value
    BY DEF Number
  <2>5. \A v : v \in Number(s, f) <=> \E i \in DOMAIN s : s[i].key = f /\ v = s[i].value
    BY DEF Number
  <2>6. \A v : v \in Number(t, f) <=> \E i \in DOMAIN t : t[i].key = f /\ v = t[i].value
    BY DEF Number
  <2>7. \A v : v \in Number(u, f) => v \in Number(s, f) \/ v \in Number(t, f)
    BY <2>3, <2>4, <2>5, <2>6
  <2>8. \A v : v \in Number(s, f) \/ v \in Number(t, f) => v \in Number(u, f)
    BY <2>1, <2>2, <2>4, <2>5, <2>6
  <2> QED
    BY <2>7, <2>8
<1> QED
  BY <1>1, <1>2 DEF u

\* What a reading's text says is the reading.
LEMMA Decoded ==
  ASSUME NEW r \in SharedReading, WellFormed(r)
  PROVE  Encode(r) \in Text /\ Decode(Encode(r)) = r
<1> DEFINE v == <<SHARE_VERSION>>
           m == Line(r, "memory")
           a == Line(r, "cpu_user_percent")
           b == Line(r, "cpu_system_percent")
           g == Line(r, "gpu_percent")
           e == v \o m \o a \o b \o g
<1>1. v \in Text /\ v # <<>> /\ \A f \in Field : Number(v, f) = {}
  <2>1. SHARE_VERSION \in [key: Key, value: Nat] /\ SHARE_VERSION.key = "version"
    BY DEF SHARE_VERSION, Unit, Key
  <2>2. v \in Text /\ DOMAIN v = 1 .. 1 /\ v[1] = SHARE_VERSION
    BY <2>1 DEF Text
  <2> HIDE DEF v
  <2>3. \A f \in Field : \A i \in DOMAIN v : v[i].key # f
    BY <2>1, <2>2, FieldNames
  <2>4. \A f \in Field : Number(v, f) = {}
    BY <2>3 DEF Number
  <2>5. v # <<>>
    BY <2>2
  <2> QED
    BY <2>2, <2>4, <2>5
<1>2. /\ m \in Text /\ \A f \in Field : Number(m, f) = IF f = "memory" THEN r[f] ELSE {}
      /\ a \in Text /\ \A f \in Field : Number(a, f) = IF f = "cpu_user_percent" THEN r[f] ELSE {}
      /\ b \in Text /\ \A f \in Field : Number(b, f) = IF f = "cpu_system_percent" THEN r[f] ELSE {}
      /\ g \in Text /\ \A f \in Field : Number(g, f) = IF f = "gpu_percent" THEN r[f] ELSE {}
  <2>1. \A f \in Field : r[f] \in {NoNumber, Whole}
    BY DEF WellFormed
  <2>2. \A f \in Field : Line(r, f) \in Text /\ \A h \in Field :
          Number(Line(r, f), h) = IF h = f THEN r[f] ELSE {}
    BY <2>1, LineSays DEF NoNumber
  <2>3. "memory" \in Field /\ "cpu_user_percent" \in Field /\ "cpu_system_percent" \in Field
        /\ "gpu_percent" \in Field
    BY FieldNames
  <2> QED
    BY <2>2, <2>3
<1>3. e = Encode(r)
  BY DEF Encode
<1> HIDE DEF v, m, a, b, g
<1>4. /\ e \in Text
      /\ \A f \in Field : Number(e, f) = Number(v, f) \union Number(m, f) \union Number(a, f)
                                           \union Number(b, f) \union Number(g, f)
  <2>1. v \o m \in Text /\ \A f : Number(v \o m, f) = Number(v, f) \union Number(m, f)
    BY <1>1, <1>2, TextsSay
  <2>2. /\ v \o m \o a \in Text
        /\ \A f : Number(v \o m \o a, f) = Number(v \o m, f) \union Number(a, f)
    BY <1>2, <2>1, TextsSay
  <2>3. /\ v \o m \o a \o b \in Text
        /\ \A f : Number(v \o m \o a \o b, f) = Number(v \o m \o a, f) \union Number(b, f)
    BY <1>2, <2>2, TextsSay
  <2>4. e \in Text /\ \A f : Number(e, f) = Number(v \o m \o a \o b, f) \union Number(g, f)
    BY <1>2, <2>3, TextsSay
  <2> QED
    BY <2>1, <2>2, <2>3, <2>4
<1>5. \A f \in Field : Number(e, f) = r[f]
  BY <1>1, <1>2, <1>4, FieldNames
<1>6. e # <<>> /\ Head(e) = SHARE_VERSION
  <2>1. /\ v \o m \in Text /\ v \o m \o a \in Text /\ v \o m \o a \o b \in Text
        /\ v \in Text /\ Len(v) >= 1 /\ v[1] = SHARE_VERSION
    BY <1>1, <1>2, TextsSay DEF v
  <2>2. ASSUME NEW s \in Text, NEW t \in Text, Len(s) >= 1, s[1] = SHARE_VERSION
        PROVE  Len(s \o t) >= 1 /\ (s \o t)[1] = SHARE_VERSION
    <3>1. Len(s) \in Nat /\ Len(t) \in Nat
      BY LenProperties DEF Text
    <3>2. /\ Len(s \o t) = Len(s) + Len(t)
          /\ \A i \in 1 .. Len(s) + Len(t) :
               (s \o t)[i] = IF i <= Len(s) THEN s[i] ELSE t[i - Len(s)]
      BY ConcatProperties DEF Text
    <3> QED
      BY <2>2, <3>1, <3>2
  <2>3. Len(v \o m) >= 1 /\ (v \o m)[1] = SHARE_VERSION
    BY <1>2, <2>1, <2>2
  <2>4. Len(v \o m \o a) >= 1 /\ (v \o m \o a)[1] = SHARE_VERSION
    BY <1>2, <2>1, <2>2, <2>3
  <2>5. Len(v \o m \o a \o b) >= 1 /\ (v \o m \o a \o b)[1] = SHARE_VERSION
    BY <1>2, <2>1, <2>2, <2>4
  <2>6. Len(e) >= 1 /\ e[1] = SHARE_VERSION
    BY <1>2, <2>1, <2>2, <2>5
  <2> HIDE DEF e
  <2>7. e # <<>>
    BY <2>6, EmptySeq
  <2> QED
    BY <2>6, <2>7
<1> HIDE DEF e
<1>7. Decode(e) = r
  <2>1. [f \in Field |-> Number(e, f)] = r
    BY <1>5 DEF SharedReading
  <2>2. r["memory"] # NoNumber
    BY DEF WellFormed, NoNumber, Whole
  <2>3. CASE r["cpu_user_percent"] # NoNumber /\ r["cpu_system_percent"] # NoNumber
    BY <1>6, <2>1, <2>2, <2>3 DEF Decode
  <2>4. CASE r["cpu_user_percent"] = NoNumber /\ r["cpu_system_percent"] = NoNumber
    <3>1. Without(r, {"cpu_user_percent", "cpu_system_percent"}) = r
      BY <2>4 DEF Without, SharedReading
    <3> QED
      BY <1>6, <2>1, <2>2, <2>4, <3>1 DEF Decode
  <2> QED
    BY <2>3, <2>4 DEF WellFormed
<1> QED
  BY <1>3, <1>4, <1>7

\* What parse_response makes of an answer of the listener that ends after n units: the
\* length it states tells a whole one from one that was cut.
LEMMA Parsed ==
  ASSUME NEW body \in Text, NEW status \in Nat, NEW n \in Nat,
         n <= Len(HttpResponse(status, body))
  PROVE  ParseResponse(SubSeq(HttpResponse(status, body), 1, n))
           = IF status = 200 /\ n = Len(HttpResponse(status, body))
             THEN Decode(body) ELSE NoReading
<1> DEFINE a == HttpResponse(status, body)
           p == SubSeq(a, 1, n)
           first == Unit("HTTP/1.0", status)
           length == Unit("Content-Length", Len(body))
<1>1. Len(body) \in Nat /\ DOMAIN body = 1 .. Len(body)
  BY LenProperties DEF Text
<1>2. /\ first \in [key: Key, value: Nat] /\ length \in [key: Key, value: Nat]
      /\ BlankLine \in [key: Key, value: Nat]
      /\ first # BlankLine /\ length # BlankLine
      /\ first.key # "Content-Length" /\ length.key = "Content-Length"
      /\ length.value = Len(body)
      /\ first = Unit("HTTP/1.0", 200) <=> status = 200
  BY <1>1 DEF BlankLine, Unit, Key
<1>3. /\ Len(a) = 3 + Len(body) /\ a \in Text
      /\ a[1] = first /\ a[2] = length /\ a[3] = BlankLine
      /\ \A i \in 4 .. Len(a) : a[i] = body[i - 3]
  <2> DEFINE h == <<first, length, BlankLine>>
  <2>1. h \in Text /\ Len(h) = 3 /\ h[1] = first /\ h[2] = length /\ h[3] = BlankLine
    BY <1>2 DEF Text
  <2>2. a = h \o body
    BY DEF HttpResponse
  <2> HIDE DEF h, a
  <2>3. /\ a \in Text /\ Len(a) = Len(h) + Len(body)
        /\ \A i \in 1 .. Len(h) + Len(body) :
             a[i] = IF i <= Len(h) THEN h[i] ELSE body[i - Len(h)]
    BY <2>1, <2>2, ConcatProperties DEF Text
  <2> QED
    BY <1>1, <2>1, <2>3
<1> HIDE DEF a, first, length
<1>4. n \in 0 .. Len(a)
  BY <1>1, <1>3 DEF a
<1>5. /\ p \in Text /\ Len(p) = n /\ DOMAIN p = 1 .. n
      /\ \A i \in 1 .. n : p[i] = a[i]
  <2>1. \A i \in 1 .. n : a[i] \in [key: Key, value: Nat]
    <3>1. \A i \in 1 .. n : i \in 1 .. Len(a)
      BY <1>1, <1>3, <1>4
    <3> QED
      BY <1>3, <3>1, ElementOfSeq DEF Text
  <2>2. /\ p \in Text /\ Len(p) = IF 1 <= n THEN n - 1 + 1 ELSE 0
        /\ \A i \in 1 .. n - 1 + 1 : p[i] = a[1 + i - 1]
    BY <2>1, SubSeqProperties DEF Text
  <2>3. Len(p) = n /\ \A i \in 1 .. n : p[i] = a[i]
    BY <1>4, <2>2
  <2> HIDE DEF p
  <2> QED
    BY <2>2, <2>3, LenProperties DEF Text
<1> HIDE DEF p
<1>6. CASE n < 3
  <2>1. \A i \in DOMAIN p : p[i] # BlankLine
    <3>1. \A i \in DOMAIN p : i = 1 \/ i = 2
      BY <1>5, <1>6
    <3>2. \A i \in DOMAIN p : p[i] = first \/ p[i] = length
      BY <1>3, <1>5, <3>1
    <3> QED
      BY <1>2, <3>2
  <2>2. HeadEnds(p) = {}
    BY <2>1 DEF HeadEnds
  <2>3. n # Len(a)
    BY <1>1, <1>3, <1>6
  <2> QED
    BY <2>2, <2>3 DEF ParseResponse, p, a
<1>7. CASE n >= 3
  <2>1. HeadEnds(p) = {3}
    <3>1. 3 \in DOMAIN p /\ p[3] = BlankLine /\ p[1] = first /\ p[2] = length
      BY <1>3, <1>5, <1>7
    <3>2. \A j \in 1 .. 3 - 1 : p[j] # BlankLine
      <4>1. \A j \in 1 .. 3 - 1 : j = 1 \/ j = 2
        OBVIOUS
      <4> QED
        BY <1>2, <3>1, <4>1
    <3>3. \A i \in DOMAIN p : i = 1 \/ i = 2 \/ i = 3 \/ 3 \in 1 .. i - 1
      BY <1>5
    <3>4. \A i \in HeadEnds(p) : i = 3
      BY <1>2, <3>1, <3>3 DEF HeadEnds
    <3>5. 3 \in HeadEnds(p)
      BY <3>1, <3>2 DEF HeadEnds
    <3> QED
      BY <3>4, <3>5
  <2> DEFINE head == SubSeq(p, 1, 2)
             rest == SubSeq(p, 4, n)
  <2>2. /\ head \in Text /\ Len(head) = 2 /\ DOMAIN head = 1 .. 2
        /\ head[1] = first /\ head[2] = length
    <3>1. \A i \in 1 .. 2 : p[i] \in [key: Key, value: Nat]
      BY <1>2, <1>3, <1>5, <1>7
    <3>2. /\ head \in Text /\ Len(head) = IF 1 <= 2 THEN 2 - 1 + 1 ELSE 0
          /\ \A i \in 1 .. 2 - 1 + 1 : head[i] = p[1 + i - 1]
      BY <3>1, SubSeqProperties DEF Text
    <3> HIDE DEF head
    <3>3. Len(head) = 2 /\ head[1] = p[1] /\ head[2] = p[2]
      BY <3>2
    <3> QED
      BY <1>3, <1>5, <1>7, <3>2, <3>3, LenProperties DEF Text
  <2>3. /\ rest \in Text /\ Len(rest) = n - 3
        /\ \A i \in 1 .. n - 3 : rest[i] = body[i]
    <3>1. \A i \in 4 .. n : p[i] \in [key: Key, value: Nat]
      <4>1. \A i \in 4 .. n : i \in 1 .. Len(p)
        BY <1>5
      <4> QED
        BY <1>5, <4>1, ElementOfSeq DEF Text
    <3>2. /\ rest \in Text /\ Len(rest) = IF 4 <= n THEN n - 4 + 1 ELSE 0
          /\ \A i \in 1 .. n - 4 + 1 : rest[i] = p[4 + i - 1]
      BY <3>1, SubSeqProperties DEF Text
    <3>3. Len(rest) = n - 3
      BY <1>7, <3>2
    <3>4. ASSUME NEW i \in 1 .. n - 3 PROVE rest[i] = body[i]
      <4>1. i \in 1 .. n - 4 + 1 /\ 4 + i - 1 = i + 3 /\ i + 3 \in 4 .. n /\ (i + 3) - 3 = i
        BY <1>7
      <4>2. rest[i] = p[i + 3]
        BY <3>2, <4>1
      <4>3. p[i + 3] = a[i + 3] /\ i + 3 \in 4 .. Len(a)
        BY <1>1, <1>3, <1>4, <1>5, <4>1
      <4> QED
        BY <1>3, <4>1, <4>2, <4>3
    <3> QED
      BY <3>2, <3>3, <3>4
  <2>4. ContentLength(head) = {Len(body)}
    <3> HIDE DEF head
    <3>1. {j \in DOMAIN head : head[j].key = "Content-Length"} = {2}
      <4>1. \A j \in DOMAIN head : j = 1 \/ j = 2
        BY <2>2
      <4> QED
        BY <1>2, <2>2, <4>1
    <3> QED
      BY <1>2, <2>2, <3>1 DEF ContentLength
  <2>5. head # <<>> /\ Head(head) = first
    <3> HIDE DEF head
    <3>1. head # <<>>
      <4>1. 1 \in DOMAIN head
        BY <2>2
      <4> QED
        BY <4>1
    <3> QED
      BY <2>2, <3>1 DEF Text
  <2>6. IsWhole(rest, ContentLength(head)) <=> n = Len(a)
    <3> HIDE DEF head, rest
    <3> QED
      BY <1>1, <1>3, <2>3, <2>4 DEF IsWhole
  <2>7. n = Len(a) => rest = body
    <3> SUFFICES ASSUME n = Len(a) PROVE rest = body
      OBVIOUS
    <3>1. Len(rest) = Len(body) /\ \A i \in 1 .. Len(rest) : rest[i] = body[i]
      <4> HIDE DEF rest
      <4> QED
        BY <1>1, <1>3, <2>3
    <3> HIDE DEF rest
    <3> QED
      BY <2>3, <3>1, SeqEqual DEF Text
  <2>8. ParseResponse(p) = IF /\ head # <<>> /\ Head(head) = Unit("HTTP/1.0", 200)
                             /\ IsWhole(rest, ContentLength(head))
                          THEN Decode(rest) ELSE NoReading
    <3>1. HeadEnds(p) # {} /\ (CHOOSE i \in HeadEnds(p) : TRUE) = 3
      BY <2>1
    <3>2. 3 - 1 = 2 /\ 3 + 1 = 4 /\ Len(p) = n
      BY <1>5
    <3> DEFINE end == CHOOSE i \in HeadEnds(p) : TRUE
    <3>3. ParseResponse(p) =
            IF /\ SubSeq(p, 1, end - 1) # <<>>
               /\ Head(SubSeq(p, 1, end - 1)) = Unit("HTTP/1.0", 200)
               /\ IsWhole(SubSeq(p, end + 1, Len(p)), ContentLength(SubSeq(p, 1, end - 1)))
            THEN Decode(SubSeq(p, end + 1, Len(p))) ELSE NoReading
      BY <3>1, Zenon DEF ParseResponse
    <3>4. end - 1 = 2 /\ end + 1 = 4
      BY <3>1, <3>2
    <3> HIDE DEF end
    <3> QED
      BY <3>2, <3>3, <3>4
  <2> HIDE DEF head, rest
  <2>9. ParseResponse(p) = IF status = 200 /\ n = Len(a) THEN Decode(body) ELSE NoReading
    BY <1>2, <2>5, <2>6, <2>7, <2>8
  <2> QED
    BY <2>9 DEF p, a
<1> QED
  BY <1>6, <1>7

--------------------------------------------------------------------------------
(* What a fetch returns *)

\* What another program answers is no reading, whole or cut where it is read.
OthersAreUnreadable ==
  \A answer \in Foreign : \A n \in 0 .. Len(answer) :
    TooLong(n) \/ ParseResponse(SubSeq(answer, 1, n)) = NoReading

Failure == HttpResponse(503, <<Unit("error", 0)>>)

\* An answer and the reading it was made of.
MadeOf(answer, reading) ==
  \/ reading \in Readings /\ answer = HttpResponse(200, Encode(reading))
  \/ reading = NoReading /\ answer \in Foreign \union {Failure}

Parts == {"stage", "answer", "sent", "whole", "result"}

\* A fetch on its way has no reading; one that is answered has an answer made of its
\* reading; and one that is done has returned that reading if all of it arrived.
Sound(r) ==
  /\ Parts \subseteq DOMAIN r
  /\ r.stage \in {"connecting", "queued"} => r.sent = NoReading
  /\ r.stage = "answered" => MadeOf(r.answer, r.sent)
  /\ r.stage = "done" => r.result = IF r.whole THEN r.sent ELSE NoReading

AnswersInv ==
  /\ sampled \in Readings \union {NoReading}
  /\ DOMAIN fetch = Fetches
  /\ \A f \in Fetches : Sound(fetch[f])

\* Wherever its connection ends, an answer is read as the reading it was made of, or as
\* none when it was cut.
LEMMA AnswerIsRead ==
  ASSUME OthersAreUnreadable, NEW answer, NEW reading, MadeOf(answer, reading),
         NEW n \in 0 .. Len(answer), ~TooLong(n)
  PROVE  ParseResponse(SubSeq(answer, 1, n)) = IF n = Len(answer) THEN reading ELSE NoReading
<1>1. CASE reading \in Readings /\ answer = HttpResponse(200, Encode(reading))
  <2>1. reading \in SharedReading /\ WellFormed(reading)
    BY <1>1, ConstantsAssumption, ReadingsAssumption
  <2>2. Encode(reading) \in Text /\ Decode(Encode(reading)) = reading
    BY <2>1, Decoded
  <2>3. n \in Nat /\ n <= Len(HttpResponse(200, Encode(reading)))
    BY <1>1
  <2>4. ParseResponse(SubSeq(HttpResponse(200, Encode(reading)), 1, n))
          = IF 200 = 200 /\ n = Len(HttpResponse(200, Encode(reading)))
            THEN Decode(Encode(reading)) ELSE NoReading
    BY <2>2, <2>3, Parsed
  <2> QED
    BY <1>1, <2>2, <2>4
<1>2. CASE reading = NoReading /\ answer = Failure
  <2> DEFINE body == <<Unit("error", 0)>>
  <2>1. body \in Text
    BY DEF Text, Unit, Key
  <2> HIDE DEF body
  <2>2. n \in Nat /\ n <= Len(HttpResponse(503, body))
    BY <1>2 DEF Failure, body
  <2>3. ParseResponse(SubSeq(HttpResponse(503, body), 1, n))
          = IF 503 = 200 /\ n = Len(HttpResponse(503, body)) THEN Decode(body) ELSE NoReading
    BY <2>1, <2>2, Parsed
  <2> QED
    BY <1>2, <2>3 DEF Failure, body
<1>3. CASE reading = NoReading /\ answer \in Foreign
  BY <1>3 DEF OthersAreUnreadable
<1> QED
  BY <1>1, <1>2, <1>3 DEF MadeOf

\* A fetch that begins, or fails, has no answer.
LEMMA FreshFetches ==
  /\ Sound(Idle) /\ Sound(Offline)
  /\ Sound([Idle EXCEPT !.stage = "connecting", !.left = FETCH_TIMEOUT])
BY DEF Sound, Parts, Idle, Offline

\* Nothing is known of the other Mac at first.
LEMMA InitAnswers == Init => AnswersInv
BY FreshFetches DEF Init, AnswersInv

\* A step of a fetch, or of the exchange it is in.
LEMMA AnswersStep ==
  ASSUME OthersAreUnreadable, AnswersInv, [Next]_vars
  PROVE  AnswersInv'
<1> USE DEF AnswersInv
<1>1. ASSUME UNCHANGED <<fetch, sampled>> PROVE AnswersInv'
  BY <1>1
<1>2. ASSUME NEW dropped, Reset(dropped), sampled' \in {sampled, NoReading} PROVE AnswersInv'
  BY <1>2, FreshFetches DEF Reset
<1>3. ASSUME NEW f \in Fetches, sampled' = sampled, Sound(fetch'[f]), DOMAIN fetch' = Fetches,
             \A g \in Fetches \ {f} : fetch'[g] = fetch[g]
      PROVE  AnswersInv'
  BY <1>3
<1>4. CASE \/ StrangerConnects \/ RequestArrives \/ Drip
          \/ Start \/ Stop \/ Woken \/ Joined \/ UNCHANGED vars
  BY <1>1, <1>4 DEF StrangerConnects, RequestArrives, Drip, Start, Stop, Woken, Joined, vars,
                    listener
<1>5. CASE Accept
  <2>1. CASE server = "stopping"
    BY <1>2, <1>5, <2>1 DEF Accept
  <2>2. CASE server # "stopping"
    BY <1>5, <2>2 DEF Accept
  <2> QED
    BY <2>1, <2>2
<1>6. CASE Exit
  BY <1>2, <1>6 DEF Exit
<1>7. CASE Answer
  <2> DEFINE answered(f) ==
               [fetch[f] EXCEPT !.stage = "answered", !.answer = Response,
                                !.sent = sampled, !.ahead = 0, !.budget = 0]
  <2>1. MadeOf(Response, sampled)
    <3>1. CASE sampled = NoReading
      BY <3>1 DEF MadeOf, Response, Failure
    <3>2. CASE sampled # NoReading
      BY <3>2 DEF MadeOf, Response
    <3> QED
      BY <3>1, <3>2
  <2>2. ASSUME NEW f \in Fetches PROVE Sound(answered(f))
    <3>1. Parts \subseteq DOMAIN fetch[f]
      BY DEF Sound
    <3>2. /\ Parts \subseteq DOMAIN answered(f) /\ answered(f).stage = "answered"
          /\ answered(f).answer = Response /\ answered(f).sent = sampled
      BY <3>1 DEF Parts
    <3> HIDE DEF answered
    <3> QED
      BY <2>1, <3>2 DEF Sound
  <2>3. /\ sampled' = NoReading
        /\ fetch' = [f \in Fetches |-> IF f # serving.who THEN fetch[f] ELSE answered(f)]
    BY <1>7 DEF Answer
  <2> HIDE DEF answered
  <2> QED
    BY <2>2, <2>3
<1>8. CASE TimePasses
  <2>1. /\ sampled' = sampled
        /\ fetch' = [f \in Fetches |->
                       IF fetch[f].stage \in Waiting THEN [fetch[f] EXCEPT !.left = @ - 1]
                       ELSE fetch[f]]
    BY <1>8 DEF TimePasses
  <2>2. ASSUME NEW f \in Fetches PROVE Sound(fetch'[f])
    <3>1. CASE fetch[f].stage \in Waiting
      <4>1. fetch'[f] = [fetch[f] EXCEPT !.left = fetch[f].left - 1]
        BY <2>1, <3>1
      <4>2. Parts \subseteq DOMAIN fetch[f]
        BY DEF Sound
      <4>3. /\ Parts \subseteq DOMAIN fetch'[f]
            /\ fetch'[f].stage = fetch[f].stage /\ fetch'[f].answer = fetch[f].answer
            /\ fetch'[f].sent = fetch[f].sent /\ fetch'[f].whole = fetch[f].whole
            /\ fetch'[f].result = fetch[f].result
        BY <4>1, <4>2 DEF Parts
      <4> QED
        BY <4>3 DEF Sound
    <3>2. CASE fetch[f].stage \notin Waiting
      BY <2>1, <3>2
    <3> QED
      BY <3>1, <3>2
  <2> QED
    BY <2>1, <2>2
<1>9. ASSUME NEW f \in Fetches, Ask(f) PROVE AnswersInv'
  <2>1. /\ sampled' = sampled
        /\ fetch' = [fetch EXCEPT ![f] = [Idle EXCEPT !.stage = "connecting",
                                                      !.left = FETCH_TIMEOUT]]
    BY <1>9 DEF Ask, listener
  <2> QED
    BY <1>3, <2>1, FreshFetches
<1>10. ASSUME NEW f \in Fetches, FetchFails(f) PROVE AnswersInv'
  BY <1>3, <1>10, FreshFetches DEF FetchFails
<1>11. ASSUME NEW f \in Fetches, Connected(f) PROVE AnswersInv'
  <2>1. /\ sampled' = sampled /\ fetch[f].stage = "connecting"
        /\ fetch' = [fetch EXCEPT ![f].stage = "queued", ![f].ahead = Len(queue) + Occupied,
                                  ![f].budget = fetch[f].left]
    BY <1>11 DEF Connected
  <2>2. Parts \subseteq DOMAIN fetch[f] /\ fetch[f].sent = NoReading
    BY <2>1 DEF Sound
  <2>3. /\ Parts \subseteq DOMAIN fetch'[f] /\ fetch'[f].stage = "queued"
        /\ fetch'[f].sent = NoReading /\ DOMAIN fetch' = Fetches
        /\ \A g \in Fetches \ {f} : fetch'[g] = fetch[g]
    BY <2>1, <2>2 DEF Parts
  <2> QED
    BY <1>3, <2>1, <2>3 DEF Sound
<1>12. ASSUME NEW f \in Fetches, NotConnected(f) PROVE AnswersInv'
  <2>1. sampled' = sampled /\ fetch[f].stage = "connecting"
    BY <1>12 DEF NotConnected, listener
  <2>2. CASE fetch' = [fetch EXCEPT ![f] = Offline]
    BY <1>3, <2>1, <2>2, FreshFetches
  <2>3. ASSUME NEW answer \in Foreign,
               fetch' = [fetch EXCEPT ![f].stage = "answered", ![f].answer = answer]
        PROVE  AnswersInv'
    <3>1. Parts \subseteq DOMAIN fetch[f] /\ fetch[f].sent = NoReading
      BY <2>1 DEF Sound
    <3>2. /\ Parts \subseteq DOMAIN fetch'[f] /\ fetch'[f].stage = "answered"
          /\ fetch'[f].sent = NoReading /\ fetch'[f].answer = answer /\ DOMAIN fetch' = Fetches
          /\ \A g \in Fetches \ {f} : fetch'[g] = fetch[g]
      BY <2>3, <3>1 DEF Parts
    <3> QED
      BY <1>3, <2>1, <3>2 DEF Sound, MadeOf
  <2> QED
    BY <1>12, <2>2, <2>3 DEF NotConnected
<1>13. ASSUME NEW f \in Fetches, AnswerEnds(f) PROVE AnswersInv'
  <2> DEFINE answer == fetch[f].answer
  <2>1. sampled' = sampled /\ MadeOf(answer, fetch[f].sent) /\ Parts \subseteq DOMAIN fetch[f]
    BY <1>13 DEF AnswerEnds, listener, Sound
  <2>2. PICK n \in 0 .. Len(answer) :
          fetch' = [fetch EXCEPT
                      ![f].stage = IF TooLong(n) THEN "offline" ELSE "done",
                      ![f].left = 0, ![f].answer = <<>>, ![f].whole = (n = Len(answer)),
                      ![f].result = IF TooLong(n) THEN NoReading
                                    ELSE ParseResponse(SubSeq(answer, 1, n))]
    BY <1>13 DEF AnswerEnds
  <2>3. /\ Parts \subseteq DOMAIN fetch'[f] /\ DOMAIN fetch' = Fetches
        /\ fetch'[f].stage = IF TooLong(n) THEN "offline" ELSE "done"
        /\ fetch'[f].sent = fetch[f].sent /\ fetch'[f].whole = (n = Len(answer))
        /\ fetch'[f].result = IF TooLong(n) THEN NoReading
                              ELSE ParseResponse(SubSeq(answer, 1, n))
        /\ \A g \in Fetches \ {f} : fetch'[g] = fetch[g]
    BY <2>1, <2>2 DEF Parts
  <2>4. ~TooLong(n) => ParseResponse(SubSeq(answer, 1, n))
                         = IF n = Len(answer) THEN fetch[f].sent ELSE NoReading
    BY <2>1, AnswerIsRead
  <2> HIDE DEF answer
  <2>5. Sound(fetch'[f])
    <3>1. CASE TooLong(n)
      BY <2>3, <3>1 DEF Sound
    <3>2. CASE ~TooLong(n)
      BY <2>3, <2>4, <3>2 DEF Sound
    <3> QED
      BY <3>1, <3>2
  <2> QED
    BY <1>3, <2>1, <2>3, <2>5
<1> QED
  BY <1>4, <1>5, <1>6, <1>7, <1>8, <1>9, <1>10, <1>11, <1>12, <1>13 DEF Next

\* A fetch returns the reading the other Mac sampled exactly when all of its answer
\* arrived, wherever the network cuts it, whichever numbers that Mac has, and whatever
\* failed, so long as no other program on the port answers with a reading
\* (share.rs:103-200).
THEOREM WholeAnswers == ASSUME OthersAreUnreadable PROVE Spec => []ReadsWholeAnswersOnly
<1>1. ASSUME AnswersInv, [Next]_vars PROVE AnswersInv'
  BY <1>1, AnswersStep
<1>2. AnswersInv => ReadsWholeAnswersOnly
  BY DEF AnswersInv, ReadsWholeAnswersOnly, Sound
<1> QED
  BY <1>1, <1>2, InitAnswers, PTL DEF Spec


--------------------------------------------------------------------------------
(* The types *)

\* What the invariants above leave open of a fetch: where it is, that its times are
\* within what it was given, and that what was sent and what it returned are readings.
FetchTypes(r) ==
  /\ Times \union Parts \subseteq DOMAIN r
  /\ r.stage \in Waiting \union {"idle", "done", "offline"}
  /\ r.left \in 0 .. FETCH_TIMEOUT /\ r.budget \in 0 .. FETCH_TIMEOUT
  /\ r.whole \in BOOLEAN /\ r.sent \in SharedReading /\ r.result \in SharedReading

TypesInv == DOMAIN fetch = Fetches /\ \A f \in Fetches : FetchTypes(fetch[f])

\* A reading that is none is one of those on the wire, and so is any that is sampled.
LEMMA SampledAreShared == NoReading \in SharedReading /\ Readings \subseteq SharedReading
BY ConstantsAssumption DEF NoReading, SharedReading

\* A fetch that begins, or fails, has the types.
LEMMA FreshTypes ==
  /\ FetchTypes(Idle) /\ FetchTypes(Offline)
  /\ FetchTypes([Idle EXCEPT !.stage = "connecting", !.left = FETCH_TIMEOUT])
BY Deadlines, SampledAreShared DEF FetchTypes, Times, Parts, Idle, Offline, Waiting

\* A step of a fetch, or of the exchange it is in, keeps them.
LEMMA TypesStep ==
  ASSUME OthersAreUnreadable, AnswersInv, TypesInv, [Next]_vars
  PROVE  TypesInv'
<1> USE DEF TypesInv
<1>1. ASSUME UNCHANGED fetch PROVE TypesInv'
  BY <1>1
<1>2. ASSUME NEW dropped, Reset(dropped) PROVE TypesInv'
  BY <1>2, FreshTypes DEF Reset
<1>3. ASSUME NEW f \in Fetches, FetchTypes(fetch'[f]), DOMAIN fetch' = Fetches,
             \A g \in Fetches \ {f} : fetch'[g] = fetch[g]
      PROVE  TypesInv'
  BY <1>3
<1>4. CASE \/ StrangerConnects \/ RequestArrives \/ Drip
          \/ Start \/ Stop \/ Woken \/ Joined \/ UNCHANGED vars
  BY <1>1, <1>4 DEF StrangerConnects, RequestArrives, Drip, Start, Stop, Woken, Joined, vars,
                    listener
<1>5. CASE Accept
  BY <1>1, <1>2, <1>5 DEF Accept
<1>6. CASE Exit
  BY <1>2, <1>6 DEF Exit
<1>7. CASE Answer
  <2> DEFINE answered(f) ==
               [fetch[f] EXCEPT !.stage = "answered", !.answer = Response,
                                !.sent = sampled, !.ahead = 0, !.budget = 0]
  <2>1. sampled \in SharedReading
    BY SampledAreShared DEF AnswersInv
  <2>2. ASSUME NEW f \in Fetches PROVE FetchTypes(answered(f))
    <3>1. FetchTypes(fetch[f])
      OBVIOUS
    <3>2. /\ Times \union Parts \subseteq DOMAIN answered(f)
          /\ answered(f).stage = "answered" /\ answered(f).sent = sampled
          /\ answered(f).left = fetch[f].left /\ answered(f).budget = 0
          /\ answered(f).whole = fetch[f].whole /\ answered(f).result = fetch[f].result
      BY <3>1 DEF FetchTypes, Times, Parts
    <3> HIDE DEF answered
    <3> QED
      BY <2>1, <3>1, <3>2, Deadlines DEF FetchTypes, Waiting
  <2>3. fetch' = [f \in Fetches |-> IF f # serving.who THEN fetch[f] ELSE answered(f)]
    BY <1>7 DEF Answer
  <2> HIDE DEF answered
  <2> QED
    BY <2>2, <2>3
<1>8. CASE TimePasses
  <2>1. /\ ~Urgent
        /\ fetch' = [f \in Fetches |->
                       IF fetch[f].stage \in Waiting THEN [fetch[f] EXCEPT !.left = @ - 1]
                       ELSE fetch[f]]
    BY <1>8 DEF TimePasses
  <2>2. ASSUME NEW f \in Fetches PROVE FetchTypes(fetch'[f])
    <3>1. FetchTypes(fetch[f])
      OBVIOUS
    <3>2. CASE fetch[f].stage \in Waiting
      <4>1. fetch'[f] = [fetch[f] EXCEPT !.left = fetch[f].left - 1] /\ fetch[f].left # 0
        BY <2>1, <3>2 DEF Urgent
      <4>2. /\ Times \union Parts \subseteq DOMAIN fetch'[f]
            /\ fetch'[f].left = fetch[f].left - 1
            /\ fetch'[f].stage = fetch[f].stage /\ fetch'[f].budget = fetch[f].budget
            /\ fetch'[f].sent = fetch[f].sent /\ fetch'[f].whole = fetch[f].whole
            /\ fetch'[f].result = fetch[f].result
        BY <3>1, <4>1 DEF FetchTypes, Times, Parts
      <4>3. fetch[f].left - 1 \in 0 .. FETCH_TIMEOUT
        BY <3>1, <4>1, Deadlines DEF FetchTypes
      <4> QED
        BY <3>1, <4>2, <4>3 DEF FetchTypes
    <3>3. CASE fetch[f].stage \notin Waiting
      BY <2>1, <3>1, <3>3
    <3> QED
      BY <3>2, <3>3
  <2> QED
    BY <2>1, <2>2
<1>9. ASSUME NEW f \in Fetches, Ask(f) PROVE TypesInv'
  BY <1>3, <1>9, FreshTypes DEF Ask
<1>10. ASSUME NEW f \in Fetches, FetchFails(f) PROVE TypesInv'
  BY <1>3, <1>10, FreshTypes DEF FetchFails
<1>11. ASSUME NEW f \in Fetches, Connected(f) PROVE TypesInv'
  <2>1. fetch' = [fetch EXCEPT ![f].stage = "queued", ![f].ahead = Len(queue) + Occupied,
                               ![f].budget = fetch[f].left]
    BY <1>11 DEF Connected
  <2>2. FetchTypes(fetch[f])
    OBVIOUS
  <2>3. /\ Times \union Parts \subseteq DOMAIN fetch'[f] /\ DOMAIN fetch' = Fetches
        /\ fetch'[f].stage = "queued"
        /\ fetch'[f].left = fetch[f].left /\ fetch'[f].budget = fetch[f].left
        /\ fetch'[f].sent = fetch[f].sent /\ fetch'[f].whole = fetch[f].whole
        /\ fetch'[f].result = fetch[f].result
        /\ \A g \in Fetches \ {f} : fetch'[g] = fetch[g]
    BY <2>1, <2>2 DEF FetchTypes, Times, Parts
  <2>4. FetchTypes(fetch'[f])
    BY <2>2, <2>3 DEF FetchTypes, Waiting
  <2> QED
    BY <1>3, <2>3, <2>4
<1>12. ASSUME NEW f \in Fetches, NotConnected(f) PROVE TypesInv'
  <2>1. CASE fetch' = [fetch EXCEPT ![f] = Offline]
    BY <1>3, <2>1, FreshTypes
  <2>2. ASSUME NEW answer \in Foreign,
               fetch' = [fetch EXCEPT ![f].stage = "answered", ![f].answer = answer]
        PROVE  TypesInv'
    <3>1. FetchTypes(fetch[f])
      OBVIOUS
    <3>2. /\ Times \union Parts \subseteq DOMAIN fetch'[f] /\ DOMAIN fetch' = Fetches
          /\ fetch'[f].stage = "answered"
          /\ fetch'[f].left = fetch[f].left /\ fetch'[f].budget = fetch[f].budget
          /\ fetch'[f].sent = fetch[f].sent /\ fetch'[f].whole = fetch[f].whole
          /\ fetch'[f].result = fetch[f].result
          /\ \A g \in Fetches \ {f} : fetch'[g] = fetch[g]
      BY <2>2, <3>1 DEF FetchTypes, Times, Parts
    <3>3. FetchTypes(fetch'[f])
      BY <3>1, <3>2 DEF FetchTypes, Waiting
    <3> QED
      BY <1>3, <3>2, <3>3
  <2> QED
    BY <1>12, <2>1, <2>2 DEF NotConnected
<1>13. ASSUME NEW f \in Fetches, AnswerEnds(f) PROVE TypesInv'
  <2> DEFINE answer == fetch[f].answer
  <2>1. MadeOf(answer, fetch[f].sent) /\ FetchTypes(fetch[f])
    BY <1>13 DEF AnswerEnds, AnswersInv, Sound
  <2>2. PICK n \in 0 .. Len(answer) :
          fetch' = [fetch EXCEPT
                      ![f].stage = IF TooLong(n) THEN "offline" ELSE "done",
                      ![f].left = 0, ![f].answer = <<>>, ![f].whole = (n = Len(answer)),
                      ![f].result = IF TooLong(n) THEN NoReading
                                    ELSE ParseResponse(SubSeq(answer, 1, n))]
    BY <1>13 DEF AnswerEnds
  <2>3. /\ Times \union Parts \subseteq DOMAIN fetch'[f] /\ DOMAIN fetch' = Fetches
        /\ fetch'[f].stage \in {"offline", "done"} /\ fetch'[f].left = 0
        /\ fetch'[f].budget = fetch[f].budget
        /\ fetch'[f].sent = fetch[f].sent /\ fetch'[f].whole = (n = Len(answer))
        /\ fetch'[f].result = IF TooLong(n) THEN NoReading
                              ELSE ParseResponse(SubSeq(answer, 1, n))
        /\ \A g \in Fetches \ {f} : fetch'[g] = fetch[g]
    BY <2>1, <2>2 DEF FetchTypes, Times, Parts
  <2>4. ~TooLong(n) => ParseResponse(SubSeq(answer, 1, n))
                         = IF n = Len(answer) THEN fetch[f].sent ELSE NoReading
    BY <2>1, AnswerIsRead
  <2> HIDE DEF answer
  <2>5. fetch'[f].result \in {fetch[f].sent, NoReading}
    BY <2>3, <2>4
  <2>6. FetchTypes(fetch'[f])
    BY <2>1, <2>3, <2>5, Deadlines, SampledAreShared DEF FetchTypes
  <2> QED
    BY <1>3, <2>3, <2>6
<1> QED
  BY <1>4, <1>5, <1>6, <1>7, <1>8, <1>9, <1>10, <1>11, <1>12, <1>13 DEF Next

\* The listener, its queue and every fetch keep their types: what a fetch was sent and
\* what it returned are readings, and its time stays within the timeout, which is never
\* counted below zero, for any deadlines, fetches and readings, so long as no other
\* program on the port answers with a reading (share.rs:144-305).
THEOREM TypeCorrect == ASSUME OthersAreUnreadable PROVE Spec => []TypeOK
<1>1. Init => TypesInv
  BY FreshTypes DEF Init, TypesInv
<1>2. ASSUME AnswersInv, [Next]_vars PROVE AnswersInv'
  BY <1>2, AnswersStep
<1>3. ASSUME AnswersInv, TypesInv, [Next]_vars PROVE TypesInv'
  BY <1>3, TypesStep
<1>4. ASSUME Inv, AnswersInv, TypesInv PROVE TypeOK
  BY <1>4 DEF Inv, ListenerType, FetchType, AnswersInv, TypesInv, FetchTypes, TypeOK
<1> QED
  BY <1>1, <1>2, <1>3, <1>4, InitAnswers, Invariance, PTL DEF Spec
================================================================================
