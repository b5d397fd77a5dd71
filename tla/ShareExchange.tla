------------------------------ MODULE ShareExchange ------------------------------
(***************************************************************************)
(* The exchanges of Share over Tailscale in time: serve and answer on the  *)
(* Mac that shares, fetch on the one that asks (src/share.rs), and the     *)
(* clients between that are neither.  Sharing is about the listener's      *)
(* lifetime and takes an exchange to be one step; here the deadlines have  *)
(* their lengths and the answer is what ShareWire makes of a reading.      *)
(*                                                                         *)
(* The listener does one exchange at a time.  Time passes only while it    *)
(* waits, for a connection or for the rest of a request: what it computes  *)
(* takes none next to its deadlines, and an answer, smaller than a socket  *)
(* buffer, is written at once.  The network is as slow as it likes and     *)
(* may end an answer anywhere; on the Mac itself a connection for which    *)
(* there is room takes no time, and one for which there is none waits.     *)
(***************************************************************************)
EXTENDS ShareWire

CONSTANTS
  Fetches,            \* the fetches of other Macs
  IO_TIMEOUT,
  REQUEST_DEADLINE,
  FETCH_TIMEOUT,
  MAX_REQUEST_BYTES,  \* in units, as the answers are
  Readings,           \* what the samplers may read
  Foreign,            \* what another program on the port may answer
  MaxQueue            \* connections the kernel queues on the listener

VARIABLES
  server,    \* the listener: "up", "stopping" once its flag is set, or "down"
  main,      \* the main thread: "free", or in drop "waking" or "joining"
  patience,  \* time left to the connection that is to wake the listener
  queue,     \* the connections not accepted yet
  serving,   \* the connection being answered, or Nobody
  deadline,  \* time left to it
  sampled,   \* the reading it will get; NoReading when the sample failed
  held,      \* how long the exchange has lasted
  frozen,    \* how long the main thread has been in drop
  fetch      \* by fetch: how far it is

listener == <<server, queue, serving, deadline, sampled, held>>
stop == <<main, patience, frozen>>
vars == <<listener, stop, fetch>>

Stranger == "Stranger"
Wake == "Wake"       \* the throwaway connection of drop

\* ready: reading its request will not block, as all of it has arrived or its client
\* has hung up.
Connection == [who: Fetches \union {Stranger, Wake}, ready: BOOLEAN]
Nobody == [who |-> "Nobody", ready |-> FALSE]

ASSUME ConstantsAssumption ==
  /\ IO_TIMEOUT \in Nat \ {0}
  /\ REQUEST_DEADLINE \in Nat \ {0} /\ FETCH_TIMEOUT \in Nat \ {0}
  /\ MAX_REQUEST_BYTES \in Nat
  /\ Readings \subseteq SharedReading
  /\ MaxQueue \in Nat \ {0}
  /\ Fetches \cap {Stranger, Wake, Nobody.who} = {}

\* What a Mac reads has all memory numbers, both CPU numbers or neither, and whole ones
\* (share.rs:39-46).
WellFormed(reading) ==
  /\ reading["memory"] = Whole
  /\ reading["cpu_user_percent"] = NoNumber <=> reading["cpu_system_percent"] = NoNumber
  /\ \A f \in Field : reading[f] \in {NoNumber, Whole}

ASSUME ReadingsAssumption == \A reading \in Readings : WellFormed(reading)

\* A fetch: its time left; the connections before it and the time it had when it
\* reached the queue; the answer on its way, the reading that answer was made of,
\* whether all of it arrived, and what the fetch returned.
Idle == [stage |-> "idle", left |-> 0, ahead |-> 0, budget |-> 0,
         answer |-> <<>>, sent |-> NoReading, whole |-> FALSE, result |-> NoReading]
Offline == [Idle EXCEPT !.stage = "offline"]

Waiting == {"connecting", "queued", "answered"}

Init ==
  /\ server = "down" /\ main = "free" /\ patience = 0
  /\ queue = <<>> /\ serving = Nobody /\ deadline = 0 /\ sampled = NoReading
  /\ held = 0 /\ frozen = 0
  /\ fetch = [f \in Fetches |-> Idle]

--------------------------------------------------------------------------------
(* Whoever connects *)

Occupied == IF serving = Nobody THEN 0 ELSE 1

HasRoom == Len(queue) < MaxQueue

Enter(who, ready) == queue' = Append(queue, [who |-> who, ready |-> ready])

StrangerConnects ==
  /\ server # "down" /\ HasRoom
  /\ \E ready \in BOOLEAN : Enter(Stranger, ready)
  /\ UNCHANGED <<server, serving, deadline, sampled, held, stop, fetch>>

\* fetch() begins: the deadline is set before the connection is made.
Ask(f) ==
  /\ fetch[f].stage \notin Waiting
  /\ fetch' = [fetch EXCEPT ![f] = [Idle EXCEPT !.stage = "connecting",
                                                !.left = FETCH_TIMEOUT]]
  /\ UNCHANGED <<listener, stop>>

\* The connection reaches the listener, with its request or before it.
Connected(f) ==
  /\ fetch[f].stage = "connecting" /\ server # "down" /\ HasRoom
  /\ \E ready \in BOOLEAN : Enter(f, ready)
  /\ fetch' = [fetch EXCEPT ![f].stage = "queued", ![f].ahead = Len(queue) + Occupied,
                            ![f].budget = fetch[f].left]
  /\ UNCHANGED <<server, serving, deadline, sampled, held, stop>>

\* Nobody listens on the port, or another program does.
NotConnected(f) ==
  /\ fetch[f].stage = "connecting" /\ server = "down"
  /\ \/ fetch' = [fetch EXCEPT ![f] = Offline]
     \/ \E answer \in Foreign :
          fetch' = [fetch EXCEPT ![f].stage = "answered", ![f].answer = answer]
  /\ UNCHANGED <<listener, stop>>

\* The rest of a request arrives, or its client hangs up.
RequestArrives ==
  /\ \/ /\ \E i \in DOMAIN queue : /\ ~queue[i].ready
                                   /\ queue' = [queue EXCEPT ![i].ready = TRUE]
        /\ UNCHANGED serving
     \/ /\ serving # Nobody /\ ~serving.ready
        /\ serving' = [serving EXCEPT !.ready = TRUE]
        /\ UNCHANGED queue
  /\ UNCHANGED <<server, deadline, sampled, held, stop, fetch>>

--------------------------------------------------------------------------------
(* The listener *)

\* The fetches whose connections are reset.
Reset(dropped) ==
  fetch' = [f \in Fetches |-> IF \E c \in dropped : c.who = f THEN Offline ELSE fetch[f]]

Queued == {queue[i] : i \in DOMAIN queue}

TimeToAnswerTwice == 2 * REQUEST_DEADLINE
TimeToAnswer == REQUEST_DEADLINE

\* Accept, look at the stop flag, sample.
Accept ==
  /\ server # "down" /\ serving = Nobody /\ queue # <<>>
  /\ IF server = "stopping"
     THEN /\ server' = "down" /\ queue' = <<>>
          /\ Reset(Queued)
          /\ UNCHANGED <<serving, deadline, sampled, held>>
     ELSE /\ serving' = Head(queue) /\ queue' = Tail(queue)
          /\ deadline' = TimeToAnswer /\ held' = 0
          /\ sampled' \in Readings \union {NoReading}
          /\ UNCHANGED <<server, fetch>>
  /\ UNCHANGED stop

DeadlinePerRead == TimeToAnswer

\* The deadline after a read that did not end the request.
RemainsAfterRead == deadline

\* A client that drips bytes.
Drip ==
  /\ serving # Nobody /\ ~serving.ready /\ deadline > 0
  /\ deadline' = RemainsAfterRead
  /\ UNCHANGED <<server, queue, serving, sampled, held, stop, fetch>>

Response ==
  IF sampled = NoReading THEN HttpResponse(503, <<Unit("error", 0)>>)
  ELSE HttpResponse(200, Encode(sampled))

\* With its request or without, the client is answered and the connection closed.
Answer ==
  /\ serving # Nobody /\ (serving.ready \/ deadline = 0)
  /\ serving' = Nobody /\ deadline' = 0 /\ held' = 0 /\ sampled' = NoReading
  /\ fetch' = [f \in Fetches |->
                 IF f # serving.who THEN fetch[f]
                 ELSE [fetch[f] EXCEPT !.stage = "answered", !.answer = Response,
                                       !.sent = sampled, !.ahead = 0, !.budget = 0]]
  /\ UNCHANGED <<server, queue, stop>>

--------------------------------------------------------------------------------
(* The main thread, and the end of the process *)

Start ==
  /\ server = "down" /\ main = "free"
  /\ server' = "up"
  /\ UNCHANGED <<queue, serving, deadline, sampled, held, stop, fetch>>

FetchsTimeout == FETCH_TIMEOUT

\* What drop gives its connection.
WakeTimeout == IO_TIMEOUT

\* ShareServer's drop sets the flag and begins to connect.
Stop ==
  /\ server = "up"
  /\ server' = "stopping" /\ main' = "waking" /\ patience' = WakeTimeout
  /\ UNCHANGED <<queue, serving, deadline, sampled, held, frozen, fetch>>

\* The connection is made where there is room.  On a full queue it waits for its
\* timeout, as it may where the listener has gone meanwhile, or is refused before;
\* drop ignores which.
Woken ==
  /\ main = "waking"
  /\ main' = "joining" /\ patience' = 0
  /\ IF server = "stopping" /\ HasRoom THEN Enter(Wake, TRUE) ELSE UNCHANGED queue
  /\ UNCHANGED <<server, serving, deadline, sampled, held, frozen, fetch>>

\* drop returns when the listener has.
Joined ==
  /\ main = "joining" /\ server = "down"
  /\ main' = "free" /\ frozen' = 0
  /\ UNCHANGED <<listener, patience, fetch>>

\* Quit or a crash: what was written is still delivered.
Exit ==
  /\ server # "down"
  /\ server' = "down" /\ queue' = <<>> /\ serving' = Nobody
  /\ deadline' = 0 /\ sampled' = NoReading /\ held' = 0
  /\ main' = "free" /\ patience' = 0 /\ frozen' = 0
  /\ Reset(Queued \union {serving})

--------------------------------------------------------------------------------
(* The answer arrives *)

TooLong(n) == n > MAX_REQUEST_BYTES

\* The connection ends after any part of the answer: all of it, or it was cut.
AnswerEnds(f) ==
  /\ fetch[f].stage = "answered"
  /\ \E n \in 0 .. Len(fetch[f].answer) :
       fetch' = [fetch EXCEPT
                   ![f].stage = IF TooLong(n) THEN "offline" ELSE "done",
                   ![f].left = 0, ![f].answer = <<>>, ![f].whole = (n = Len(fetch[f].answer)),
                   ![f].result = IF TooLong(n) THEN NoReading
                                 ELSE ParseResponse(SubSeq(fetch[f].answer, 1, n))]
  /\ UNCHANGED <<listener, stop>>

\* Out of time, or an error on the connection; where it is queued it stays, closed.
FetchFails(f) ==
  /\ fetch[f].stage \in Waiting
  /\ fetch' = [fetch EXCEPT ![f] = Offline]
  /\ LET closed(c) == IF c.who = f THEN [who |-> Stranger, ready |-> TRUE] ELSE c
     IN  /\ queue' = [i \in DOMAIN queue |-> closed(queue[i])]
         /\ serving' = closed(serving)
  /\ UNCHANGED <<server, deadline, sampled, held, stop>>

--------------------------------------------------------------------------------
(* Time *)

\* Something happens before any time passes.
Urgent ==
  \/ server # "down" /\ serving = Nobody /\ queue # <<>>
  \/ serving # Nobody /\ (serving.ready \/ deadline = 0)
  \/ main = "waking" /\ (patience = 0 \/ (server = "stopping" /\ HasRoom))
  \/ main = "joining" /\ server = "down"
  \/ \E f \in Fetches : fetch[f].stage \in Waiting /\ fetch[f].left = 0

\* What a stop may take: to connect on a full queue takes its timeout, and meanwhile
\* the exchange under way ends.
LongestStop == IF IO_TIMEOUT > REQUEST_DEADLINE THEN IO_TIMEOUT ELSE REQUEST_DEADLINE

\* The clocks of properties stop just past what the properties allow.
Later(clock, limit) == IF clock <= limit THEN clock + 1 ELSE clock

TimePasses ==
  /\ ~Urgent
  /\ deadline' = IF deadline > 0 THEN deadline - 1 ELSE 0
  /\ held' = IF serving = Nobody THEN 0 ELSE Later(held, REQUEST_DEADLINE)
  /\ patience' = IF patience > 0 THEN patience - 1 ELSE 0
  /\ frozen' = IF main = "free" THEN 0 ELSE Later(frozen, LongestStop)
  /\ fetch' = [f \in Fetches |->
                 IF fetch[f].stage \in Waiting THEN [fetch[f] EXCEPT !.left = @ - 1]
                 ELSE fetch[f]]
  /\ UNCHANGED <<server, main, queue, serving, sampled>>

--------------------------------------------------------------------------------

Next ==
  \/ StrangerConnects \/ RequestArrives
  \/ Accept \/ Drip \/ Answer \/ Start \/ Stop \/ Woken \/ Joined \/ Exit
  \/ \E f \in Fetches :
       Ask(f) \/ Connected(f) \/ NotConnected(f) \/ AnswerEnds(f) \/ FetchFails(f)
  \/ TimePasses

Spec == Init /\ [][Next]_vars

--------------------------------------------------------------------------------
(* Properties *)

TypeOK ==
  /\ server \in {"up", "stopping", "down"} /\ main \in {"free", "waking", "joining"}
  /\ queue \in Seq(Connection)
  /\ serving \in Connection \union {Nobody}
  /\ deadline \in Nat /\ held \in Nat
  /\ patience \in 0 .. IO_TIMEOUT /\ frozen \in Nat
  /\ sampled \in Readings \union {NoReading}
  /\ \A f \in Fetches :
       /\ fetch[f].stage \in Waiting \union {"idle", "done", "offline"}
       /\ fetch[f].left \in 0 .. FETCH_TIMEOUT /\ fetch[f].budget \in 0 .. FETCH_TIMEOUT
       /\ fetch[f].ahead \in Nat /\ fetch[f].whole \in BOOLEAN
       /\ fetch[f].sent \in SharedReading /\ fetch[f].result \in SharedReading

\* A fetch returns the reading the other Mac sampled exactly when all of its answer
\* arrived: never numbers of one that was cut, of a failed sample, of another version
\* or another program, and never without one it could have read (share.rs:103-200).
ReadsWholeAnswersOnly ==
  \A f \in Fetches : fetch[f].stage = "done" =>
    fetch[f].result = IF fetch[f].whole THEN fetch[f].sent ELSE NoReading

\* However its client drips, an exchange holds the listener for the request deadline at
\* most, and once told to stop the listener ends within that deadline, whatever is
\* queued.  The main thread is held until then, or until its waking connection times out
\* on a full queue if that is later (share.rs:224-234, 276-305).
ExchangesAreBounded ==
  /\ held <= REQUEST_DEADLINE
  /\ frozen <= LongestStop
  /\ server = "stopping" => frozen <= REQUEST_DEADLINE

\* A fetch that reached the queue in time is answered before it gives up, whoever is
\* before it: each of them, and its own request if that is slow, costs the request
\* deadline at most (share.rs:31-34, 155-184, 252-305).
PromptFetchIsAnswered ==
  \A f \in Fetches : fetch[f].stage = "queued" /\ fetch[f].left = 0 =>
    (fetch[f].ahead + 1) * REQUEST_DEADLINE >= fetch[f].budget

================================================================================
