--------------------------------- MODULE Asking ---------------------------------
(***************************************************************************)
(* What the dropdown promises about a section that a worker thread fills:  *)
(* the app list, the shared Mac.  A request is made, is answered and its   *)
(* answer shown; or it is forgotten, and then nothing of it is ever shown. *)
(*                                                                         *)
(* There are no threads here, no channel, no generations, no timers: how   *)
(* the engine keeps the promise with them is RefreshEngine's business.     *)
(***************************************************************************)

CONSTANT Outlives  \* TRUE or FALSE: a request outlives the dropdown it was made in

VARIABLES
  view,     \* what the section says
  request,  \* the one request whose answer is wanted, and how far it is
  open,     \* the dropdown is open
  sampled   \* the last memory sample, without which nothing is drawn, succeeded

vars == <<view, request, open, sampled>>

View == {"Hidden", "Loading", "Answer", "Failure"}
Request == {"none", "running", "ok", "err"}
Answered == {"ok", "err"}

Says(answer) == IF answer = "ok" THEN "Answer" ELSE "Failure"

Init == view \in {"Hidden", "Loading"} /\ request = "none" /\ open = FALSE /\ sampled = FALSE

--------------------------------------------------------------------------------

\* The worker is done.
Land ==
  /\ request = "running" /\ request' \in Answered
  /\ UNCHANGED <<view, open, sampled>>

\* What the section says before an answer is taken: what it said; nothing, when it
\* is not wanted; or Loading, when it comes back or the dropdown opens on it.
Before == {view, "Hidden"} \union IF view = "Hidden" \/ ~open THEN {"Loading"} ELSE {}

\* The answer is shown, unless the section is hidden, and the next request may follow.
Take ==
  /\ request \in Answered
  /\ \E said \in Before : view' = IF said = "Hidden" THEN said ELSE Says(request)
  /\ request' \in {"none", "running"}

\* No answer: one may be asked for.
Ask ==
  /\ view' \in Before
  /\ request' \in {request} \union IF request = "none" THEN {"running"} ELSE {}

\* The request is given up, with its section hidden or the dropdown closed.
Forget ==
  /\ view' \in Before
  /\ request' = "none"
  /\ view' = "Hidden" \/ ~open'

Watched == open /\ sampled

\* Nobody is left to watch a section load that nobody fills.
Turn ==
  /\ open' \in BOOLEAN /\ sampled' \in BOOLEAN
  /\ Take \/ Ask \/ Forget
  /\ Watched' /\ view' = "Loading" => request' # "none"
  /\ ~open' => Outlives \/ request' = "none"

Next == Land \/ Turn

Spec == Init /\ [][Next]_vars

\* A watched section does not stay on Loading.
LoadingEnds == (Watched /\ view = "Loading") ~> (~Watched \/ view # "Loading")

LiveSpec == Spec /\ LoadingEnds

================================================================================
