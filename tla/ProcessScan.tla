------------------------------ MODULE ProcessScan ------------------------------
(***************************************************************************)
(* One app scan of rami: ProcessMemorySampler::sample in                   *)
(* src/process_memory.rs, on its worker thread.  It takes the listed pids  *)
(* one by one, reads each footprint, walks the chain of responsible        *)
(* processes to the app the process works for, and adds the footprints up. *)
(*                                                                         *)
(* The kernel lists pids in an order of its own and processes exit while   *)
(* the scan looks at them.  What a walk finds is remembered for every      *)
(* process it passed, so one walk decides what later ones see.             *)
(*                                                                         *)
(* Paths are abstracted to the outermost bundle they lie in.  Left out: a  *)
(* pid reused within a scan, and the saturation of 64-bit sums.            *)
(***************************************************************************)
EXTENDS AppNames, Sequences, FiniteSets, FiniteSetsExt, SequencesExt, Functions

CONSTANTS
  Pids,                      \* the positive pids of the processes
  SelfPid,                   \* rami's own
  Agents,                    \* bundles under /System/Library, /Library, ...
  Machines,                  \* process tables at the start of a scan
  RESPONSIBILITY_MAX_HOPS,
  TopN,                      \* APP_BASELINE_ROW_LIMIT
  MaxExits                   \* bound: processes that exit during the scan

VARIABLES
  machine,   \* what the kernel knows: listed, bundle, responsible, footprint
  exited,    \* processes gone since
  todo,      \* listed pids not taken yet
  walk,      \* the walk under way
  bundle_memo,
  records,   \* one per process counted
  result     \* what the thread sends

vars == <<machine, exited, todo, walk, bundle_memo, records, result>>

NoApp == "NoApp"       \* no bundle, or no app found
Unknown == "Unknown"   \* no memo entry

\* What the thread sends: rows, an error, or nothing yet.
Pending == [status |-> "pending", rows |-> <<>>]
Err == [status |-> "err", rows |-> <<>>]
Loaded(rows) == [status |-> "ok", rows |-> rows]

Machine == [listed: SUBSET (Pids \union {0}),
            bundle: [Pids -> Apps \union Agents \union {NoApp}],
            responsible: [Pids -> Pids \union {0}],
            footprint: [Pids -> Nat]]

ASSUME ConstantsAssumption ==
  /\ Pids \subseteq Nat \ {0} /\ IsFiniteSet(Pids)
  /\ SelfPid \in Nat \ {0}
  /\ Apps \cap Agents = {}
  /\ {NoApp, Unknown} \cap (Apps \union Agents) = {}
  /\ Machines \subseteq Machine
  /\ RESPONSIBILITY_MAX_HOPS \in Nat \ {0}
  /\ TopN \in Nat \ {0}
  /\ MaxExits \in Nat

NoWalk == [pid |-> 0, current |-> 0, last |-> 0, visited |-> <<>>, bytes |-> 0]

Init ==
  /\ machine \in Machines
  /\ exited = {}
  /\ todo = machine.listed
  /\ walk = NoWalk
  /\ bundle_memo = [p \in Pids |-> Unknown]
  /\ records = {}
  /\ result = IF machine.listed = {} THEN Err ELSE Pending

--------------------------------------------------------------------------------
(* What the kernel answers.  A process that has exited has no footprint, no path *)
(* and nobody responsible for it.                                                *)

ReadPhysFootprint(pid) == IF pid \in Pids \ exited THEN machine.footprint[pid] ELSE 0
ExecBundle(pid) == IF pid \in exited THEN NoApp ELSE machine.bundle[pid]
ResponsiblePid(pid) == IF pid \in exited THEN 0 ELSE machine.responsible[pid]

AnyBundle(bundle) == bundle # NoApp

IsUserFacing(bundle) == bundle \in Apps

--------------------------------------------------------------------------------
(* The loop over the listed pids *)

ShouldSkip(pid) == pid = 0 \/ pid = SelfPid

Scanning == result = Pending /\ walk = NoWalk

\* The scan's own process, pid 0, and a process without a footprint.
Skip(pid) ==
  /\ Scanning /\ pid \in todo
  /\ ShouldSkip(pid) \/ ReadPhysFootprint(pid) = 0
  /\ todo' = todo \ {pid}
  /\ UNCHANGED <<machine, exited, walk, bundle_memo, records, result>>

Begin(pid) ==
  /\ Scanning /\ pid \in todo
  /\ ~ShouldSkip(pid) /\ ReadPhysFootprint(pid) > 0
  /\ todo' = todo \ {pid}
  /\ walk' = [pid |-> pid, current |-> pid, last |-> 0, visited |-> <<>>,
              bytes |-> ReadPhysFootprint(pid)]
  /\ UNCHANGED <<machine, exited, bundle_memo, records, result>>

\* The walk is over: its resolution is kept for every process it passed, and the
\* process it was for is counted when there is an app.
Resolve(passed, app) ==
  /\ bundle_memo' = [p \in Pids |-> IF p \in passed THEN app ELSE bundle_memo[p]]
  /\ records' = IF app = NoApp THEN records
                ELSE records \union {[pid |-> walk.pid, app |-> app, bytes |-> walk.bytes]}
  /\ walk' = NoWalk

OneHopTooFew == Len(walk.visited) = RESPONSIBILITY_MAX_HOPS - 1

OutOfHops == Len(walk.visited) = RESPONSIBILITY_MAX_HOPS

VisitedOnce(pid) ==
  IF pid \in ToSet(walk.visited) THEN walk.visited ELSE Append(walk.visited, pid)

\* The array of visited pids; its length is the number of hops taken.
Visited(pid) == Append(walk.visited, pid)

PassedAndCurrent == ToSet(walk.visited) \union {walk.current}

\* The processes looked at so far.
Passed == ToSet(walk.visited)

GiveUp ==
  /\ walk # NoWalk /\ OutOfHops
  /\ Resolve(Passed, NoApp)
  /\ UNCHANGED <<machine, exited, todo, result>>

Recall ==
  /\ walk # NoWalk /\ ~OutOfHops
  /\ bundle_memo[walk.current] # Unknown
  /\ Resolve(Passed, bundle_memo[walk.current])
  /\ UNCHANGED <<machine, exited, todo, result>>

Hop ==
  LET bundle == ExecBundle(walk.current)
      responsible == ResponsiblePid(walk.current)
  IN  /\ walk # NoWalk /\ ~OutOfHops
      /\ bundle_memo[walk.current] = Unknown
      /\ IF IsUserFacing(bundle) THEN Resolve(Passed \union {walk.current}, bundle)
         ELSE IF responsible \in {0, walk.current, walk.last}
         THEN Resolve(Passed \union {walk.current}, NoApp)
         ELSE /\ walk' = [walk EXCEPT !.visited = Visited(walk.current),
                                      !.last = walk.current, !.current = responsible]
              /\ UNCHANGED <<bundle_memo, records>>
      /\ UNCHANGED <<machine, exited, todo, result>>

--------------------------------------------------------------------------------
(* aggregate *)

Total(app) == SumFunctionOnSet([r \in records |-> r.bytes], {r \in records : r.app = app})

Rows == {[app |-> a, bytes |-> Total(a)] : a \in {r.app : r \in records}}

Before(a, b) ==
  \/ a.bytes > b.bytes
  \/ a.bytes = b.bytes /\ DisplayName[a.app] < DisplayName[b.app]

\* The orders the sort can produce: rows equal in both keys stay as the hash map
\* happened to list them.
Sorted(rows) ==
  {s \in SetToSeqs(rows) : \A i, j \in DOMAIN s : i < j => ~Before(s[j], s[i])}

Truncated(rows) ==
  {SubSeq(s, 1, IF Len(s) < TopN THEN Len(s) ELSE TopN) : s \in Sorted(rows)}

Finish ==
  /\ Scanning /\ todo = {}
  /\ \/ records = {} /\ result' = Err
     \/ records # {} /\ \E rows \in Truncated(Rows) : result' = Loaded(rows)
  /\ UNCHANGED <<machine, exited, todo, walk, bundle_memo, records>>

--------------------------------------------------------------------------------

Exits(pid) ==
  /\ result = Pending /\ pid # SelfPid /\ pid \notin exited
  /\ Cardinality(exited) < MaxExits
  /\ exited' = exited \union {pid}
  /\ UNCHANGED <<machine, todo, walk, bundle_memo, records, result>>

Step ==
  \/ \E pid \in todo : Skip(pid) \/ Begin(pid)
  \/ Recall \/ Hop \/ GiveUp
  \/ Finish

Next == Step \/ \E pid \in Pids : Exits(pid)

Spec == Init /\ [][Next]_vars

\* The worker thread runs.
FairSpec == Spec /\ WF_vars(Step)

--------------------------------------------------------------------------------
(* Which app a process works for, from the process table alone: the bundle it is *)
(* in or, failing that, the one found along the chain, looking at n processes.   *)

OwnerWithin[n \in Nat] ==
  [pid \in Pids \union {0} |->
     IF n = 0 \/ pid = 0 THEN NoApp
     ELSE IF machine.bundle[pid] \in Apps THEN machine.bundle[pid]
     ELSE OwnerWithin[n - 1][machine.responsible[pid]]]

Owner(pid) == OwnerWithin[Cardinality(Pids)][pid]

\* No process is further from its app than a walk goes.
WithinReach ==
  \A p \in Pids : OwnerWithin[RESPONSIBILITY_MAX_HOPS][p] = Owner(p)

Countable == {p \in machine.listed \ {0, SelfPid} : machine.footprint[p] > 0}

OwnerTotal(app) ==
  SumFunctionOnSet(machine.footprint, {p \in Countable : Owner(p) = app})

TypeOK ==
  /\ machine \in Machine
  /\ exited \subseteq Pids
  /\ todo \subseteq machine.listed
  /\ walk \in [pid: Pids \union {0}, current: Pids \union {0}, last: Pids \union {0},
               visited: Seq(Pids), bytes: Nat]
  /\ Len(walk.visited) <= RESPONSIBILITY_MAX_HOPS
  /\ bundle_memo \in [Pids -> Apps \union {NoApp, Unknown}]
  /\ records \subseteq [pid: Pids, app: Apps, bytes: Nat]
  /\ result \in [status: {"pending", "err", "ok"}, rows: Seq([app: Apps, bytes: Nat])]
  /\ Len(result.rows) <= TopN

\* Whatever was remembered and whoever exits meanwhile, a process's memory is never
\* put down to another app, and an agent is never a row (process_memory.rs:179-235).
NeverAnotherApp == \A r \in records : r.app = Owner(r.pid)

\* Running out of hops never costs a process that is itself inside an app: what a
\* failed walk leaves in the memo covers only processes without an app of their own
\* (process_memory.rs:179-235).
AppsOwnProcessIsCounted ==
  \A p \in Countable \ (todo \union exited) :
    machine.bundle[p] \in Apps /\ walk.pid # p => \E r \in records : r.pid = p

\* When no process is out of reach and none exits, the rows are what the process
\* table alone says they are, in whatever order the pids came: every row is its
\* app's whole memory, and an app left out has no more than any row
\* (process_memory.rs:73-96, 179-235, 272-302).
RowsAreTheHeaviestApps ==
  result.status = "ok" /\ exited = {} /\ WithinReach =>
    LET rows == ToSet(result.rows)
        left_out == {a \in Apps : OwnerTotal(a) > 0 /\ \A r \in rows : r.app # a}
    IN  /\ \A r \in rows : r.bytes = OwnerTotal(r.app)
        /\ left_out # {} => Len(result.rows) = TopN
        /\ \A r \in rows, a \in left_out : r.bytes >= OwnerTotal(a)

\* Every scan ends, cycles of responsibility and all: the in-flight flag of the
\* engine relies on it (process_memory.rs:179-224).
ScanEnds == <>(result # Pending)

================================================================================
