--------------------------------- MODULE AppRows ---------------------------------
(***************************************************************************)
(* The app rows of rami: what becomes of the rows of one app scan after    *)
(* another, from src/engine.rs (the baseline of the growth figures),       *)
(* src/trend.rs (growth and ranking) and src/format.rs (the rows drawn).   *)
(*                                                                         *)
(* A scan reports the apps that run, with any footprints: what a scan does *)
(* is in ProcessScan.  A figure of growth must span two scans the user saw *)
(* one after the other, not too far apart.                                 *)
(*                                                                         *)
(* Left out: scans that overlap and answers of an earlier generation,      *)
(* which RefreshEngine has (they are dropped), and the text of a row.      *)
(***************************************************************************)
EXTENDS AppNames, Integers, Sequences, FiniteSets, FiniteSetsExt, SequencesExt

CONSTANTS
  Footprint,                   \* the footprints a scan may report
  MEANINGFUL_APP_DELTA_BYTES,
  APP_DELTA_BASELINE_MAX_AGE,
  APP_USAGE_ROW_LIMIT,
  ScanLimit,                   \* APP_BASELINE_ROW_LIMIT
  MaxTime                      \* bound: the clock stops there

VARIABLES
  now,
  show_app_usage,
  channel,             \* the answer of the last scan, or None
  app_memory,          \* what the menu is given
  last_app_rows,       \* the baseline
  last_app_sample_at   \* its time, or None

rowsVars == <<now, show_app_usage, channel, app_memory, last_app_rows, last_app_sample_at>>

None == -1
NoAnswer == [status |-> "none", completed_at |-> 0, rows |-> <<>>]
Snapshot(state, rows) == [state |-> state, rows |-> rows]

\* A row's delta is the set of its value: {} is None.

ASSUME RowsAssumption ==
  /\ IsFiniteSet(Apps)
  /\ Footprint \subseteq Nat \ {0} /\ IsFiniteSet(Footprint)
  /\ MEANINGFUL_APP_DELTA_BYTES \in Nat \ {0}
  /\ APP_DELTA_BASELINE_MAX_AGE \in Nat
  /\ APP_USAGE_ROW_LIMIT \in Nat \ {0}
  /\ ScanLimit \in Nat \ {0}
  /\ MaxTime \in Nat

RowsInit ==
  /\ now = 0
  /\ show_app_usage \in BOOLEAN
  /\ channel = NoAnswer
  /\ app_memory = Snapshot(IF show_app_usage THEN "Loading" ELSE "Hidden", <<>>)
  /\ last_app_rows = <<>>
  /\ last_app_sample_at = None

--------------------------------------------------------------------------------
(* trend.rs: growth and ranking *)

PreviousRowsAtAnyAge(completed_at) == last_app_rows

\* previous_app_rows_if_fresh
PreviousRowsIfFresh(completed_at) ==
  IF /\ last_app_sample_at # None
     /\ completed_at - last_app_sample_at <= APP_DELTA_BASELINE_MAX_AGE
  THEN last_app_rows ELSE <<>>

\* The row with its growth since the same app's row in previous.
WithDelta(row, previous) ==
  LET same == {i \in DOMAIN previous : previous[i].app = row.app}
  IN  [row EXCEPT !.delta =
         {row.bytes - previous[i].bytes : i \in same}]

\* delta_bytes.unwrap_or(0).max(0)
Growth(row) == Max({0} \union row.delta)

Meaningful(row) == Growth(row) >= MEANINGFUL_APP_DELTA_BYTES

LargerFirst(a, b) ==
  \/ a.bytes > b.bytes
  \/ a.bytes = b.bytes /\ DisplayName[a.app] < DisplayName[b.app]

\* sort_by is stable: among rows of which neither goes before the other the first
\* stays first.  pairs has the places <<i, j>> of which i goes before j.
StablySorted(rows, pairs) ==
  LET first(i, j) == <<i, j>> \in pairs \/ (<<j, i>> \notin pairs /\ i < j)
      place == [i \in DOMAIN rows |-> Cardinality({j \in DOMAIN rows : first(j, i)}) + 1]
  IN  [k \in DOMAIN rows |-> rows[CHOOSE i \in DOMAIN rows : place[i] = k]]

Pairs(rows) == (DOMAIN rows) \X (DOMAIN rows)

BySize(rows) ==
  StablySorted(rows, {p \in Pairs(rows) : LargerFirst(rows[p[1]], rows[p[2]])})

GrewMore(a, b) == Growth(a) > Growth(b) \/ (Growth(a) = Growth(b) /\ LargerFirst(a, b))

\* By growth when some app grew for real, by size otherwise.
RankAppRows(rows) ==
  IF \E i \in DOMAIN rows : Meaningful(rows[i])
  THEN StablySorted(rows, {p \in Pairs(rows) : GrewMore(rows[p[1]], rows[p[2]])})
  ELSE BySize(rows)

AppRowsWithDeltas(rows, previous) ==
  RankAppRows([i \in DOMAIN rows |-> WithDelta(rows[i], previous)])

--------------------------------------------------------------------------------
(* The rows a scan sends: the heaviest apps, heaviest first, rows equal in size and *)
(* name in any order.                                                               *)

AtMost(rows, limit) == SubSeq(rows, 1, IF Len(rows) < limit THEN Len(rows) ELSE limit)

HeaviestFirst(rows) ==
  {s \in SetToSeqs(rows) : \A i, j \in DOMAIN s : i < j => ~LargerFirst(s[j], s[i])}

ScanCompletes ==
  /\ show_app_usage /\ channel = NoAnswer
  /\ \/ \E running \in (SUBSET Apps) \ {{}} : \E footprint \in [running -> Footprint] :
        \E rows \in HeaviestFirst({[app |-> a, bytes |-> footprint[a], delta |-> {}] :
                                     a \in running}) :
          channel' = [status |-> "ok", completed_at |-> now, rows |-> AtMost(rows, ScanLimit)]
     \/ channel' = [status |-> "err", completed_at |-> now, rows |-> <<>>]
  /\ UNCHANGED <<now, show_app_usage, app_memory, last_app_rows, last_app_sample_at>>

\* drain_app_scan_results takes a good answer.
DrainRows ==
  LET rows == AppRowsWithDeltas(channel.rows, PreviousRowsIfFresh(channel.completed_at))
  IN  /\ channel.status = "ok"
      /\ app_memory' = Snapshot("Loaded", rows)
      /\ last_app_rows' = rows
      /\ last_app_sample_at' = channel.completed_at

ForgetsBaseline == last_app_rows' = <<>> /\ last_app_sample_at' = None

DrainFailure ==
  /\ channel.status = "err"
  /\ app_memory' = Snapshot("Unavailable", <<>>)
  /\ ForgetsBaseline

Drain ==
  /\ DrainRows \/ DrainFailure
  /\ channel' = NoAnswer
  /\ UNCHANGED <<now, show_app_usage>>

\* The Show Apps item; an answer still queued is of an earlier generation then.
Hide ==
  /\ show_app_usage
  /\ show_app_usage' = FALSE
  /\ app_memory' = Snapshot("Hidden", <<>>)
  /\ ForgetsBaseline
  /\ channel' = NoAnswer
  /\ UNCHANGED now

Show ==
  /\ ~show_app_usage
  /\ show_app_usage' = TRUE
  /\ app_memory' = Snapshot("Loading", <<>>)
  /\ UNCHANGED <<now, channel, last_app_rows, last_app_sample_at>>

TimePasses ==
  /\ now < MaxTime
  /\ now' = now + 1
  /\ UNCHANGED <<show_app_usage, channel, app_memory, last_app_rows, last_app_sample_at>>

RowsNext == ScanCompletes \/ Drain \/ Hide \/ Show \/ TimePasses

RowsSpec == RowsInit /\ [][RowsNext]_rowsVars

--------------------------------------------------------------------------------
(* The rows drawn *)

RankedThenCut(rows) == AtMost(rows, APP_USAGE_ROW_LIMIT)

HeaviestThenRanked(rows) == RankedThenCut(BySize(rows))

\* app_section_display takes the first rows; app_row shows the growth of those that
\* grew for real.
DisplayRows(rows) == RankedThenCut(rows)

DrawnGrowth(row) == IF Meaningful(row) THEN row.delta ELSE {}

--------------------------------------------------------------------------------
(* Properties *)

Row == [app: Apps, bytes: Nat, delta: SUBSET Int]

RowsTypeOK ==
  /\ now \in 0 .. MaxTime
  /\ show_app_usage \in BOOLEAN
  /\ channel \in [status: {"none", "ok", "err"}, completed_at: 0 .. MaxTime, rows: Seq(Row)]
  /\ app_memory \in [state: {"Hidden", "Loading", "Unavailable", "Loaded"}, rows: Seq(Row)]
  /\ last_app_rows \in Seq(Row)
  /\ last_app_sample_at \in 0 .. MaxTime \union {None}
  /\ \A i, j \in DOMAIN app_memory.rows :
       app_memory.rows[i].app = app_memory.rows[j].app => i = j
  /\ \A row \in ToSet(app_memory.rows) : Cardinality(row.delta) <= 1

\* A growth drawn is that of the app between the reading the menu showed before and
\* the new one, taken at most the maximal age apart; across a hide, a failed scan or
\* a longer pause no growth is drawn (engine.rs:209-222, 664-690, 738-744).
GrowthSpansTwoReadingsInARow ==
  [][DrainRows => \A i \in DOMAIN app_memory'.rows :
       LET row == app_memory'.rows[i]
           before == {b \in ToSet(app_memory.rows) : b.app = row.app}
       IN  DrawnGrowth(row) # {} =>
             /\ app_memory.state = "Loaded"
             /\ channel.completed_at - last_app_sample_at <= APP_DELTA_BASELINE_MAX_AGE
             /\ \E b \in before : row.delta = {row.bytes - b.bytes}]_rowsVars

\* An app that grew for real is cut from the drawn rows only by apps that grew at
\* least as much, and an app that did not only by growers and larger apps
\* (trend.rs:87-105; format.rs:429-440).
NoGrowerIsCrowdedOut ==
  LET drawn == ToSet(DisplayRows(app_memory.rows))
      cut == ToSet(app_memory.rows) \ drawn
  IN  \A c \in cut, d \in drawn :
        /\ Meaningful(c) => Growth(d) >= Growth(c)
        /\ ~Meaningful(d) /\ ~Meaningful(c) /\ Growth(d) = Growth(c) => d.bytes >= c.bytes

================================================================================
