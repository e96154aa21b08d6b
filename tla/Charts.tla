------------------------------- MODULE Charts -------------------------------
(***************************************************************************)
(* A chart of one numeric field (model/chart_series.c) as the frame loop   *)
(* fills it from the drained messages and draws it (ui/chart_panel.c).     *)
(*                                                                         *)
(* A series keeps a ring of samples, at most one per interval, of the last *)
(* ChartWindow, and running extremes that are recomputed lazily.  The ring *)
(* is modelled by its content, oldest first.  The slots of different       *)
(* series share nothing, so one is modelled.  Time stamps are wall-clock   *)
(* times and may go back; ChartTimes and ChartValues are bounds.           *)
(***************************************************************************)
EXTENDS Integers, Sequences, Subsequence

CONSTANTS
    ChartMaxSamples,    \* CHART_MAX_SAMPLES
    ChartMinInterval,   \* CHART_MIN_SAMPLE_INTERVAL_US
    ChartWindow,        \* CHART_TIME_WINDOW_US
    ChartTimes, ChartValues

ASSUME ChartAssumption ==
    /\ ChartMaxSamples \in Nat \ {0} /\ ChartMinInterval \in Nat \ {0} /\ ChartWindow \in Nat
    /\ ChartTimes \subseteq Nat \ {0} /\ ChartValues \subseteq Int

VARIABLES
    active,
    samples,        \* Seq of [ts, value]
    y_min, y_max, y_dirty,
    bucket_ref,     \* the value the open bucket's candidates are compared with
    offered         \* the values offered to the open bucket, kept or not

chartVars == <<active, samples, y_min, y_max, y_dirty, bucket_ref, offered>>

Fresh == /\ samples' = <<>> /\ y_min' = 0 /\ y_max' = 0 /\ y_dirty' = FALSE
         /\ bucket_ref' = 0 /\ offered' = {}

ChartInit ==
    /\ active = FALSE /\ samples = <<>> /\ y_min = 0 /\ y_max = 0 /\ y_dirty = FALSE
    /\ bucket_ref = 0 /\ offered = {}

chart_series_init == active' = TRUE /\ Fresh

\* The [+] button of an inspector line; a field that is charted already is skipped.
chart_add_from_line == ~active /\ chart_series_init

\* The [x] of the chart's card.
RemoveChart == active /\ active' = FALSE /\ Fresh

Abs(x) == IF x < 0 THEN -x ELSE x
LastSample == samples[Len(samples)]

Mutant_IsExtreme(v) == v = y_max

IsExtreme(v) == v = y_min \/ v = y_max

\* In the interval of the newest sample the one farthest from the value before it is kept.
Mutant_WinsBucket(v) == TRUE

WinsBucket(v) == Abs(v - bucket_ref) > Abs(LastSample.value - bucket_ref)

ReplaceInBucket(ts, v) ==
    /\ samples # <<>> /\ ts > LastSample.ts /\ ts - LastSample.ts < ChartMinInterval
    /\ offered' = offered \cup {v}
    /\ IF WinsBucket(v)
       THEN /\ y_dirty' = (y_dirty \/ IsExtreme(LastSample.value))
            /\ samples' = [samples EXCEPT ![Len(samples)].value = v]
            /\ y_min' = (IF v < y_min THEN v ELSE y_min)
            /\ y_max' = (IF v > y_max THEN v ELSE y_max)
       ELSE UNCHANGED <<samples, y_min, y_max, y_dirty>>
    /\ UNCHANGED <<active, bucket_ref>>

\* A sample that opens a new interval: evict what left the window, then the oldest one if the
\* ring is still full.
Evicted(ts) ==
    LET old == {i \in DOMAIN samples : ts - samples[i].ts > ChartWindow}
    IN  IF old = {} /\ Len(samples) = ChartMaxSamples THEN {1} ELSE old

OpenBucket(ts, v) ==
    LET first == samples = <<>>
        gone == Evicted(ts)
        kept == Kept(samples, DOMAIN samples \ gone)
    IN  /\ ~first => ts - LastSample.ts >= ChartMinInterval
        /\ bucket_ref' = IF first THEN v ELSE LastSample.value
        /\ samples' = Append(kept, [ts |-> ts, value |-> v])
        /\ offered' = {v}
        /\ IF Len(samples') = 1
           THEN y_min' = v /\ y_max' = v /\ y_dirty' = FALSE
           ELSE /\ y_dirty' = (y_dirty \/ \E i \in gone : IsExtreme(samples[i].value))
                /\ y_min' = (IF v < y_min THEN v ELSE y_min)
                /\ y_max' = (IF v > y_max THEN v ELSE y_max)
        /\ UNCHANGED active

\* chart_panel_capture_sample: a drained message that has the field.  A time stamp that is
\* not newer is dropped.
Capture(ts, v) == active /\ (ReplaceInBucket(ts, v) \/ OpenBucket(ts, v))

\* Drawing recomputes extremes that may be gone.
DrawChart ==
    /\ active /\ y_dirty /\ samples # <<>>
    /\ LET vs == {samples[i].value : i \in DOMAIN samples}
       IN  /\ y_min' = CHOOSE v \in vs : \A w \in vs : v <= w
           /\ y_max' = CHOOSE v \in vs : \A w \in vs : v >= w
    /\ y_dirty' = FALSE
    /\ UNCHANGED <<active, samples, bucket_ref, offered>>

ChartNext ==
    \/ chart_add_from_line \/ RemoveChart \/ DrawChart
    \/ \E ts \in ChartTimes, v \in ChartValues : Capture(ts, v)

ChartSpec == ChartInit /\ [][ChartNext]_chartVars

-----------------------------------------------------------------------------
\* The axis fits the curve: the running extremes bound every sample, and they are exact unless
\* marked for recomputation, whatever mixture of evictions by age, evictions by number and
\* replacements removed the extreme sample (chart_series.c:31).
AxisFitsSamples ==
    /\ \A i \in DOMAIN samples : y_min <= samples[i].value /\ samples[i].value <= y_max
    /\ ~y_dirty /\ samples # <<>> =>
         (\E i \in DOMAIN samples : samples[i].value = y_min)
         /\ (\E i \in DOMAIN samples : samples[i].value = y_max)

\* "a spike published into a fast stream is not decimated away" (chart_series.h:25): of all the
\* values offered in an interval the kept one is the farthest from the sample before it, and the
\* samples are at least an interval apart and within the window.
SpikesAreKept ==
    samples # <<>> =>
        /\ \A v \in offered : Abs(v - bucket_ref) <= Abs(LastSample.value - bucket_ref)
        /\ \A i \in 1..(Len(samples) - 1) : samples[i + 1].ts - samples[i].ts >= ChartMinInterval
        /\ LastSample.ts - samples[1].ts <= ChartWindow
=============================================================================
