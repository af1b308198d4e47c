---------------------------- MODULE DataQuality ----------------------------
(***************************************************************************)
(* Bars on their way to a strategy: the cleaning rules of DataValidator    *)
(* (src/engine/data/quality.py), MarketStateBuilder                        *)
(* (src/engine/data/market_state.py), which shows a strategy the bars up   *)
(* to a timestamp, and the loop of BacktestRunner                          *)
(* (src/engine/core/backtest_runner.py) over all timestamps.               *)
(* A frame is a sequence of rows in the order of their timestamps, as the  *)
(* providers return them; timestamps may repeat and fields may be NaN.     *)
(***************************************************************************)
EXTENDS Integers, Sequences, FiniteSets, SequencesExt, FiniteSetsExt

CONSTANTS MinBars,          \* min_bars
          MinPrice,         \* ValidationConfig.min_price
          StaleDays,        \* ValidationConfig.stale_consecutive_days
          Closes,           \* closes a row may have
          Revenues,         \* revenues a reported period may have
          MaxRows           \* bound: rows of a frame

ASSUME QualityAssumption == /\ MinBars \in Nat \ {0} /\ MaxRows \in Nat /\ StaleDays \in Nat \ {0}
                            /\ Closes \subseteq Int /\ Revenues \subseteq Int

VARIABLES dqFrame,    \* the frame in use
          dqCleaned,  \* what the validator left of it; the revenues when it worked on those
          dqReport,   \* corrections of the last DataQualityReport
          dqShown,    \* the last bars shown to the strategy
          dqRow,      \* rows of the frame the backtest has visited
          dqCurve,    \* timestamps of result.equity_curve
          dqPhase     \* "new", "rows", "done", "validated", "repaired"

dqVars == <<dqFrame, dqCleaned, dqReport, dqShown, dqRow, dqCurve, dqPhase>>

\* A close that is not a number: no comparison holds of it.
Nan == -100
Rows == [ts : 1..MaxRows, close : Closes, vol : {0, 1}]
Ordered(f) == \A i, j \in 1..Len(f) : i < j => f[i].ts <= f[j].ts
Frames == {f \in BoundedSeq(Rows, MaxRows) : Ordered(f)}

QualityInit ==
    /\ dqFrame \in Frames
    /\ dqCleaned = <<>> /\ dqReport = <<>> /\ dqShown = <<>>
    /\ dqRow = 0 /\ dqCurve = <<>> /\ dqPhase = "new"

\* The rows at the places I, in their order, and those that pass a test.
NthOf(I, i) == CHOOSE k \in I : Cardinality({n \in I : n < k}) = i - 1
RowsAt(f, I) == [i \in 1..Cardinality(I) |-> f[NthOf(I, i)]]
RowsWhere(f, Test(_)) == RowsAt(f, {k \in 1..Len(f) : Test(f[k])})

Note(reason, row) == [reason |-> reason, row |-> row]
Notes(reason, rows) == [i \in 1..Len(rows) |-> Note(reason, rows[i])]

----------------------------------------
(* The rules. Each takes a frame and returns the frame and its corrections. *)

Duplicated(f, i) == \E j \in i + 1..Len(f) : f[j].ts = f[i].ts

\* DuplicateTimestampRule: of the rows with one timestamp the last is kept; one
\* correction for each repeated timestamp.
DuplicateTimestampRule(f) ==
    LET dropped == {k \in 1..Len(f) : Duplicated(f, k)}
        firsts == {k \in dropped : \A n \in dropped : f[n].ts = f[k].ts => k <= n}
    IN [frame |-> RowsAt(f, (1..Len(f)) \ dropped),
        notes |-> Notes("duplicate_timestamp", RowsAt(f, firsts))]

NotPositive(r) == r.close # Nan /\ r.close <= 0
BelowMinimum(r) == r.close > 0 /\ r.close < MinPrice

MutPriceBoundsRule(f) ==
    [frame |-> RowsWhere(f, LAMBDA r : ~NotPositive(r) /\ ~BelowMinimum(r)),
     notes |-> Notes("negative_price", RowsWhere(f, NotPositive))]

\* PriceBoundsRule: rows without a positive close go, then those below the minimum.
PriceBoundsRule(f) ==
    LET positive == RowsWhere(f, LAMBDA r : ~NotPositive(r)) IN
    [frame |-> RowsWhere(positive, LAMBDA r : ~BelowMinimum(r)),
     notes |-> Notes("negative_price", RowsWhere(f, NotPositive))
               \o Notes("price_below_minimum", RowsWhere(positive, BelowMinimum))]

\* OHLCConsistencyRule and ReturnSpikeRule flag rows and keep them all. Whether the
\* other prices of a row fit its close is an outcome; here, NaN rows are flagged.
FlagRules(f) == [frame |-> f, notes |-> Notes("ohlc_nan_field", RowsWhere(f, LAMBDA r : r.close = Nan))]

\* Rows without volume up to row i and next to each other.
WithoutVolume(f) ==
    LET run[i \in 0..Len(f)] == IF i = 0 \/ f[i].vol > 0 THEN 0 ELSE run[i - 1] + 1
    IN run

MutStaleDataRule(f) ==
    LET ends == {i \in 1..Len(f) - 1 : WithoutVolume(f)[i] >= StaleDays /\ f[i + 1].vol > 0}
    IN [frame |-> f, notes |-> Notes("stale_data", RowsAt(f, ends))]

\* StaleDataRule: one scan that counts rows without volume and reports a run at its
\* last row: when a row with volume follows, or the frame ends.
StaleDataRule(f) ==
    LET ends == {i \in 1..Len(f) : /\ WithoutVolume(f)[i] >= StaleDays
                                   /\ i < Len(f) => f[i + 1].vol > 0}
    IN [frame |-> f, notes |-> Notes("stale_data", RowsAt(f, ends))]

\* DataValidator.validate as the builder calls it (no fundamentals and no sector
\* median: RatioSanityRule and GBpGBPRule return the frame they are given).
Validate(f) ==
    LET a == DuplicateTimestampRule(f)
        b == PriceBoundsRule(a.frame)
        c == FlagRules(b.frame)
        d == StaleDataRule(c.frame)
    IN [frame |-> d.frame, notes |-> a.notes \o b.notes \o c.notes \o d.notes]

----------------------------------------
(* Fundamentals *)

\* Positive periods, all and those beside period i, and a sum over periods.
Positive(s) == {k \in 1..Len(s) : s[k] > 0}
Neighbours(s, i) == Positive(s) \cap {i - 1, i + 1}
SumAt(s, K) == MapThenSumSet(LAMBDA k : s[k], K)

\* _find_suspect_negative_revenue_indices: negative beside a positive period.
Suspects(s) == {i \in 1..Len(s) : s[i] < 0 /\ Neighbours(s, i) # {}}

\* |revenue| <= tolerance * mean of the positive ones, the tolerance being 0.1.
Tolerated(s, i) == Positive(s) # {} /\ -s[i] * 10 * Cardinality(Positive(s)) <= SumAt(s, Positive(s))

MutCheckRevenue(s) ==
    [i \in 1..Len(s) |->
        IF i \in Suspects(s) /\ ~Tolerated(s, i) /\ i > 1 /\ s[i - 1] > 0 THEN s[i - 1] ELSE s[i]]

\* _check_revenue: a suspect beyond the tolerance becomes the mean of its positive
\* neighbours, all read from the values before the check.
CheckRevenue(s) ==
    [i \in 1..Len(s) |->
        IF i \in Suspects(s) /\ ~Tolerated(s, i)
        THEN SumAt(s, Neighbours(s, i)) \div Cardinality(Neighbours(s, i)) ELSE s[i]]

\* RatioSanityRule.apply with fundamentals: the revenues are repaired in a copy, then
\* the price-earnings ratio reads the last close of the frame.
RatioSanity(f, s, eps) ==
    [revenue |-> CheckRevenue(s),
     raises  |-> eps > 0 /\ f = <<>>]

----------------------------------------
(* MarketStateBuilder *)

MutSlice(f, i) == IF i < Len(f) THEN SubSeq(f, 1, i + 1) ELSE f

\* _slice_to_timestamp: the rows not later than row i's timestamp.
Slice(f, i) == RowsWhere(f, LAMBDA r : r.ts <= f[i].ts)

MutRejected(f) == Len(f) < MinBars \/ \E k \in 1..Len(f) : f[k].close = Nan

\* _validate raises ValidationError: too few bars, a NaN, a repeated timestamp.
Rejected(f) ==
    \/ Len(f) < MinBars
    \/ \E k \in 1..Len(f) : f[k].close = Nan
    \/ \E k \in 1..Len(f) : Duplicated(f, k)

LastBars(f) == SubSeq(f, Len(f) - MinBars + 1, Len(f))

\* build_for_live, with the validator on: the frame is validated, cleaned, and
\* rejected if too little is left.
BuildForLive ==
    /\ dqPhase = "new" /\ dqFrame # <<>> /\ ~Rejected(dqFrame)
    /\ dqCleaned' = Validate(dqFrame).frame
    /\ dqReport' = Validate(dqFrame).notes
    /\ dqShown' = IF Len(dqCleaned') < MinBars THEN <<>> ELSE LastBars(dqCleaned')
    /\ dqPhase' = "validated"
    /\ UNCHANGED <<dqFrame, dqRow, dqCurve>>

\* validate called on a frame as it came, without the builder in front.
ValidateFrame ==
    /\ dqPhase = "new"
    /\ dqCleaned' = Validate(dqFrame).frame
    /\ dqReport' = Validate(dqFrame).notes
    /\ dqPhase' = "validated"
    /\ UNCHANGED <<dqFrame, dqShown, dqRow, dqCurve>>

\* RatioSanityRule on the fundamentals of a symbol whose bars were removed or kept.
ValidateFundamentals(s) ==
    /\ dqPhase = "new" /\ Len(dqFrame) = 1
    /\ ~RatioSanity(PriceBoundsRule(dqFrame).frame, s, 1).raises
    /\ dqCleaned' = <<s, CheckRevenue(s)>>
    /\ dqPhase' = "repaired"
    /\ UNCHANGED <<dqFrame, dqReport, dqShown, dqRow, dqCurve>>

----------------------------------------
(* BacktestRunner.run *)

StartBacktest ==
    /\ dqPhase = "new" /\ dqFrame # <<>>
    /\ dqPhase' = "rows"
    /\ UNCHANGED <<dqFrame, dqCleaned, dqReport, dqShown, dqRow, dqCurve>>

\* One turn of the loop: a state is built and the strategy evaluated on it, its
\* signals are processed and an equity point is written; a rejected frame skips the
\* timestamp altogether.
BacktestRow ==
    /\ dqPhase = "rows" /\ dqRow < Len(dqFrame)
    /\ dqRow' = dqRow + 1
    /\ LET f == Slice(dqFrame, dqRow + 1) IN
         \/ Rejected(f) /\ UNCHANGED <<dqShown, dqCurve>>
         \/ /\ ~Rejected(f)
            /\ dqShown' = LastBars(f)
            /\ dqCurve' = Append(dqCurve, dqFrame[dqRow + 1].ts)
    /\ UNCHANGED <<dqFrame, dqCleaned, dqReport, dqPhase>>

BacktestEnds ==
    /\ dqPhase = "rows" /\ dqRow = Len(dqFrame)
    /\ dqPhase' = "done"
    /\ UNCHANGED <<dqFrame, dqCleaned, dqReport, dqShown, dqRow, dqCurve>>

QualityNext ==
    \/ BuildForLive \/ ValidateFrame
    \/ \E s \in BoundedSeq(Revenues, 3) : ValidateFundamentals(s)
    \/ StartBacktest \/ BacktestRow \/ BacktestEnds

----------------------------------------
(* Properties *)

Explained(r) == \/ \E n \in 1..Len(dqReport) : dqReport[n].row = r
                \/ \E n \in 1..Len(dqReport) : /\ dqReport[n].reason = "duplicate_timestamp"
                                               /\ dqReport[n].row.ts = r.ts

\* What the validator leaves has one row per timestamp, no close at or below zero or
\* under the minimum, and every row it took out is accounted for in the report.
CleanedIsExplained ==
    dqPhase = "validated" =>
      /\ \A i \in 1..Len(dqCleaned) :
            /\ ~Duplicated(dqCleaned, i)
            /\ ~NotPositive(dqCleaned[i]) /\ ~BelowMinimum(dqCleaned[i])
      /\ \A i \in 1..Len(dqFrame) :
            (\E k \in 1..Len(dqCleaned) : dqCleaned[k] = dqFrame[i]) \/ Explained(dqFrame[i])

\* The report counts exactly the runs of rows without volume that are long enough,
\* the one that lasts until the end included.
StaleRunsReported ==
    dqPhase = "validated" =>
      Cardinality({n \in 1..Len(dqReport) : dqReport[n].reason = "stale_data"}) =
      Cardinality({run \in (1..Len(dqCleaned)) \X (1..Len(dqCleaned)) :
          LET a == run[1]
              b == run[2]
          IN
          /\ b - a + 1 >= StaleDays
          /\ \A i \in a..b : dqCleaned[i].vol = 0
          /\ a > 1 => dqCleaned[a - 1].vol > 0
          /\ b < Len(dqCleaned) => dqCleaned[b + 1].vol > 0})

\* After _check_revenue no negative period beside a positive one is left unless it
\* was within the tolerance.
RevenueRepaired ==
    dqPhase = "repaired" =>
      \A i \in 1..Len(dqCleaned[2]) :
         dqCleaned[2][i] < 0 => \/ i \notin Suspects(dqCleaned[1])
                                \/ Tolerated(dqCleaned[1], i)

\* No look-ahead: in a backtest the strategy sees the MinBars newest bars that are
\* not later than the timestamp it is evaluated at, and nothing later.
NoLookAhead ==
    dqPhase = "rows" /\ dqShown # <<>> =>
      LET now == dqCurve[Len(dqCurve)] IN
      /\ dqShown[MinBars].ts = now
      /\ \A r \in {dqFrame[i] : i \in 1..Len(dqFrame)} :
           (\E k \in 1..MinBars : dqShown[k] = r)
           <=> (r.ts <= now /\ Cardinality({q \in {dqFrame[i] : i \in 1..Len(dqFrame)} :
                                              q.ts > r.ts /\ q.ts <= now}) < MinBars)

\* The equity curve has a point for each row from the MinBars-th until the first bad
\* row, and none after it: one NaN or repeated timestamp silences the rest.
CurveIsPrefix ==
    dqPhase = "done" =>
      LET bad == {i \in 1..Len(dqFrame) : dqFrame[i].close = Nan
                     \/ \E j \in 1..Len(dqFrame) : j # i /\ dqFrame[j].ts = dqFrame[i].ts}
          good == {i \in MinBars..Len(dqFrame) : \A b \in bad : i < b}
      IN dqCurve = [k \in 1..Cardinality(good) |-> dqFrame[MinBars + k - 1].ts]
=============================================================================
