------------------------------ MODULE Metrics ------------------------------
(***************************************************************************)
(* The request counters and duration histograms behind GET /metrics, as    *)
(* operators on [counts, histograms].  Durations are numbers of the bucket *)
(* they fall into, NumBuckets + 1 for those longer than every bucket.      *)
(***************************************************************************)
EXTENDS Integers, SequencesExt

CONSTANT NumBuckets   \* Len(DURATION_BUCKETS)

ASSUME BucketsAssumption == NumBuckets \in Nat

KNOWN_METHODS == {"GET", "POST", "PUT", "DELETE", "PATCH", "HEAD", "OPTIONS"}
NormalizeMethod(method) == IF method \in KNOWN_METHODS THEN method ELSE "OTHER"
NormalizeStatus(status) == IF status \in 100 .. 599 THEN status ELSE 0

Labels == KNOWN_METHODS \cup {"OTHER"}

Key(method, status) == <<NormalizeMethod(method), NormalizeStatus(status)>>

NoMetrics ==
  [counts |-> EmptyBag,
   histograms |-> [l \in Labels |-> [buckets |-> [i \in 1 .. NumBuckets |-> 0], count |-> 0]]]

\* A request that falls into the given buckets.
Record(m, method, status, slots) ==
  [counts |-> m.counts (+) SetToBag({Key(method, status)}),
   histograms |-> [m.histograms EXCEPT ![NormalizeMethod(method)] =
     [buckets |-> [i \in 1 .. NumBuckets |-> @.buckets[i] + IF i \in slots THEN 1 ELSE 0],
      count |-> @.count + 1]]]

\* MUTANT of RecordRequest: the loop does not stop at the first bucket.
RecordRequestInEach(m, method, status, duration) == Record(m, method, status, duration .. NumBuckets)

RecordRequest(m, method, status, duration) == Record(m, method, status, {duration})

\* The sums of the first buckets, of none to all of them.
Cumulative(buckets) ==
  LET cumulative[i \in 0 .. NumBuckets] ==
        IF i = 0 THEN 0 ELSE cumulative[i - 1] + buckets[i]
  IN  cumulative

\* The lines of the exposition: per key its counter, per method the cumulative
\* buckets, the last of which is le="+Inf".
FormatMetrics(m) ==
  [totals |-> m.counts,
   histograms |->
     [l \in Labels |->
        LET cumulative == Cumulative(m.histograms[l].buckets) IN
        [i \in 1 .. NumBuckets + 1 |->
           IF i <= NumBuckets THEN cumulative[i] ELSE m.histograms[l].count]]]
=============================================================================
