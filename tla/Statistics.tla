----------------------------- MODULE Statistics -----------------------------
(***************************************************************************)
(* What the admin pages make of the request logs.  `logs` is a function    *)
(* from requests to log rows with at least the fields at (when the row was *)
(* written), key, rule and tokens; times and durations are numbers.  The   *)
(* pages are pure functions of the rows: a page is wrong when its parts do *)
(* not add up, with each other or with what Serving.tla wrote.             *)
(*                                                                         *)
(* Left out: latencies and percentiles, cached tokens (they are counted as *)
(* the tokens are), percentages and names.                                 *)
(***************************************************************************)
EXTENDS Integers, Sequences, FiniteSets, FiniteSetsExt, SequencesExt

\* The elements of S, one after the other as Before says.
Sorted(S, Before(_, _)) ==
    CHOOSE s \in [1 .. Cardinality(S) -> S] :
        \A i, j \in 1 .. Cardinality(S) : i < j => Before(s[i], s[j])

Aggregate(logs, ids) ==
    [requests |-> Cardinality(ids),
     tokens |-> SumFunction([i \in ids |-> logs[i].tokens])]

\* The rows of a window; both of its ends belong to it.
StatsRows(logs, start, end) ==
    {i \in DOMAIN logs : start <= logs[i].at /\ logs[i].at <= end}

FloorBucket(t, width) == t - (t % width)

\* Mutant: the bucket that begins where the window ends is forgotten.
BucketKeysHalfOpen(start, end, width) ==
    {b \in FloorBucket(start, width) .. end - 1 : b % width = 0}

\* From the bucket the window begins in, which may reach back before it.
BucketKeys(start, end, width) ==
    {b \in FloorBucket(start, width) .. end : b % width = 0}

Timeseries(logs, start, end, width) ==
    [b \in BucketKeys(start, end, width) |->
        Aggregate(logs, {i \in StatsRows(logs, start, end) :
                            FloorBucket(logs[i].at, width) = b})]

\* The older page of the same series: it walks over the logs instead of the
\* buckets, and nothing at all is shown of a window that ends before it
\* starts.
MetricBuckets(logs, start, end, width) ==
    LET Of(i) == FloorBucket(logs[i].at, width)
        inside == {i \in DOMAIN logs : ~(logs[i].at < start \/ logs[i].at > end)}
    IN  [b \in IF end < start THEN {} ELSE BucketKeys(start, end, width) |->
            Aggregate(logs, {i \in inside : Of(i) = b})]

\* The totals of the window and of the window of the same length before it.
Overview(logs, start, end) ==
    [current |-> Aggregate(logs, StatsRows(logs, start, end)),
     previous |-> Aggregate(logs, StatsRows(logs, start - (end - start), start))]

\* The totals by rule group or by key, before they are put in order and cut.
TotalsBy(logs, ids, name) ==
    [n \in {name[i] : i \in ids} |->
        Aggregate(logs, {i \in ids : name[i] = n})]

RuleOf(logs) == [i \in DOMAIN logs |-> logs[i].rule]
KeyOf(logs)  == [i \in DOMAIN logs |-> logs[i].key]

\* The names of the largest totals, no more than `limit` of them.
Largest(totals, limit) ==
    LET names == Sorted(DOMAIN totals,
                    LAMBDA m, n : m # n /\ totals[m].tokens >= totals[n].tokens)
    IN  SubSeq(names, 1, IF limit < Len(names) THEN limit ELSE Len(names))

DistributionByRule(logs, start, end) ==
    TotalsBy(logs, StatsRows(logs, start, end), RuleOf(logs))

TotalsByKey(logs, start, end) ==
    TotalsBy(logs, StatsRows(logs, start, end), KeyOf(logs))

TopKeys(logs, start, end, limit) ==
    Largest(TotalsByKey(logs, start, end), limit)

\* The usage page: all rows, and the tokens since the day began.
UsageStats(logs, dayStart) ==
    [groups |-> TotalsBy(logs, DOMAIN logs, RuleOf(logs)),
     today |-> Aggregate(logs, {i \in DOMAIN logs : logs[i].at >= dayStart}).tokens]
=============================================================================
