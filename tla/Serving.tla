------------------------------- MODULE Serving ------------------------------
(***************************************************************************)
(* How the load is shared among the keys that may serve a request, and how *)
(* what they used is counted.  ModelRouter drops the keys that reached     *)
(* their daily limit and orders the others by the strategy of the rule;    *)
(* the request walks that order; what it used is written by a background   *)
(* task after the reply (write_request_log), which adds it to the counters *)
(* of the key that the next choice reads.  The pages that list the keys    *)
(* reset counters of an earlier day on the way.                            *)
(*                                                                         *)
(* Left out: why a key is not available apart from its daily limit (an     *)
(* arbitrary subset is, see KeyGuards.tla and Routing.tla), the details of *)
(* the walk (ProxyFailover.tla), a key that has several maps for a model,  *)
(* and every field of the log that no counter or page depends on.          *)
(***************************************************************************)
EXTENDS Statistics, Functions, TLC

CONSTANTS
    Keys,           \* ids of keys
    Weight,         \* key -> its weight, at least 1
    DailyLimit,     \* key -> its limit of tokens a day, or NoLimit
    NoLimit,
    Rules,          \* routing rules
    Sequential,     \* the rules whose strategy is "sequential"
    TargetOrder,    \* the target keys of every rule, in order
    MaxPools,       \* pools the weighted round robin remembers
    Outages,        \* sets of keys that may be out of service at one time
    Requests,
    TokenCounts,    \* what a request may use
    DayLength,      \* ticks of the clock in a day
    MaxClock,       \* bound: the clock stops here
    None

ASSUME ServingAssumption ==
    /\ Keys \subseteq Nat /\ IsFiniteSet(Keys) /\ Weight \in [Keys -> Nat \ {0}]
    /\ DailyLimit \in [Keys -> Int \cup {NoLimit}]
    /\ Sequential \subseteq Rules /\ TargetOrder \in Seq(Keys)
    /\ MaxPools \in Nat \ {0} /\ DayLength \in Nat \ {0}
    /\ IsFiniteSet(Requests) /\ MaxClock \in Nat
    /\ TokenCounts \subseteq Nat /\ IsFiniteSet(TokenCounts) /\ TokenCounts # {}

VARIABLES
    clock,
    row,            \* key -> what its row counts
    pools,          \* the state of the round robin, least recent pool first
    active,         \* sequential rule -> its active key in Redis, or None
    request,        \* request -> where it stands, with its log
    sweep,          \* what a page that lists the keys has read, or None
    peak,           \* history: limited key -> the most requests that held it
    unsettled       \* history: keys whose count of today was overwritten

vars == <<clock, row, pools, active, request, sweep, peak, unsettled>>

Limited == {k \in Keys : DailyLimit[k] # NoLimit}

Day(t) == t \div DayLength
Today == Day(clock)

\* The log rows.
Logged == {r \in Requests : request[r].phase = "logged"}
Logs == Restrict(request, Logged)

-----------------------------------------------------------------------------
(* The choice of a key.                                                    *)

\* What the counters of a row, read at some time, say of a day.
UsedOn(counts, day) == IF counts.date = day THEN counts.used ELSE 0

UsedToday(k) == UsedOn(row[k], Today)

\* Mutant: every key passes.
PassesAnyLimit(k, counts, day) == TRUE

PassesKeyLimits(k, counts, day) ==
    DailyLimit[k] = NoLimit \/ UsedOn(counts, day) < DailyLimit[k]

TotalWeight(c) == SumFunctionOnSet(Weight, c)

PoolIndex(rule, c) ==
    {i \in DOMAIN pools : pools[i].rule = rule /\ pools[i].keys = c}

\* The state of the pool; zeros when the rule has not met this set of keys,
\* or has forgotten it.
PoolState(rule, c) ==
    LET i == PoolIndex(rule, c)
        zeros == [k \in c |-> 0]
    IN  IF i = {} THEN [rule |-> rule, keys |-> c, current |-> zeros, picked |-> zeros]
                  ELSE pools[CHOOSE j \in i : TRUE]

\* Every key gains its weight and the one that is then ahead is chosen, the
\* first of several.
Gained(pool) == [k \in pool.keys |-> pool.current[k] + Weight[k]]

Selected(pool) ==
    Min({k \in pool.keys : \A j \in pool.keys : Gained(pool)[j] <= Gained(pool)[k]})

\* How often every key was chosen, counted anew after each fair round.
Picked(pool) ==
    LET picked == [pool.picked EXCEPT ![Selected(pool)] = @ + 1]
    IN  IF picked = Restrict(Weight, pool.keys) THEN [k \in pool.keys |-> 0]
                                                ELSE picked

\* Mutant: the chosen key pays nothing.
PaysNothing(pool) ==
    [pool EXCEPT !.current = Gained(pool), !.picked = Picked(pool)]

\* The chosen key pays the weight of the whole pool.
Turned(pool) ==
    [pool EXCEPT !.current = [Gained(pool) EXCEPT ![Selected(pool)] =
                                    @ - TotalWeight(pool.keys)],
                 !.picked = Picked(pool)]

\* Mutant: the pool that was used is moved up without being taken out.
RememberedTwice(pool) ==
    LET all == Append(pools, pool)
    IN  IF Len(all) > MaxPools THEN Tail(all) ELSE all

\* The pool becomes the most recent; the least recent ones are forgotten.
Remembered(pool) ==
    LET known == PoolIndex(pool.rule, pool.keys)
        others == IF known = {} THEN pools
                  ELSE RemoveAt(pools, CHOOSE i \in known : TRUE)
        all == Append(others, pool)
    IN  IF Len(all) > MaxPools THEN Tail(all) ELSE all

\* The keys after the chosen one: the heaviest first, then the highest id.
Heavier(j, k) == Weight[j] > Weight[k] \/ (Weight[j] = Weight[k] /\ j > k)

WeightedOrder(pool) ==
    <<Selected(pool)>> \o Sorted(pool.keys \ {Selected(pool)}, Heavier)

\* The place of a key among the targets; keys of one place go by their ids.
Place(k) ==
    LET at == {i \in DOMAIN TargetOrder : TargetOrder[i] = k}
    IN  IF at = {} THEN Len(TargetOrder) + 1 ELSE Max(at)

Sooner(j, k) == Place(j) < Place(k) \/ (Place(j) = Place(k) /\ j < k)

\* The order begins at the active key and goes around.
RotatedTo(order, k) ==
    LET at == {i \in DOMAIN order : order[i] = k}
        i == CHOOSE j \in at : TRUE
    IN  IF at = {} THEN order
        ELSE SubSeq(order, i, Len(order)) \o SubSeq(order, 1, i - 1)

SequentialOrder(rule, c) ==
    RotatedTo(Sorted(c, Sooner), active[rule])

OrderCandidates(rule, c) ==
    IF rule \in Sequential THEN SequentialOrder(rule, c)
    ELSE WeightedOrder(PoolState(rule, c))

PoolsAfter(rule, c) ==
    IF rule \in Sequential THEN pools
    ELSE Remembered(Turned(PoolState(rule, c)))

\* The keys that a request may still use: those whose limit lets it in by the
\* counters it has read, then its candidates, then the key it has used.
Holds(req, k, day) ==
    \/ /\ req.phase = "reading" /\ k \in DOMAIN req.rows
       /\ PassesKeyLimits(k, req.rows[k], day)
    \/ req.phase = "choosing" /\ k \in req.keys
    \/ req.phase = "open" /\ k \in ToSet(req.order)
    \/ req.phase \in {"served", "stamped"} /\ req.key = k

HeldBy(reqs, k, day) == Cardinality({r \in Requests : Holds(reqs[r], k, day)})

PeakOf(reqs, day) == [k \in Limited |-> Max({peak[k], HeldBy(reqs, k, day)})]

\* get_candidates reads the rows, counters and all, and awaits the agents.
ReadKeys(r) ==
    /\ request[r].phase = "new"
    /\ request' = [request EXCEPT ![r] = [phase |-> "reading", rows |-> row]]
    /\ peak' = PeakOf(request', Today)
    /\ UNCHANGED <<clock, row, pools, active, sweep, unsettled>>

\* The limits are checked against those rows, on the day it is by then; the
\* circuit breaker, the counts of the minute and the active key are awaited next.
FilterCandidates(r) ==
    LET rows == request[r].rows IN
    /\ request[r].phase = "reading"
    /\ \E out \in Outages :
        LET c == {k \in DOMAIN rows \ out : PassesKeyLimits(k, rows[k], Today)}
        IN  /\ c # {}
            /\ request' = [request EXCEPT ![r] = [phase |-> "choosing", keys |-> c]]
    /\ UNCHANGED <<clock, row, pools, active, sweep, peak, unsettled>>

\* The rule was selected before the keys were read, but matters from here on.
Choose(r) ==
    LET c == request[r].keys IN
    /\ request[r].phase = "choosing"
    /\ \E rule \in Rules :
        /\ request' = [request EXCEPT ![r] =
                [phase |-> "open", rule |-> rule, order |-> OrderCandidates(rule, c)]]
        /\ pools' = PoolsAfter(rule, c)
    /\ UNCHANGED <<clock, row, active, sweep, peak, unsettled>>

\* No candidate is left, or the database or Redis fails.
FindNone(r) ==
    /\ request[r].phase \in {"reading", "choosing"}
    /\ request' = [request EXCEPT ![r] = [phase |-> "gone"]]
    /\ UNCHANGED <<clock, row, pools, active, sweep, peak, unsettled>>

\* Testing or explaining a route and listing the models of the upstreams order
\* candidates as well, of rows read some time before, and the round robin moves
\* on.  Only a limit that lets nobody in keeps a key from being one of them.
Peek(rule) ==
    /\ rule \notin Sequential
    /\ \E c \in SUBSET {k \in Keys : DailyLimit[k] = NoLimit \/ DailyLimit[k] > 0} :
        c # {} /\ pools' = PoolsAfter(rule, c)
    /\ UNCHANGED <<clock, row, active, request, sweep, peak, unsettled>>

-----------------------------------------------------------------------------
(* The walk over the order, seen from here.                                *)

\* The attempt on the first key failed; the next one is tried, if any.
Fail(r) ==
    LET req == request[r]
    IN  /\ req.phase = "open"
        /\ request' = [request EXCEPT ![r] =
                IF Len(req.order) > 1 THEN [req EXCEPT !.order = Tail(@)]
                                      ELSE [phase |-> "gone"]]
        /\ UNCHANGED <<clock, row, pools, active, sweep, peak, unsettled>>

\* The key has answered; a complete answer of a sequential rule makes it the
\* active key, a stream that breaks off does not.  The log is left to a task.
Serve(r) ==
    /\ request[r].phase = "open"
    /\ LET rule == request[r].rule
           k == Head(request[r].order)
       IN  \E n \in TokenCounts, complete \in BOOLEAN :
            /\ request' = [request EXCEPT ![r] =
                    [phase |-> "served", rule |-> rule, key |-> k, tokens |-> n]]
            /\ active' = IF complete /\ rule \in Sequential
                         THEN [active EXCEPT ![rule] = k] ELSE active
    /\ UNCHANGED <<clock, row, pools, sweep, peak, unsettled>>

\* Redis forgets the active key when no request succeeded for a day.
ActiveExpires(rule) ==
    /\ active[rule] # None
    /\ active' = [active EXCEPT ![rule] = None]
    /\ UNCHANGED <<clock, row, pools, request, sweep, peak, unsettled>>

-----------------------------------------------------------------------------
(* write_request_log.                                                      *)

\* The task asks for the date before it writes.
Stamp(r) ==
    /\ request[r].phase = "served"
    /\ request' = [request EXCEPT ![r] =
            [phase |-> "stamped", rule |-> @.rule, key |-> @.key,
             tokens |-> @.tokens, day |-> Today]]
    /\ UNCHANGED <<clock, row, pools, active, sweep, peak, unsettled>>

\* Mutant: the counter goes on from the day before.
AddedToAnyDay(counts, n, day) ==
    [used |-> counts.used + n, date |-> day, total |-> counts.total + n]

\* One UPDATE, worked out by the database from the row as it is.
Added(counts, n, day) ==
    [used |-> IF counts.date = day THEN counts.used + n ELSE n,
     date |-> day, total |-> counts.total + n]

\* The row of the log and the counters of the key in one transaction.
WriteLog(r) ==
    LET req == request[r]
        k == req.key
    IN  /\ req.phase = "stamped" /\ k \in DOMAIN row
        /\ request' = [request EXCEPT ![r] =
                [phase |-> "logged", rule |-> req.rule, key |-> k,
                 tokens |-> req.tokens, day |-> req.day, at |-> clock]]
        /\ row' = [row EXCEPT ![k] = Added(@, req.tokens, req.day)]
        /\ unsettled' = IF row[k].date > req.day THEN unsettled \cup {k}
                                                ELSE unsettled
        /\ UNCHANGED <<clock, pools, active, sweep, peak>>

\* The database refuses the write: the key is gone, or the file stays locked.
LoseLog(r) ==
    /\ request[r].phase = "stamped"
    /\ request' = [request EXCEPT ![r] = [phase |-> "gone"]]
    /\ UNCHANGED <<clock, row, pools, active, sweep, peak, unsettled>>

-----------------------------------------------------------------------------
(* list_endpoints and list_api_keys: _normalize_api_key_usage.             *)

SweepReads ==
    LET old == {k \in DOMAIN row : row[k].date # Today}
    IN  /\ sweep = None /\ old # {}
        /\ sweep' = [day |-> Today, rows |-> Restrict(row, old)]
        /\ UNCHANGED <<clock, row, pools, active, request, peak, unsettled>>

\* The session writes the columns that changed: the date, and the counter if
\* it was not zero.
SweptRow(k) ==
    [row[k] EXCEPT !.date = sweep.day,
                   !.used = IF sweep.rows[k].used = 0 THEN @ ELSE 0]

SweepCommits ==
    /\ sweep # None
    /\ DOMAIN sweep.rows \subseteq DOMAIN row
    /\ row' = [k \in DOMAIN row |->
                IF k \in DOMAIN sweep.rows THEN SweptRow(k) ELSE row[k]]
    /\ sweep' = None
    /\ unsettled' = unsettled \cup
            {k \in DOMAIN sweep.rows : row[k] # sweep.rows[k]}
    /\ UNCHANGED <<clock, pools, active, request, peak>>

\* A row it read has been deleted, or the database is locked.
SweepFails ==
    /\ sweep # None
    /\ sweep' = None
    /\ UNCHANGED <<clock, row, pools, active, request, peak, unsettled>>

-----------------------------------------------------------------------------
\* By midnight the limits let in again who has read the counters before.
Tick ==
    /\ clock < MaxClock
    /\ clock' = clock + 1
    /\ unsettled' = IF Day(clock + 1) = Today THEN unsettled ELSE {}
    /\ peak' = PeakOf(request, Day(clock + 1))
    /\ UNCHANGED <<row, pools, active, request, sweep>>

\* The logs of a key go with it.
DeleteKey(k) ==
    /\ k \in DOMAIN row
    /\ row' = Restrict(row, DOMAIN row \ {k})
    /\ request' = [r \in Requests |->
            IF r \in Logged /\ request[r].key = k THEN [phase |-> "gone"]
            ELSE request[r]]
    /\ UNCHANGED <<clock, pools, active, sweep, peak, unsettled>>

\* The process stops: requests, tasks and round robin go, rows and Redis stay.
Restart ==
    /\ request' = [r \in Requests |->
            IF request[r].phase \notin {"new", "logged"} THEN [phase |-> "gone"]
            ELSE request[r]]
    /\ pools' = <<>>
    /\ sweep' = None
    /\ UNCHANGED <<clock, row, active, peak, unsettled>>

\* A page has listed the keys this morning, and none was used yet.
Init ==
    /\ clock = 0
    /\ row = [k \in Keys |-> [used |-> 0, date |-> 0, total |-> 0]]
    /\ pools = <<>>
    /\ active = [rule \in Sequential |-> None]
    /\ request = [r \in Requests |-> [phase |-> "new"]]
    /\ sweep = None
    /\ peak = [k \in Limited |-> 0]
    /\ unsettled = {}

Next ==
    \/ \E r \in Requests :
        \/ ReadKeys(r) \/ FilterCandidates(r) \/ Choose(r) \/ FindNone(r)
        \/ Fail(r) \/ Serve(r) \/ Stamp(r) \/ WriteLog(r) \/ LoseLog(r)
    \/ \E rule \in Rules : Peek(rule)
    \/ \E rule \in Sequential : ActiveExpires(rule)
    \/ SweepReads \/ SweepCommits \/ SweepFails
    \/ \E k \in Keys : DeleteKey(k)
    \/ Tick \/ Restart

Spec == Init /\ [][Next]_vars
-----------------------------------------------------------------------------
(* Properties.                                                             *)

Tokens(ids) == SumFunction([r \in ids |-> request[r].tokens])

\* The state is of the right shape: the pools are those of different sets of
\* candidates, at most MaxPools, and the counters of a key carry a day that
\* has come.
TypeOK ==
    /\ clock \in 0 .. MaxClock
    /\ DOMAIN row \subseteq Keys
    /\ \A k \in DOMAIN row :
        row[k] \in [used : Nat, date : 0 .. Today, total : Nat]
    /\ Len(pools) <= MaxPools
    /\ \A i, j \in DOMAIN pools :
        /\ pools[i].rule \in Rules \ Sequential /\ pools[i].keys \subseteq Keys
        /\ i # j => <<pools[i].rule, pools[i].keys>> # <<pools[j].rule, pools[j].keys>>
    /\ active \in [Sequential -> Keys \cup {None}]
    /\ \A r \in Requests :
        LET req == request[r] IN
        /\ req.phase = "reading" =>
            /\ DOMAIN req.rows \subseteq Keys
            /\ \A k \in DOMAIN req.rows : req.rows[k].date <= Today
        /\ req.phase = "choosing" => req.keys \in (SUBSET Keys) \ {{}}
        /\ req.phase = "open" => req.order # <<>> /\ IsInjective(req.order)
    /\ sweep # None => sweep.day \in 0 .. Today
    /\ peak \in [Limited -> 0 .. Cardinality(Requests)]
    /\ unsettled \subseteq Keys

\* docs/providers-routing.md:78: the round robin shares by weight.  Ever
\* since a pool was remembered, and whatever other pools were used between,
\* no key of it was put first a whole turn more often than its weight
\* entitles it to, and none is more turns behind than it has rivals.  (With
\* four keys or more a light key may fall more than one turn behind, for
\* example with the weights 99, 99, 4 and 1.)
FairShare ==
    \A i \in DOMAIN pools :
        LET pool == pools[i]
            turns == SumFunction(pool.picked)
            total == TotalWeight(pool.keys)
        IN  \A k \in pool.keys :
            LET owed == turns * Weight[k] - total * pool.picked[k]
            IN  /\ -owed < total
                /\ owed <= (Cardinality(pool.keys) - 1) * total

\* The counters of a key are its logs: the total counts every log there is,
\* and the counter of today every log of today, whatever tasks end in what
\* order and whatever the process lost, unless the row was overwritten by a
\* page that had read it before, or dated back by a task that asked for the
\* date before midnight.
UsageAddsUp ==
    \A k \in DOMAIN row :
        LET logs == {r \in Logged : request[r].key = k} IN
        /\ row[k].total = Tokens(logs)
        /\ k \notin unsettled
            => UsedToday(k) = Tokens({r \in logs : request[r].day = Today})

\* The daily limit is checked against counters read some time before, and never
\* again: a key may go over it, but by no more than what the requests that held
\* it at one time can use, from the reading of its counters, over the choice and
\* the walk, until the use is logged.  A key that no request ever held has used
\* nothing (a limit of 0 lets none in).
OvershootBounded ==
    \A k \in Limited \cap DOMAIN row :
        k \notin unsettled
        => UsedToday(k) + Max(TokenCounts) * HeldBy(request, k, Today)
            <= Max(TokenCounts) * peak[k]
               + (IF peak[k] = 0 THEN 0 ELSE DailyLimit[k] - 1)

Sum(totals) ==
    [requests |-> SumFunction([n \in DOMAIN totals |-> totals[n].requests]),
     tokens |-> SumFunction([n \in DOMAIN totals |-> totals[n].tokens])]

\* The pages add up: for every window and every width of the buckets, the
\* series, the distribution over the rules and the totals of the keys count
\* each log of the window once; the two windows of the overview share the
\* logs of the instant where they meet and no other; no key is left out of
\* the top that used more than one in it; and the tokens of today are what
\* the keys used today, when every log was dated by the day it was written.
StatsAddUp ==
    LET logs == Logs IN
    /\ \A start \in 0 .. clock, end \in 0 .. clock :
        start <= end =>
        LET rows == StatsRows(logs, start, end)
            window == Aggregate(logs, rows)
            views == Overview(logs, start, end)
            meeting == {r \in rows : logs[r].at = start}
            keys == TotalsByKey(logs, start, end)
            top == TopKeys(logs, start, end, 1)
        IN  /\ \A width \in 1 .. 2 :
                LET series == Timeseries(logs, start, end, width)
                IN  /\ MetricBuckets(logs, start, end, width) = series
                    /\ Sum(series) = window
            /\ Sum(DistributionByRule(logs, start, end)) = window
            /\ Sum(keys) = window
            /\ views.current = window
            /\ views.previous.requests + window.requests - Cardinality(meeting)
                    = Cardinality(StatsRows(logs, 2 * start - end, end))
            /\ \A k \in DOMAIN keys, i \in DOMAIN top :
                k \notin ToSet(top) => keys[k].tokens <= keys[top[i]].tokens
    /\ LET page == UsageStats(logs, Today * DayLength)
       IN  /\ Sum(page.groups) = Aggregate(logs, Logged)
           /\ (\A r \in Logged : logs[r].day = Day(logs[r].at))
                /\ unsettled \cap DOMAIN row = {}
              => page.today = SumFunction([k \in DOMAIN row |-> UsedToday(k)])
=============================================================================
