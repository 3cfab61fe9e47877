----------------------------- MODULE Statistics -----------------------------
(***************************************************************************)
(* The request log and its aggregates in src/internal/app: recordRequest    *)
(* stamps a row and inserts it in the background, and the scheduler's only  *)
(* goroutine rolls closed hours up from the rows, closed days up from the   *)
(* hours, and deletes old rows (scheduler.go).  One model and one proxy; an *)
(* aggregate is the set of the rows it counts, of which the code stores the *)
(* number.  That tells which rows are counted; the hours of a day have no   *)
(* row in common, so the number of a day is also the sum of theirs.         *)
(***************************************************************************)
EXTENDS Naturals, Sequences, FiniteSets, FiniteSetsExt

CONSTANTS
    TicksPerHour,  \* the clock's resolution
    HoursPerDay,
    RetentionDays, \* rtCfg().RetentionDays
    Start,         \* the tick the database is created at
    MaxTicks,      \* bound on the clock
    MaxRequests,   \* bound on the requests
    MaxFailures,   \* bound on the failing aggregations
    MaxCrashes,    \* bound on the restarts
    SelectMayFail, \* whether the two SELECTs a catch-up begins with may fail
    MaxLag         \* how many ticks the hourly job may be put off: its ticker fires
                   \* every 5 minutes, but the rotation runs in the same goroutine

TicksPerDay == TicksPerHour * HoursPerDay
HourOf(t) == t \div TicksPerHour
DayOf(h) == h \div HoursPerDay

ASSUME StatisticsBounds ==
    /\ {TicksPerHour, HoursPerDay, RetentionDays} \subseteq Nat \ {0}
    /\ {Start, MaxTicks, MaxRequests, MaxFailures, MaxCrashes, MaxLag} \subseteq Nat
    /\ SelectMayFail \in BOOLEAN
    /\ TicksPerDay <= Start /\ Start <= MaxTicks
    \* A row is kept until the hourly job has had its hour.
    /\ MaxLag + TicksPerHour <= RetentionDays * TicksPerDay

VARIABLES
    now,
    stamped,   \* the rows of running insertRequest goroutines
    requests,  \* the requests table
    hourly,    \* stats_hourly: what an hour counts, {} when the table has no row of it
    daily,     \* stats_daily
    todo,      \* the jobs the scheduler has to do: its boot sequence, or one tick's
    walk,      \* the buckets the job has still to aggregate
    up,        \* whether the process runs
    lastWalk,  \* when the hourly job last began
    made,      \* history: the rows inserted
    late,      \* history: those of them inserted after their hour
    failed,    \* history: whether an aggregation of the hour has failed
    broken,    \* history: whether the last aggregation of the day failed
    upTo,      \* history: the latest hour stored when the day was aggregated
    dayOver,   \* history: whether the hourly job had last begun after the day then
    spent      \* requests, failures and crashes so far

vars == <<now, stamped, requests, hourly, daily, todo, walk, up, lastWalk,
          made, late, failed, broken, upTo, dayOver, spent>>
history == <<made, late, failed, broken, upTo, dayOver>>
sched == <<todo, walk, lastWalk>>

Ticks == Start..MaxTicks
Hours == HourOf(Start)..HourOf(MaxTicks)
Days == DayOf(HourOf(Start))..DayOf(HourOf(MaxTicks))
Row == [id : 1..MaxRequests, ts : Ticks]
Jobs == {"hourly", "daily", "sweep"}
NoWalk == [next |-> 1, last |-> 0]

\* Mutant: the sweep comes first.
BootSwept == <<"sweep", "hourly", "daily">>

\* What startScheduler does before its loop.
Boot == <<"hourly", "daily", "sweep">>

\* MAX(bucket), 0 when the table is empty.
Buckets(table) == {b \in DOMAIN table : table[b] # {}}
LastBucket(table) == Max(Buckets(table) \cup {0})

\* The rows with a time in [h, h + 1).
InHour(rows, h) == {r \in rows : HourOf(r.ts) = h}
InTime(h) == InHour(made \ late, h)
HoursOf(d) == {h \in Hours : DayOf(h) = d}

TypeOK ==
    /\ now \in Ticks /\ lastWalk \in Ticks
    /\ {stamped, requests, made, late} \subseteq SUBSET Row
    /\ hourly \in [Hours -> SUBSET Row] /\ daily \in [Days -> SUBSET Row]
    /\ todo \in Seq(Jobs)
    /\ walk \in [next : Nat, last : Nat]
    /\ walk # NoWalk =>
          /\ todo # <<>> /\ walk.next <= walk.last
          /\ walk.last < IF Head(todo) = "hourly" THEN HourOf(now) ELSE DayOf(HourOf(now))
    /\ up \in BOOLEAN
    /\ failed \in [Hours -> BOOLEAN] /\ broken \in [Days -> BOOLEAN]
    /\ upTo \in [Days -> Hours \cup {0}] /\ dayOver \in [Days -> BOOLEAN]
    /\ spent \in [requests : 0..MaxRequests, failures : 0..MaxFailures, crashes : 0..MaxCrashes]

Init ==
    /\ now = Start /\ lastWalk = Start
    /\ stamped = {} /\ requests = {} /\ made = {} /\ late = {}
    /\ hourly = [h \in Hours |-> {}] /\ daily = [d \in Days |-> {}]
    /\ upTo = [d \in Days |-> 0] /\ dayOver = [d \in Days |-> FALSE]
    /\ todo = Boot /\ walk = NoWalk /\ up = TRUE
    /\ failed = [h \in Hours |-> FALSE] /\ broken = [d \in Days |-> FALSE]
    /\ spent = [requests |-> 0, failures |-> 0, crashes |-> 0]

-----------------------------------------------------------------------------
(* A request is recorded *)

\* The row is stamped when the request ends ...
recordRequest ==
    /\ up
    /\ spent.requests < MaxRequests
    /\ spent' = [spent EXCEPT !.requests = @ + 1]
    /\ stamped' = stamped \cup {[id |-> spent.requests + 1, ts |-> now]}
    /\ UNCHANGED <<now, requests, hourly, daily, sched, up, history>>

\* ... and inserted whenever its goroutine gets a connection, or dropped.
insertRequest(r) ==
    /\ stamped' = stamped \ {r}
    /\ \/ /\ requests' = requests \cup {r}
          /\ made' = made \cup {r}
          /\ late' = IF HourOf(now) > HourOf(r.ts) THEN late \cup {r} ELSE late
       \/ UNCHANGED <<requests, made, late>>
    /\ UNCHANGED <<now, hourly, daily, sched, up, failed, broken, upTo, dayOver, spent>>

-----------------------------------------------------------------------------
(* The scheduler *)

Doing(job) == up /\ todo # <<>> /\ Head(todo) = job
Done == todo' = Tail(todo) /\ walk' = NoWalk
Continue(first, last) ==
    IF first > last THEN Done ELSE walk' = [next |-> first, last |-> last] /\ UNCHANGED todo

\* Mutant: the current hour or day is aggregated too.
LastOpen(unit) == unit

\* Mutant: two hours back instead of one.
LastButOne(unit) == unit - 2

\* The most recent closed hour or day.
LastClosed(unit) == unit - 1

\* Mutant: the last bucket stored is aggregated again.
FirstAgain(last) == last

\* The first bucket after the last one stored.
FirstAfter(last) == last + 1

\* What a SELECT of one number reads: a failing one reads as one of an empty table.
Read(n) == {n} \cup (IF SelectMayFail THEN {0} ELSE {})

\* MIN(ts) or MIN(bucket).
Earliest(source) == IF source = {} THEN 0 ELSE Min(source)

\* The catch-up begins after the last bucket stored, or with the first one that there
\* is anything for in source.
catchup(table, source, unit) ==
    \E last \in Read(LastBucket(table)), first \in Read(Earliest(source)) :
        IF last = 0 /\ first = 0 THEN Done
        ELSE Continue(IF last = 0 THEN first ELSE FirstAfter(last), LastClosed(unit))

aggregateHourlyCatchup ==
    /\ Doing("hourly") /\ walk = NoWalk
    /\ catchup(hourly, {HourOf(r.ts) : r \in requests}, HourOf(now))
    /\ lastWalk' = now
    /\ UNCHANGED <<now, stamped, requests, hourly, daily, up, history, spent>>

aggregateDailyCatchup ==
    /\ Doing("daily") /\ walk = NoWalk
    /\ catchup(daily, {DayOf(h) : h \in Buckets(hourly)}, DayOf(HourOf(now)))
    /\ UNCHANGED <<now, stamped, requests, hourly, daily, lastWalk, up, history, spent>>

\* aggregateBucket stores one row for what it has read, if that is anything.
stored(table, rows) == IF rows # {} THEN [table EXCEPT ![walk.next] = rows] ELSE table

\* The bucket of an hour, of the requests read.
storeHour(read) ==
    /\ Doing("hourly") /\ walk # NoWalk
    /\ hourly' = stored(hourly, read)
    /\ Continue(walk.next + 1, walk.last)
    /\ UNCHANGED <<now, stamped, requests, daily, lastWalk, up, made, late, broken, upTo, dayOver>>

\* The bucket of a day, of the hours read.
storeDay(read) ==
    /\ Doing("daily") /\ walk # NoWalk
    /\ daily' = stored(daily, UNION {hourly[h] : h \in read})
    /\ upTo' = [upTo EXCEPT ![walk.next] = LastBucket(hourly)]
    /\ dayOver' = [dayOver EXCEPT ![walk.next] = walk.next < DayOf(HourOf(lastWalk))]
    /\ Continue(walk.next + 1, walk.last)
    /\ UNCHANGED <<now, stamped, requests, hourly, lastWalk, up, made, late, failed>>

aggregateHour ==
    /\ storeHour(InHour(requests, walk.next))
    /\ UNCHANGED <<failed, spent>>

\* Mutant: the end of the range is inclusive.
SourceInclusive(d) == HoursOf(d) \cup {h \in Hours : h - 1 \in HoursOf(d)}

\* The hours of a day.
Source(d) == HoursOf(d)

aggregateDay ==
    /\ storeDay(Source(walk.next))
    /\ broken' = [broken EXCEPT ![walk.next] = FALSE]
    /\ UNCHANGED spent

\* The query, an INSERT or the commit fails, and nothing is stored; or the Scan of some
\* rows or the fetch of the next ones does, and what was read is: such a row is skipped,
\* and rows.Err() is never asked.  The catch-up goes on with the next bucket.
aggregateFails ==
    /\ spent.failures < MaxFailures
    /\ spent' = [spent EXCEPT !.failures = @ + 1]
    /\ \/ /\ \E read \in SUBSET InHour(requests, walk.next) : storeHour(read)
          /\ failed' = [failed EXCEPT ![walk.next] = TRUE]
       \/ /\ \E read \in SUBSET Source(walk.next) : storeDay(read)
          /\ broken' = [broken EXCEPT ![walk.next] = TRUE]

Expired(t) == t + RetentionDays * TicksPerDay < now

\* The DELETE may fail.
retentionSweep ==
    /\ Doing("sweep")
    /\ requests' \in {requests, {r \in requests : ~Expired(r.ts)}}
    /\ Done
    /\ UNCHANGED <<now, stamped, hourly, daily, lastWalk, up, history, spent>>

tick(job) ==
    /\ up /\ todo = <<>>
    /\ todo' = <<job>>
    /\ UNCHANGED <<now, stamped, requests, hourly, daily, walk, lastWalk, up, history, spent>>

-----------------------------------------------------------------------------
(* The latencies of a bucket *)

\* sort.Ints: the k-th in order is the one with k - 1 before it, equal ones as they came.
Preceding(s, i) == {j \in DOMAIN s : s[j] < s[i] \/ (s[j] = s[i] /\ j < i)}
InOrder(s, k) == s[CHOOSE i \in DOMAIN s : Cardinality(Preceding(s, i)) = k - 1]

\* Mutant: the latencies are indexed as they came.
percentileUnsorted(latencies, q) == latencies[(Len(latencies) * q) \div 100 + 1]

\* percentiles: the index is cut off, in the sorted latencies (their clamp never bites).
percentile(latencies, q) == InOrder(latencies, (Len(latencies) * q) \div 100 + 1)

-----------------------------------------------------------------------------
(* The clock and the process *)

clock ==
    /\ now < MaxTicks
    /\ up => now < lastWalk + MaxLag
    /\ now' = now + 1
    /\ UNCHANGED <<stamped, requests, hourly, daily, sched, up, history, spent>>

\* The rows still to be inserted are lost.
crash ==
    /\ up
    /\ spent.crashes < MaxCrashes
    /\ spent' = [spent EXCEPT !.crashes = @ + 1]
    /\ up' = FALSE
    /\ stamped' = {}
    /\ todo' = <<>> /\ walk' = NoWalk
    /\ UNCHANGED <<now, requests, hourly, daily, lastWalk, history>>

startScheduler ==
    /\ ~up
    /\ up' = TRUE
    /\ todo' = Boot
    /\ lastWalk' = now
    /\ UNCHANGED <<now, stamped, requests, hourly, daily, walk, history, spent>>

Work == aggregateHourlyCatchup \/ aggregateDailyCatchup \/ aggregateHour \/ aggregateDay
            \/ retentionSweep

Next ==
    \/ recordRequest
    \/ \E r \in stamped : insertRequest(r)
    \/ Work
    \/ aggregateFails
    \/ \E job \in Jobs : tick(job)
    \/ clock
    \/ crash
    \/ startScheduler

\* The goroutine goes on with its work, its ticker fires, the service is restarted.
Fairness == WF_vars(Work) /\ SF_vars(tick("hourly")) /\ WF_vars(startScheduler)

Spec == Init /\ [][Next]_vars /\ Fairness

-----------------------------------------------------------------------------
(* Properties *)

\* An hour's aggregate counts no request of another hour.  Once a later hour is stored
\* it counts every request that was inserted before the hour was over, although rows
\* are deleted and the process restarts; unless an aggregation of it failed, which may
\* have stored a part of it for good (scheduler.go:49-69, 135-159).
HoursCounted ==
    \A h \in Hours :
        /\ hourly[h] \subseteq InHour(made, h)
        /\ h <= LastBucket(hourly) /\ ~failed[h] => InTime(h) \subseteq hourly[h]

\* A stored aggregate is final, as "kept for ever" has it (db.go:58, 75): no catch-up
\* lowers one after the rows it was made from were deleted, unless the SELECT of the
\* last bucket fails, which starts it all over (an interrupted one stays as it is, too).
AggregatesFinal ==
    [][/\ \A h \in Hours : hourly[h] # {} => hourly'[h] = hourly[h]
       /\ \A d \in Days : daily[d] # {} => daily'[d] = daily[d]]_<<hourly, daily>>

\* The rows of the hours of a day that were stored when it was last aggregated.
Known(d) == UNION {hourly[h] : h \in {g \in HoursOf(d) : g <= upTo[d]}}

\* A day's aggregate is made from hours that were final then: it counts those of them
\* that were stored when it was made, or some if the aggregation was interrupted.  If it
\* was made after an hourly catch-up that began when the day was over, it has every
\* request inserted in time, but for hours that failed: a daily tick that comes before
\* the hourly one after midnight is the only way to lose one (scheduler.go:71-88,
\* 121-126, 167-196).
DaysFromHours ==
    \A d \in Days : daily[d] # {} =>
        /\ daily[d] \subseteq Known(d)
        /\ ~broken[d] => daily[d] = Known(d)
        /\ ~broken[d] /\ dayOver[d] =>
               \A h \in HoursOf(d) : failed[h] \/ InTime(h) \subseteq daily[d]

\* Short samples in any order, and samples long enough for p95 not to be the maximum.
Samples == (UNION {[1..n -> 1..3] : n \in 1..4}) \cup {[i \in 1..n |-> n - i] : n \in 5..45}

\* The share of a sample at or below its q-th percentile is at least q percent and the
\* share below it at most that, ties and short samples included (scheduler.go:244-256).
\* It is about no state, so it is evaluated where the scheduler has done nothing yet.
PercentilesRight ==
    now = Start /\ todo = Boot /\ spent.requests = 0 => \A s \in Samples, q \in {50, 95} :
        LET p == percentile(s, q) IN
        /\ Cardinality({i \in DOMAIN s : s[i] <= p}) * 100 >= q * Len(s)
        /\ Cardinality({i \in DOMAIN s : s[i] < p}) * 100 <= q * Len(s)

\* An hour with a request inserted in time is in the end aggregated, across a crash and a
\* restart, unless an aggregation of it failed (scheduler.go:15-18, 20-35).
HoursSettle ==
    \A h \in Hours :
        (InTime(h) # {} /\ h < HourOf(now)) ~> (hourly[h] # {} \/ failed[h])
=============================================================================
