------------------------- MODULE Statistics_proofs -------------------------
(***************************************************************************)
(* Theorems about Statistics, for any clock, retention and bounds.          *)
(*                                                                          *)
(* Types, jobs and times (TInv) hold whatever fails.  The rest (IInv) needs *)
(* that the SELECTs of the catch-ups answer: the hours before the           *)
(* Frontier need no more rows (Passed), the rows of the others are still    *)
(* there (Kept), and what is stored lies behind every walk (WalksBeyond).   *)
(* The percentiles are those of any sample, not only of those TLC looks at. *)
(***************************************************************************)
EXTENDS Statistics, WellFoundedInduction, FiniteSetTheorems, TLAPS

\* The jobs yet to do are the rest of the boot sequence or one tick's, a stopped process
\* has none, and only the catch-ups walk.
Shape ==
    /\ todo \in {<<>>, Boot, Tail(Boot)} \cup {<<j>> : j \in Jobs}
    /\ ~up => todo = <<>>
    /\ walk # NoWalk => Head(todo) \in {"hourly", "daily"}

\* Nothing is from the future, and the hourly job has not been put off for too long.
Times ==
    /\ lastWalk <= now
    /\ up => now <= lastWalk + MaxLag
    /\ \A r \in stamped \cup made : r.ts <= now
    /\ requests \subseteq made

HourlyNext == todo # <<>> /\ Head(todo) = "hourly"

\* A catch-up is beyond what is stored, the hourly one up to the hour before it began.
WalksBeyond ==
    walk # NoWalk =>
        /\ Head(todo) = "hourly" =>
              walk.next > LastBucket(hourly) /\ walk.last + 1 = HourOf(lastWalk)
        /\ Head(todo) = "daily" => walk.next > LastBucket(daily)

\* The hour needs no more rows: an aggregation of it failed, or a later one is stored.
Settled(h) == failed[h] \/ h <= LastBucket(hourly)

\* The rows of an hour are kept until then ...
Kept == \A h \in Hours : Settled(h) \/ InTime(h) \subseteq requests

\* ... for rows are deleted only when the hourly job has had their hour.
Frontier ==
    IF ~up \/ (HourlyNext /\ walk = NoWalk) THEN 0
    ELSE IF HourlyNext THEN walk.next ELSE HourOf(lastWalk)

Passed == \A h \in Hours : h < Frontier => Settled(h) \/ InTime(h) = {}

\* Only closed hours are stored, and a day was made from no later one.
Closed ==
    /\ LastBucket(hourly) < HourOf(now)
    /\ \A d \in Days : /\ upTo[d] <= LastBucket(hourly)
                       /\ dayOver[d] => d < DayOf(HourOf(now))

TInv == TypeOK /\ Shape /\ Times
IInv == TInv /\ WalksBeyond /\ Kept /\ Passed /\ Closed /\ HoursCounted /\ DaysFromHours

-----------------------------------------------------------------------------
(* Hours and days *)

LEMMA Quotient ==
    ASSUME NEW b \in Nat \ {0}, NEW t \in Nat
    PROVE  t \div b \in Nat /\ b * (t \div b) <= t /\ t < b * (t \div b) + b
  OBVIOUS

LEMMA Steps ==
    ASSUME NEW b \in Nat \ {0}, NEW x \in Nat, NEW y \in Nat, x + 1 <= y
    PROVE  b * x + b <= b * y
  OBVIOUS

LEMMA QuotientGrows ==
    ASSUME NEW b \in Nat \ {0}, NEW s \in Nat, NEW t \in Nat, s <= t
    PROVE  s \div b <= t \div b
<1>1. SUFFICES ASSUME t \div b + 1 <= s \div b PROVE FALSE
  BY Quotient
<1>2. b * (t \div b) + b <= b * (s \div b)
  BY Steps, Quotient, <1>1
<1>3. b * (t \div b) \in Nat /\ b * (s \div b) \in Nat
  BY Quotient
<1> QED
  BY <1>2, <1>3, Quotient

LEMMA QuotientAtLeast ==
    ASSUME NEW b \in Nat \ {0}, NEW k \in Nat, NEW t \in Nat, b * k <= t
    PROVE  k <= t \div b
<1>1. SUFFICES ASSUME t \div b + 1 <= k PROVE FALSE
  BY Quotient
<1>2. b * (t \div b) + b <= b * k
  BY Steps, Quotient, <1>1
<1>3. b * (t \div b) \in Nat /\ b * k \in Nat
  BY Quotient
<1> QED
  BY <1>2, <1>3, Quotient

LEMMA Constants ==
    /\ TicksPerHour \in Nat \ {0} /\ HoursPerDay \in Nat \ {0} /\ RetentionDays \in Nat
    /\ TicksPerDay \in Nat /\ RetentionDays * TicksPerDay \in Nat
    /\ Start \in Nat /\ MaxTicks \in Nat /\ MaxRequests \in Nat /\ MaxFailures \in Nat
    /\ MaxCrashes \in Nat /\ MaxLag \in Nat
<1>1. TicksPerHour \in Nat \ {0} /\ HoursPerDay \in Nat \ {0} /\ RetentionDays \in Nat
  BY StatisticsBounds
<1>2. TicksPerDay \in Nat
  BY <1>1 DEF TicksPerDay
<1>3. RetentionDays * TicksPerDay \in Nat
  BY <1>1, <1>2
<1> QED
  BY <1>1, <1>2, <1>3, StatisticsBounds

\* An hour of the model is a number, and so is its day; neither is 0, which is what
\* MAX(bucket) reads of an empty table.
LEMMA HourIsNumber == \A t \in Ticks : t \in Nat /\ HourOf(t) \in Hours
<1> TAKE t \in Ticks
<1>1. t \in Nat /\ Start <= t /\ t <= MaxTicks
  BY Constants DEF Ticks
<1>2. HourOf(Start) <= HourOf(t) /\ HourOf(t) <= HourOf(MaxTicks)
  BY <1>1, Constants, QuotientGrows DEF HourOf
<1> QED
  BY <1>1, <1>2, Constants, Quotient DEF HourOf, Hours

LEMMA FirstHour == HourOf(Start) \in Nat /\ HourOf(Start) >= HoursPerDay
<1>1. TicksPerHour * HoursPerDay <= Start
  BY StatisticsBounds DEF TicksPerDay
<1> QED
  BY <1>1, Constants, Quotient, QuotientAtLeast DEF HourOf

LEMMA FirstDay == DayOf(HourOf(Start)) \in Nat /\ DayOf(HourOf(Start)) >= 1
<1>1. HoursPerDay * 1 <= HourOf(Start)
  BY FirstHour, Constants
<1>2. 1 <= HourOf(Start) \div HoursPerDay
  BY <1>1, FirstHour, Constants, QuotientAtLeast
<1> QED
  BY <1>2, FirstHour, Constants, Quotient DEF DayOf

LEMMA HoursPositive == \A h \in Hours : h \in Nat /\ h > 0
  BY FirstHour, Constants, Quotient DEF Hours, HourOf

LEMMA DayIsNumber == \A h \in Hours : DayOf(h) \in Days
<1> TAKE h \in Hours
<1>0. HourOf(MaxTicks) \in Nat
  BY Constants, Quotient DEF HourOf
<1>1. h \in Nat /\ HourOf(Start) <= h /\ h <= HourOf(MaxTicks)
  BY <1>0, FirstHour DEF Hours
<1>2. DayOf(HourOf(Start)) <= DayOf(h) /\ DayOf(h) <= DayOf(HourOf(MaxTicks))
  BY <1>0, <1>1, FirstHour, Constants, QuotientGrows DEF DayOf
<1>3. DayOf(h) \in Nat /\ DayOf(HourOf(MaxTicks)) \in Nat
  BY <1>0, <1>1, Constants, Quotient DEF DayOf
<1> QED
  BY <1>2, <1>3, FirstDay DEF Days

LEMMA DaysPositive == \A d \in Days : d \in Nat /\ d > 0
<1>1. DayOf(HourOf(MaxTicks)) \in Nat
  BY Constants, Quotient DEF HourOf, DayOf
<1> QED
  BY <1>1, FirstDay DEF Days

-----------------------------------------------------------------------------
(* Buckets *)

LEMMA LeastOf ==
    ASSUME NEW S, S \subseteq Nat, S # {}
    PROVE  \E x \in S : \A y \in S : x <= y
<1> DEFINE Less == {p \in Nat \X Nat : p[1] < p[2]}
<1>1. IsWellFoundedOn(Less, Nat)
  BY NatLessThanWellFounded DEF OpToRel
<1>2. \E x \in S : \A y \in S : ~(<<y, x>> \in Less)
  <2> HIDE DEF Less
  <2> QED
    BY <1>1, WFMin
<1>3. PICK x \in S : \A y \in S : ~(<<y, x>> \in Less)
  BY <1>2
<1>4. \A y \in S : x \in Nat /\ y \in Nat /\ ~(y < x)
  BY <1>3
<1> QED
  BY <1>4

LEMMA MinIsLeast ==
    ASSUME NEW S, S \subseteq Nat, S # {}
    PROVE  Min(S) \in S /\ \A y \in S : Min(S) <= y
  BY LeastOf DEF Min

\* The greatest is the least bound.
LEMMA MaxIsGreatest ==
    ASSUME NEW S, S \subseteq Nat, S # {}, NEW m \in Nat, \A y \in S : y <= m
    PROVE  Max(S) \in S /\ \A y \in S : y <= Max(S)
<1> DEFINE bounds == {n \in Nat : \A y \in S : y <= n}
<1>1. PICK n \in bounds : \A k \in bounds : n <= k
  <2>1. m \in bounds
    OBVIOUS
  <2>2. \E x \in bounds : \A y \in bounds : x <= y
    BY <2>1, LeastOf
  <2> QED
    BY <2>2
<1>2. n \in S
  <2>1. SUFFICES ASSUME n \notin S PROVE FALSE
    OBVIOUS
  <2>2. n \in Nat /\ \A y \in S : y \in Nat /\ y <= n - 1
    BY <1>1, <2>1
  <2>3. n - 1 \in Nat
    <3>1. PICK y \in S : y \in Nat /\ y <= n - 1
      BY <2>2
    <3> QED
      BY <2>2, <3>1
  <2>4. n - 1 \in bounds
    BY <2>2, <2>3
  <2> QED
    BY <1>1, <2>2, <2>4
<1>3. \E x \in S : \A y \in S : x >= y
  BY <1>1, <1>2
<1> QED
  BY <1>3 DEF Max

LEMMA LastBucketIs ==
    ASSUME NEW m \in Nat, NEW table, DOMAIN table \subseteq 1..m
    PROVE  /\ LastBucket(table) \in Buckets(table) \cup {0}
           /\ LastBucket(table) \in Nat
           /\ \A b \in Buckets(table) : b \in Nat /\ b <= LastBucket(table)
<1>1. Buckets(table) \cup {0} \subseteq Nat
  BY DEF Buckets
<1>2. \A b \in Buckets(table) \cup {0} : b <= m
  BY DEF Buckets
<1> QED
  BY <1>1, <1>2, MaxIsGreatest DEF LastBucket

\* Storing a bucket beyond the last one makes it the last one.
LEMMA LastBucketStored ==
    ASSUME NEW m \in Nat, NEW table, DOMAIN table \subseteq 1..m,
           NEW b \in DOMAIN table, b > LastBucket(table), NEW rows, rows # {}
    PROVE  LastBucket([table EXCEPT ![b] = rows]) = b
<1> DEFINE new == [table EXCEPT ![b] = rows]
<1>1. DOMAIN new \subseteq 1..m
  OBVIOUS
<1>2. Buckets(new) = Buckets(table) \cup {b}
  BY DEF Buckets
<1>3. \A c \in Buckets(table) : c \in Nat /\ c <= LastBucket(table)
  BY LastBucketIs
<1>4. LastBucket(table) \in Nat /\ b \in Nat
  BY LastBucketIs
<1>5. /\ LastBucket(new) \in Buckets(new) \cup {0}
      /\ LastBucket(new) \in Nat
      /\ \A c \in Buckets(new) : c \in Nat /\ c <= LastBucket(new)
  <2> HIDE DEF new
  <2> QED
    BY <1>1, LastBucketIs
<1> HIDE DEF new
<1>6. LastBucket(new) = b
  BY <1>2, <1>3, <1>4, <1>5
<1> QED
  BY <1>6 DEF new

LEMMA HourTable ==
    ASSUME NEW table, DOMAIN table = Hours
    PROVE  /\ LastBucket(table) \in Hours \cup {0}
           /\ LastBucket(table) \in Nat
           /\ \A h \in Hours : table[h] # {} => h <= LastBucket(table)
<1>1. HourOf(MaxTicks) \in Nat
  BY Constants, Quotient DEF HourOf
<1>2. DOMAIN table \subseteq 1..HourOf(MaxTicks)
  BY <1>1, HoursPositive, FirstHour DEF Hours
<1> QED
  BY <1>1, <1>2, LastBucketIs DEF Buckets

LEMMA DayTable ==
    ASSUME NEW table, DOMAIN table = Days
    PROVE  /\ LastBucket(table) \in Days \cup {0}
           /\ LastBucket(table) \in Nat
           /\ \A d \in Days : table[d] # {} => d <= LastBucket(table)
<1>1. DayOf(HourOf(MaxTicks)) \in Nat
  BY Constants, Quotient DEF HourOf, DayOf
<1>2. DOMAIN table \subseteq 1..DayOf(HourOf(MaxTicks))
  BY <1>1, DaysPositive, FirstDay DEF Days
<1> QED
  BY <1>1, <1>2, LastBucketIs DEF Buckets

LEMMA HourStored ==
    ASSUME NEW table, DOMAIN table = Hours, NEW h \in Hours, h > LastBucket(table),
           NEW rows, rows # {}
    PROVE  LastBucket([table EXCEPT ![h] = rows]) = h
<1>1. HourOf(MaxTicks) \in Nat
  BY Constants, Quotient DEF HourOf
<1>2. DOMAIN table \subseteq 1..HourOf(MaxTicks)
  BY <1>1, HoursPositive, FirstHour DEF Hours
<1> QED
  BY <1>1, <1>2, LastBucketStored

LEMMA DayStored ==
    ASSUME NEW table, DOMAIN table = Days, NEW d \in Days, d > LastBucket(table),
           NEW rows, rows # {}
    PROVE  LastBucket([table EXCEPT ![d] = rows]) = d
<1>1. DayOf(HourOf(MaxTicks)) \in Nat
  BY Constants, Quotient DEF HourOf, DayOf
<1>2. DOMAIN table \subseteq 1..DayOf(HourOf(MaxTicks))
  BY <1>1, DaysPositive, FirstDay DEF Days
<1> QED
  BY <1>1, <1>2, LastBucketStored

-----------------------------------------------------------------------------
(* Types, jobs and times *)

LEMMA JobsLeft ==
    ASSUME Shape, todo # <<>>
    PROVE  /\ Tail(todo) \in Seq(Jobs)
           /\ Tail(todo) \in {<<>>, Boot, Tail(Boot)} \cup {<<j>> : j \in Jobs}
           /\ Tail(todo) # <<>> => Head(Tail(todo)) # "hourly"
           /\ Head(todo) \in Jobs
<1> DEFINE T == Tail(todo)
<1>0. ASSUME NEW t, t = <<"sweep">> \/ t = <<"daily", "sweep">>
      PROVE  t \in Seq(Jobs) /\ Head(t) # "hourly"
  <2>1. CASE t = <<"sweep">>
    BY <2>1 DEF Jobs
  <2>2. CASE t = <<"daily", "sweep">>
    BY <2>2 DEF Jobs
  <2> QED
    BY <1>0, <2>1, <2>2
<1>1. CASE todo = Boot
  <2>1. todo = <<"hourly", "daily", "sweep">>
    BY <1>1 DEF Boot
  <2>2. T = <<"daily", "sweep">> /\ Head(todo) = "hourly"
    BY <2>1
  <2> QED
    BY <1>0, <1>1, <2>2 DEF Jobs
<1>2. CASE todo = Tail(Boot)
  <2>1. todo = <<"daily", "sweep">>
    BY <1>2 DEF Boot
  <2>2. T = <<"sweep">> /\ Head(todo) = "daily"
    BY <2>1
  <2> QED
    BY <1>0, <2>2 DEF Jobs
<1>3. ASSUME NEW j \in Jobs, todo = <<j>>
      PROVE  T = <<>> /\ Head(todo) \in Jobs
  BY <1>3
<1>4. << >> \in Seq(Jobs)
  OBVIOUS
<1> QED
  BY <1>1, <1>2, <1>3, <1>4 DEF Shape

LEMMA Units ==
    ASSUME TypeOK
    PROVE  /\ now \in Nat /\ lastWalk \in Nat
           /\ HourOf(now) \in Nat /\ HourOf(now) >= 1
           /\ DayOf(HourOf(now)) \in Nat /\ DayOf(HourOf(now)) >= 1
  BY HourIsNumber, HoursPositive, DayIsNumber, DaysPositive DEF TypeOK

\* What the jobs and the walk are after a step of a catch-up.
LEMMA Continued ==
    ASSUME TInv, todo # <<>>, Head(todo) \in {"hourly", "daily"},
           NEW first \in Nat, NEW last \in Nat,
           last < IF Head(todo) = "hourly" THEN HourOf(now) ELSE DayOf(HourOf(now)),
           Continue(first, last) \/ Done,
           now' = now, up' = up
    PROVE  /\ todo' \in Seq(Jobs)
           /\ walk' \in [next : Nat, last : Nat]
           /\ walk' # NoWalk =>
                /\ todo' = todo /\ first <= last
                /\ walk' = [next |-> first, last |-> last]
                /\ todo' # <<>> /\ walk'.next <= walk'.last
                /\ walk'.last < IF Head(todo') = "hourly"
                                THEN HourOf(now)' ELSE DayOf(HourOf(now))'
           /\ walk' = NoWalk => todo' = Tail(todo)
           /\ Shape'
<1>1. todo \in Seq(Jobs) /\ Shape
  BY DEF TInv, TypeOK
<1>2. CASE todo' = Tail(todo) /\ walk' = NoWalk
  BY <1>1, <1>2, JobsLeft DEF NoWalk, Shape
<1>3. CASE first <= last /\ walk' = [next |-> first, last |-> last] /\ todo' = todo
  <2>1. walk' # NoWalk
    BY <1>3 DEF NoWalk
  <2> QED
    BY <1>1, <1>3, <2>1 DEF Shape
<1> QED
  BY <1>2, <1>3 DEF Continue, Done

\* Where a catch-up begins.
LEMMA Begins ==
    ASSUME NEW table, LastBucket(table) \in Nat, NEW source, source \subseteq Nat \ {0},
           NEW unit \in Nat, unit >= 1, catchup(table, source, unit)
    PROVE  /\ unit - 1 \in Nat
           /\ Done \/ \E first \in Nat : Continue(first, unit - 1)
           /\ ~SelectMayFail =>
                IF LastBucket(table) = 0
                THEN IF source = {} THEN Done ELSE Continue(Min(source), unit - 1)
                ELSE Continue(LastBucket(table) + 1, unit - 1)
<1>1. Earliest(source) \in Nat /\ (Earliest(source) = 0 <=> source = {})
      /\ (source # {} => Earliest(source) = Min(source))
  BY MinIsLeast DEF Earliest
<1>2. /\ \A n \in Nat : Read(n) \subseteq Nat
      /\ ~SelectMayFail => \A n \in Nat : Read(n) = {n}
  BY DEF Read
<1>3. PICK last \in Read(LastBucket(table)), first \in Read(Earliest(source)) :
          IF last = 0 /\ first = 0 THEN Done
          ELSE Continue(IF last = 0 THEN first ELSE last + 1, unit - 1)
  BY DEF catchup, LastClosed, FirstAfter
<1>4. last \in Nat /\ first \in Nat /\ last + 1 \in Nat /\ unit - 1 \in Nat
  BY <1>1, <1>2
<1>5. ~SelectMayFail => last = LastBucket(table) /\ first = Earliest(source)
  BY <1>1, <1>2
<1> QED
  BY <1>1, <1>3, <1>4, <1>5

LEMMA Sources ==
    ASSUME TypeOK
    PROVE  /\ {HourOf(r.ts) : r \in requests} \subseteq Hours
           /\ {DayOf(h) : h \in Buckets(hourly)} \subseteq Days
<1>1. \A r \in requests : r.ts \in Ticks
  BY DEF TypeOK, Row
<1>2. \A h \in Buckets(hourly) : h \in Hours
  BY DEF TypeOK, Buckets
<1> QED
  BY <1>1, <1>2, HourIsNumber, DayIsNumber

LEMMA Tables ==
    ASSUME TypeOK
    PROVE  LastBucket(hourly) \in Hours \cup {0} /\ LastBucket(daily) \in Days \cup {0}
  BY HourTable, DayTable DEF TypeOK

LEMMA TypedCatchup ==
    ASSUME TInv, aggregateHourlyCatchup \/ aggregateDailyCatchup
    PROVE  TInv'
<1>1. TypeOK /\ Shape /\ Times
  BY DEF TInv
<1>2. LastBucket(hourly) \in Nat /\ LastBucket(daily) \in Nat
  BY <1>1, Tables, HoursPositive, DaysPositive
<1>3. ASSUME NEW first \in Nat, NEW last \in Nat, todo # <<>>,
             Head(todo) \in {"hourly", "daily"},
             last < IF Head(todo) = "hourly" THEN HourOf(now) ELSE DayOf(HourOf(now)),
             Continue(first, last) \/ Done,
             lastWalk' \in {lastWalk, now},
             UNCHANGED <<now, stamped, requests, hourly, daily, up, history, spent>>
      PROVE  TInv'
  <2>1. todo' \in Seq(Jobs) /\ walk' \in [next : Nat, last : Nat] /\ Shape'
    BY <1>3, Continued
  <2>2. walk' # NoWalk => /\ todo' # <<>> /\ walk'.next <= walk'.last
                          /\ walk'.last < IF Head(todo') = "hourly"
                                          THEN HourOf(now)' ELSE DayOf(HourOf(now))'
    BY <1>3, Continued
  <2>3. lastWalk' \in Ticks
    BY <1>1, <1>3 DEF TypeOK
  <2>4. TypeOK'
    BY <1>1, <1>3, <2>1, <2>2, <2>3 DEF TypeOK, history
  <2>5. Times'
    BY <1>1, <1>3, Units, Constants DEF Times, history
  <2> QED
    BY <2>1, <2>4, <2>5 DEF TInv
<1>4. CASE aggregateHourlyCatchup
  <2>1. {HourOf(r.ts) : r \in requests} \subseteq Nat \ {0}
    BY <1>1, Sources, HoursPositive
  <2>2. HourOf(now) \in Nat /\ HourOf(now) >= 1
    BY <1>1, Units
  <2>3. catchup(hourly, {HourOf(r.ts) : r \in requests}, HourOf(now))
    BY <1>4 DEF aggregateHourlyCatchup
  <2>4. /\ HourOf(now) - 1 \in Nat
        /\ Done \/ \E first \in Nat : Continue(first, HourOf(now) - 1)
    BY <1>2, <2>1, <2>2, <2>3, Begins
  <2> QED
    BY <1>3, <1>4, <2>2, <2>4 DEF aggregateHourlyCatchup, Doing
<1>5. CASE aggregateDailyCatchup
  <2>1. {DayOf(h) : h \in Buckets(hourly)} \subseteq Nat \ {0}
    BY <1>1, Sources, DaysPositive
  <2>2. DayOf(HourOf(now)) \in Nat /\ DayOf(HourOf(now)) >= 1
    BY <1>1, Units
  <2>3. catchup(daily, {DayOf(h) : h \in Buckets(hourly)}, DayOf(HourOf(now)))
    BY <1>5 DEF aggregateDailyCatchup
  <2>4. /\ DayOf(HourOf(now)) - 1 \in Nat
        /\ Done \/ \E first \in Nat : Continue(first, DayOf(HourOf(now)) - 1)
    BY <1>2, <2>1, <2>2, <2>3, Begins
  <2> QED
    BY <1>3, <1>5, <2>2, <2>4 DEF aggregateDailyCatchup, Doing
<1> QED
  BY <1>4, <1>5

\* The bounded counters.
Spent == [requests : 0..MaxRequests, failures : 0..MaxFailures, crashes : 0..MaxCrashes]

LEMMA Spending ==
    ASSUME TypeOK
    PROVE  /\ spent \in Spent /\ spent.requests \in Nat
           /\ spent.requests < MaxRequests =>
                /\ spent.requests + 1 \in 1..MaxRequests
                /\ [spent EXCEPT !.requests = @ + 1] \in Spent
           /\ spent.failures < MaxFailures => [spent EXCEPT !.failures = @ + 1] \in Spent
           /\ spent.crashes < MaxCrashes => [spent EXCEPT !.crashes = @ + 1] \in Spent
<1>1. spent \in Spent
  BY DEF TypeOK, Spent
<1>2. /\ spent.requests \in 0..MaxRequests /\ spent.failures \in 0..MaxFailures
      /\ spent.crashes \in 0..MaxCrashes
  BY <1>1 DEF Spent
<1>3. /\ spent.requests < MaxRequests => spent.requests + 1 \in 1..MaxRequests
      /\ spent.requests < MaxRequests => spent.requests + 1 \in 0..MaxRequests
      /\ spent.failures < MaxFailures => spent.failures + 1 \in 0..MaxFailures
      /\ spent.crashes < MaxCrashes => spent.crashes + 1 \in 0..MaxCrashes
  BY <1>2, Constants
<1>4. spent.requests \in Nat
  BY <1>2, Constants
<1>5. /\ spent.requests < MaxRequests => [spent EXCEPT !.requests = @ + 1] \in Spent
      /\ spent.failures < MaxFailures => [spent EXCEPT !.failures = @ + 1] \in Spent
      /\ spent.crashes < MaxCrashes => [spent EXCEPT !.crashes = @ + 1] \in Spent
  BY <1>1, <1>3 DEF Spent
<1> QED
  BY <1>1, <1>3, <1>4, <1>5

\* A step of a walk stores an hour or a day, of what it has read, and some of it may be
\* missing.
HourStep == \E read \in SUBSET InHour(requests, walk.next) : storeHour(read)
DayStep == \E read \in SUBSET Source(walk.next) : storeDay(read)

LEMMA WalkSteps ==
    /\ aggregateHour => HourStep /\ UNCHANGED <<failed, spent>>
    /\ aggregateDay =>
          DayStep /\ broken' = [broken EXCEPT ![walk.next] = FALSE] /\ UNCHANGED spent
    /\ aggregateFails =>
          /\ spent.failures < MaxFailures /\ spent' = [spent EXCEPT !.failures = @ + 1]
          /\ \/ HourStep /\ failed' = [failed EXCEPT ![walk.next] = TRUE]
             \/ DayStep /\ broken' = [broken EXCEPT ![walk.next] = TRUE]
  BY DEF aggregateHour, aggregateDay, aggregateFails, HourStep, DayStep

LEMMA TypedWalk ==
    ASSUME TInv, aggregateHour \/ aggregateDay \/ aggregateFails
    PROVE  TInv'
<1>1. TypeOK /\ Shape /\ Times
  BY DEF TInv
<1>2. HourStep \/ DayStep
  BY WalkSteps
<1>3. /\ walk # NoWalk /\ todo # <<>> /\ Head(todo) \in {"hourly", "daily"}
      /\ walk.next + 1 \in Nat /\ walk.last \in Nat
      /\ walk.last < IF Head(todo) = "hourly" THEN HourOf(now) ELSE DayOf(HourOf(now))
      /\ Continue(walk.next + 1, walk.last)
      /\ UNCHANGED <<now, up, lastWalk, stamped, requests, made, late>>
  <2>1. /\ walk # NoWalk /\ todo # <<>> /\ Head(todo) \in {"hourly", "daily"}
        /\ Continue(walk.next + 1, walk.last)
        /\ UNCHANGED <<now, up, lastWalk, stamped, requests, made, late>>
    BY <1>2 DEF HourStep, DayStep, storeHour, storeDay, Doing
  <2>2. walk \in [next : Nat, last : Nat]
        /\ walk.last < IF Head(todo) = "hourly" THEN HourOf(now) ELSE DayOf(HourOf(now))
    BY <1>1, <2>1 DEF TypeOK
  <2> QED
    BY <2>1, <2>2
<1>4. /\ todo' \in Seq(Jobs) /\ walk' \in [next : Nat, last : Nat] /\ Shape'
      /\ walk' # NoWalk => /\ todo' # <<>> /\ walk'.next <= walk'.last
                           /\ walk'.last < IF Head(todo') = "hourly"
                                           THEN HourOf(now)' ELSE DayOf(HourOf(now))'
  BY <1>3, Continued
<1>5. Times'
  BY <1>1, <1>3 DEF Times
<1>6. /\ hourly' \in [Hours -> SUBSET Row] /\ daily' \in [Days -> SUBSET Row]
      /\ upTo' \in [Days -> Hours \cup {0}] /\ dayOver' \in [Days -> BOOLEAN]
  <2>1. ASSUME NEW read \in SUBSET InHour(requests, walk.next), storeHour(read)
        PROVE  /\ hourly' \in [Hours -> SUBSET Row] /\ daily' \in [Days -> SUBSET Row]
               /\ upTo' \in [Days -> Hours \cup {0}] /\ dayOver' \in [Days -> BOOLEAN]
    <3>1. read \in SUBSET Row
      BY <1>1 DEF TypeOK, InHour
    <3> QED
      BY <1>1, <2>1, <3>1 DEF TypeOK, storeHour, stored
  <2>2. ASSUME NEW read \in SUBSET Source(walk.next), storeDay(read)
        PROVE  /\ hourly' \in [Hours -> SUBSET Row] /\ daily' \in [Days -> SUBSET Row]
               /\ upTo' \in [Days -> Hours \cup {0}] /\ dayOver' \in [Days -> BOOLEAN]
    <3>1. UNION {hourly[h] : h \in read} \in SUBSET Row
      BY <1>1 DEF TypeOK, Source, HoursOf
    <3>2. LastBucket(hourly) \in Hours \cup {0}
      BY <1>1, Tables
    <3>3. (walk.next < DayOf(HourOf(lastWalk))) \in BOOLEAN
      OBVIOUS
    <3> QED
      BY <1>1, <2>2, <3>1, <3>2, <3>3 DEF TypeOK, storeDay, stored
  <2> QED
    BY <1>2, <2>1, <2>2 DEF HourStep, DayStep
<1>7. failed' \in [Hours -> BOOLEAN] /\ broken' \in [Days -> BOOLEAN]
  BY <1>1, WalkSteps DEF TypeOK, HourStep, DayStep, storeHour, storeDay
<1>8. spent' \in Spent
  BY <1>1, WalkSteps, Spending
<1> QED
  BY <1>3, <1>4, <1>5, <1>6, <1>7, <1>8 DEF TInv, TypeOK, Spent

LEMMA TypedRequest ==
    ASSUME TInv, recordRequest \/ \E r \in stamped : insertRequest(r)
    PROVE  TInv'
<1>1. TypeOK /\ Shape /\ Times /\ now \in Nat
  BY Units DEF TInv
<1>2. CASE recordRequest
  <2>1. spent.requests + 1 \in 1..MaxRequests
    BY <1>1, <1>2, Spending DEF recordRequest
  <2>2. [id |-> spent.requests + 1, ts |-> now] \in Row
    BY <1>1, <2>1 DEF TypeOK, Row
  <2>3. spent' \in Spent
    BY <1>1, <1>2, Spending DEF recordRequest
  <2>4. TypeOK'
    BY <1>1, <1>2, <2>2, <2>3 DEF TypeOK, Spent, recordRequest, sched, history
  <2>5. Times'
    BY <1>1, <1>2 DEF Times, recordRequest, sched, history
  <2> QED
    BY <1>1, <1>2, <2>4, <2>5 DEF TInv, Shape, recordRequest, sched
<1>3. ASSUME NEW r \in stamped, insertRequest(r) PROVE TInv'
  <2>1. TypeOK'
    BY <1>1, <1>3 DEF TypeOK, insertRequest, sched
  <2>2. Times'
    BY <1>1, <1>3 DEF Times, insertRequest, sched
  <2> QED
    BY <1>1, <1>3, <2>1, <2>2 DEF TInv, Shape, insertRequest, sched
<1> QED
  BY <1>2, <1>3

LEMMA TypedOther ==
    ASSUME TInv, retentionSweep \/ (\E job \in Jobs : tick(job)) \/ clock \/ crash
                     \/ startScheduler
    PROVE  TInv'
<1>1. TypeOK /\ Shape /\ Times /\ now \in Nat /\ lastWalk \in Nat
  BY Units DEF TInv
<1>2. CASE retentionSweep
  <2>1. Tail(todo) \in Seq(Jobs)
        /\ Tail(todo) \in {<<>>, Boot, Tail(Boot)} \cup {<<j>> : j \in Jobs}
    BY <1>1, <1>2, JobsLeft DEF retentionSweep, Doing
  <2>2. NoWalk \in [next : Nat, last : Nat]
    BY DEF NoWalk
  <2>3. TypeOK'
    BY <1>1, <1>2, <2>1, <2>2 DEF TypeOK, retentionSweep, Done, history
  <2>4. Times'
    BY <1>1, <1>2 DEF Times, retentionSweep, history
  <2> QED
    BY <1>1, <1>2, <2>1, <2>3, <2>4 DEF TInv, Shape, retentionSweep, Done, Doing
<1>3. ASSUME NEW job \in Jobs, tick(job) PROVE TInv'
  <2>1. <<job>> \in Seq(Jobs)
    OBVIOUS
  <2>2. walk = NoWalk
    BY <1>1, <1>3 DEF TypeOK, tick
  <2>3. TypeOK'
    BY <1>1, <1>3, <2>1, <2>2 DEF TypeOK, tick, history
  <2>4. Times'
    BY <1>1, <1>3 DEF Times, tick, history
  <2> QED
    BY <1>1, <1>3, <2>2, <2>3, <2>4 DEF TInv, Shape, tick
<1>4. CASE clock
  <2>1. now' \in Ticks /\ now' \in Nat /\ now <= now'
    BY <1>1, <1>4, Constants DEF TypeOK, Ticks, clock
  <2>2. /\ HourOf(now) \in Hours /\ HourOf(now') \in Hours /\ HourOf(now) <= HourOf(now')
        /\ DayOf(HourOf(now)) <= DayOf(HourOf(now'))
    BY <1>1, <2>1, Constants, QuotientGrows, HourIsNumber, HoursPositive
    DEF TypeOK, HourOf, DayOf
  <2>3. /\ HourOf(now) \in Nat /\ HourOf(now') \in Nat
        /\ DayOf(HourOf(now)) \in Nat /\ DayOf(HourOf(now')) \in Nat
    BY <2>2, HoursPositive, DayIsNumber, DaysPositive
  <2>4. TypeOK'
    BY <1>1, <1>4, <2>1, <2>2, <2>3 DEF TypeOK, clock, sched, history
  <2>5. Times'
    BY <1>1, <1>4, <2>1, Constants, SMTT(30) DEF TypeOK, Row, Ticks, Times, clock, sched, history
  <2> QED
    BY <1>1, <1>4, <2>4, <2>5 DEF TInv, Shape, clock, sched
<1>5. CASE crash
  <2>1. NoWalk \in [next : Nat, last : Nat] /\ <<>> \in Seq(Jobs)
    BY DEF NoWalk
  <2>2. spent' \in Spent
    BY <1>1, <1>5, Spending DEF crash
  <2>4. TypeOK'
    BY <1>1, <1>5, <2>1, <2>2 DEF TypeOK, Spent, crash, history
  <2>3. Times'
    BY <1>1, <1>5 DEF Times, crash, history
  <2> QED
    BY <1>5, <2>3, <2>4 DEF TInv, Shape, crash
<1>6. CASE startScheduler
  <2>1. walk = NoWalk
    BY <1>1, <1>6 DEF TypeOK, Shape, startScheduler
  <2>2. Boot \in Seq(Jobs)
    BY DEF Boot, Jobs
  <2>3. TypeOK'
    BY <1>1, <1>6, <2>1, <2>2 DEF TypeOK, startScheduler, history
  <2>4. Times'
    BY <1>1, <1>6, Constants DEF Times, startScheduler, history
  <2> QED
    BY <1>6, <2>1, <2>3, <2>4 DEF TInv, Shape, startScheduler
<1> QED
  BY <1>2, <1>3, <1>4, <1>5, <1>6

LEMMA TypedInit == Init => TInv
<1> SUFFICES ASSUME Init PROVE TInv
  OBVIOUS
<1>1. Start \in Ticks
  BY StatisticsBounds DEF Ticks
<1>2. Boot \in Seq(Jobs)
  BY DEF Boot, Jobs
<1>3. NoWalk \in [next : Nat, last : Nat]
  BY DEF NoWalk
<1>4. spent \in Spent
  BY Constants DEF Init, Spent
<1>5. TypeOK
  BY <1>1, <1>2, <1>3, <1>4 DEF Init, TypeOK, Spent
<1>6. Shape
  BY DEF Init, Shape
<1>7. Times
  BY Constants DEF Init, Times
<1> QED
  BY <1>5, <1>6, <1>7 DEF TInv

LEMMA TypedNext == ASSUME TInv, [Next]_vars PROVE TInv'
<1>1. CASE UNCHANGED vars
  BY <1>1 DEF TInv, TypeOK, Shape, Times, vars
<1>2. CASE Next
  BY <1>2, TypedCatchup, TypedWalk, TypedRequest, TypedOther DEF Next, Work
<1> QED
  BY <1>1, <1>2

\* The variables have their types, and the walk of a catch-up ends with the last closed
\* hour or day, whatever fails (scheduler.go:51-91).
THEOREM TypeCorrect == Spec => []TypeOK
<1>1. TInv => TypeOK
  BY DEF TInv
<1> QED
  BY <1>1, TypedInit, TypedNext, PTL DEF Spec

-----------------------------------------------------------------------------
(* What the hourly job has had *)

DataSame ==
    UNCHANGED <<requests, hourly, daily, made, late, failed, broken, upTo, dayOver>>

LEMMA SameData ==
    ASSUME IInv, DataSame, HourOf(now) \in Nat, HourOf(now') \in Nat,
           HourOf(now) <= HourOf(now')
    PROVE  Kept' /\ HoursCounted' /\ DaysFromHours' /\ Closed'
<1>1. LastBucket(hourly) \in Nat
  BY Tables, HoursPositive DEF IInv, TInv
<1>2. Kept'
  BY DEF IInv, Kept, Settled, InTime, DataSame
<1>3. HoursCounted'
  BY DEF IInv, HoursCounted, InTime, DataSame
<1>4. DaysFromHours'
  BY DEF IInv, DaysFromHours, Known, InTime, DataSame
<1>5. DayOf(HourOf(now)) \in Nat /\ DayOf(HourOf(now')) \in Nat
      /\ DayOf(HourOf(now)) <= DayOf(HourOf(now'))
  BY Constants, Quotient, QuotientGrows DEF DayOf
<1>6. \A d \in Days : d \in Nat
  BY DaysPositive
<1>7. Closed'
  BY <1>1, <1>5, <1>6 DEF IInv, Closed, DataSame
<1> QED
  BY <1>2, <1>3, <1>4, <1>7

LEMMA ClosedDays ==
    ASSUME IInv, NEW d \in Days
    PROVE  /\ d \in Nat /\ upTo[d] \in Nat /\ upTo[d] <= LastBucket(hourly)
           /\ dayOver[d] => d < DayOf(HourOf(now))
<1>1. Closed /\ upTo \in [Days -> Hours \cup {0}]
  BY DEF IInv, TInv, TypeOK
<1>2. upTo[d] \in Nat /\ d \in Nat
  BY <1>1, HoursPositive, DaysPositive
<1> QED
  <2>1. upTo[d] <= LastBucket(hourly)
    BY <1>1 DEF Closed
  <2>2. ASSUME dayOver[d] PROVE d < DayOf(HourOf(now))
    BY <1>1, <2>2 DEF Closed
  <2> QED
    BY <1>2, <2>1, <2>2

LEMMA SamePassed ==
    ASSUME IInv, DataSame, Frontier \in Nat, Frontier' \in Nat, Frontier' <= Frontier
    PROVE  Passed'
<1>1. SUFFICES ASSUME NEW h \in Hours, h < Frontier'
               PROVE  (Settled(h) \/ InTime(h) = {})'
  BY DEF Passed
<1>2. h < Frontier
  BY <1>1, HoursPositive
<1>3. Settled(h) \/ InTime(h) = {}
  BY <1>2 DEF IInv, Passed
<1> QED
  BY <1>3 DEF Settled, InTime, DataSame

LEMMA FrontierBound ==
    ASSUME TInv, WalksBeyond
    PROVE  Frontier \in Nat /\ Frontier <= HourOf(now) /\ HourOf(lastWalk) \in Nat
<1>1. /\ now \in Nat /\ lastWalk \in Nat /\ lastWalk <= now /\ HourOf(now) \in Nat
      /\ HourOf(lastWalk) \in Nat
  BY Units, Constants, Quotient DEF TInv, Times, HourOf
<1>2. HourOf(lastWalk) <= HourOf(now)
  BY <1>1, Constants, QuotientGrows DEF HourOf
<1>3. walk # NoWalk /\ HourlyNext =>
          walk.next \in Nat /\ walk.last \in Nat /\ walk.next <= walk.last /\ walk.last < HourOf(now)
  BY DEF TInv, TypeOK, HourlyNext
<1> QED
  BY <1>1, <1>2, <1>3 DEF Frontier

\* Steps that leave the tables, the jobs and the walk alone or begin them anew.
LEMMA OtherPreserves ==
    ASSUME IInv, TInv', recordRequest \/ (\E job \in Jobs : tick(job)) \/ clock \/ crash
                            \/ startScheduler \/ UNCHANGED vars
    PROVE  IInv'
<1>1. DataSame /\ UNCHANGED daily
  BY DEF DataSame, recordRequest, tick, clock, crash, startScheduler, vars, history
<1>2. TInv /\ WalksBeyond /\ Frontier \in Nat /\ Frontier <= HourOf(now)
      /\ HourOf(lastWalk) \in Nat
  BY FrontierBound DEF IInv
<1>3. HourOf(now) \in Nat /\ HourOf(now') \in Nat /\ HourOf(now) <= HourOf(now')
  <2>1. now \in Nat /\ now' \in Nat /\ now <= now'
    BY <1>2, Units
    DEF TInv, recordRequest, tick, clock, crash, startScheduler, vars
  <2> QED
    BY <2>1, Constants, Quotient, QuotientGrows DEF HourOf
<1>4. WalksBeyond' /\ Frontier' \in Nat /\ Frontier' <= Frontier
  <2>1. CASE UNCHANGED <<todo, walk, lastWalk, up>>
    BY <1>1, <1>2, <2>1 DEF WalksBeyond, Frontier, HourlyNext, DataSame
  <2>2. CASE \E job \in Jobs : tick(job)
    <3>1. PICK job \in Jobs : tick(job)
      BY <2>2
    <3>2. walk = NoWalk /\ walk' = NoWalk
      BY <1>2, <3>1 DEF TInv, TypeOK, tick
    <3>3. up /\ up' /\ todo = <<>> /\ lastWalk' = lastWalk
      BY <3>1 DEF tick
    <3> QED
      BY <1>2, <3>2, <3>3 DEF WalksBeyond, Frontier, HourlyNext
  <2>3. CASE crash
    BY <1>2, <2>3 DEF crash, WalksBeyond, Frontier
  <2>4. CASE startScheduler
    <3>1. todo' = <<"hourly", "daily", "sweep">> /\ todo' # <<>>
      BY <2>4 DEF startScheduler, Boot
    <3>2. HourlyNext'
      BY <3>1 DEF HourlyNext
    <3>3. walk' = NoWalk
      BY <1>2, <2>4 DEF startScheduler, TInv, TypeOK, Shape
    <3> QED
      BY <1>2, <3>2, <3>3 DEF WalksBeyond, Frontier
  <2> QED
    BY <2>1, <2>2, <2>3, <2>4 DEF recordRequest, clock, sched, vars
<1>5. Passed'
  BY <1>1, <1>2, <1>4, SamePassed
<1>6. Kept' /\ HoursCounted' /\ DaysFromHours' /\ Closed'
  BY <1>1, <1>3, SameData
<1> QED
  BY <1>4, <1>5, <1>6 DEF IInv

\* Rows come in: those of a closed hour are late, and the current hour is not yet stored.
LEMMA InsertPreserves ==
    ASSUME IInv, TInv', NEW r \in stamped, insertRequest(r)
    PROVE  IInv'
<1>1. TInv /\ WalksBeyond /\ Frontier \in Nat /\ Frontier <= HourOf(now)
  BY FrontierBound DEF IInv
<1>2. UNCHANGED <<now, hourly, daily, todo, walk, lastWalk, up, failed, broken, upTo, dayOver>>
  BY DEF insertRequest, sched
<1>3. /\ made \subseteq made' /\ requests \subseteq requests'
      /\ (made \ late)' \subseteq (made \ late) \cup {r}
  BY DEF insertRequest
<1>4. r.ts \in Nat /\ r.ts <= now /\ now \in Nat
  BY <1>1, HourIsNumber, Units DEF TInv, TypeOK, Times, Row
<1>5. HourOf(r.ts) \in Nat /\ HourOf(now) \in Nat /\ HourOf(r.ts) <= HourOf(now)
  BY <1>4, Constants, Quotient, QuotientGrows DEF HourOf
<1>6. r \in (made \ late)' /\ r \notin made \ late => HourOf(r.ts) = HourOf(now) /\ r \in requests'
  BY <1>5 DEF insertRequest
<1>7. \A h \in Hours : h # HourOf(now) => InTime(h)' \subseteq InTime(h)
  BY <1>3, <1>6 DEF InTime, InHour
<1>8. \A h \in Hours : InTime(h)' \subseteq InTime(h) \cup requests'
  BY <1>3, <1>6 DEF InTime, InHour
<1>9. LastBucket(hourly) \in Nat /\ LastBucket(hourly) < HourOf(now)
  BY <1>1, Tables, HoursPositive DEF IInv, TInv, Closed
<1>10. Kept'
  BY <1>2, <1>3, <1>8 DEF IInv, Kept, Settled
<1>11. Passed'
  <2>1. SUFFICES ASSUME NEW h \in Hours, h < Frontier'
                 PROVE  (Settled(h) \/ InTime(h) = {})'
    BY DEF Passed
  <2>2. h < Frontier /\ h # HourOf(now)
    BY <1>1, <1>2, <1>5, <2>1, HoursPositive DEF Frontier, HourlyNext
  <2>3. Settled(h) \/ InTime(h) = {}
    BY <2>2 DEF IInv, Passed
  <2> QED
    BY <1>2, <1>7, <2>2, <2>3 DEF Settled
<1>12. HoursCounted'
  <2>1. SUFFICES ASSUME NEW h \in Hours
                 PROVE  /\ hourly[h] \subseteq InHour(made', h)
                        /\ h <= LastBucket(hourly) /\ ~failed[h]
                             => InTime(h)' \subseteq hourly[h]
    BY <1>2 DEF HoursCounted, InTime
  <2>2. /\ hourly[h] \subseteq InHour(made, h)
        /\ h <= LastBucket(hourly) /\ ~failed[h] => InTime(h) \subseteq hourly[h]
    BY DEF IInv, HoursCounted, InTime
  <2>3. h <= LastBucket(hourly) => h # HourOf(now)
    BY <1>5, <1>9, HoursPositive
  <2>4. InHour(made, h) \subseteq InHour(made', h)
    BY <1>3 DEF InHour
  <2> QED
    BY <1>7, <2>2, <2>3, <2>4
<1>13. WalksBeyond' /\ Closed'
  BY <1>2 DEF IInv, WalksBeyond, Closed
\* A day that was over then is over now, and the row is of the current hour.
<1>14. ASSUME NEW d \in Days, dayOver[d], NEW h \in HoursOf(d)
       PROVE  h \in Hours /\ h # HourOf(now)
  <2>1. d \in Nat /\ d < DayOf(HourOf(now))
    BY <1>14, ClosedDays
  <2>2. h \in Hours /\ DayOf(h) = d
    BY DEF HoursOf
  <2> QED
    BY <2>1, <2>2
<1>15. DaysFromHours'
  <2>1. SUFFICES ASSUME NEW d \in Days, daily[d] # {}
                 PROVE  /\ daily[d] \subseteq Known(d)
                        /\ ~broken[d] => daily[d] = Known(d)
                        /\ ~broken[d] /\ dayOver[d] =>
                              \A h \in HoursOf(d) : failed[h] \/ InTime(h)' \subseteq daily[d]
    BY <1>2 DEF DaysFromHours, Known
  <2>2. /\ daily[d] \subseteq Known(d)
        /\ ~broken[d] => daily[d] = Known(d)
        /\ ~broken[d] /\ dayOver[d] =>
              \A h \in HoursOf(d) : failed[h] \/ InTime(h) \subseteq daily[d]
    BY <2>1 DEF IInv, DaysFromHours
  <2> QED
    BY <1>7, <1>14, <2>2
<1> QED
  BY <1>10, <1>11, <1>12, <1>13, <1>15 DEF IInv

\* A row that has expired belongs to an hour that the hourly job has had.
LEMMA ExpiredIsPassed ==
    ASSUME TInv, up, NEW t \in Nat, Expired(t)
    PROVE  HourOf(t) < HourOf(lastWalk)
<1>1. /\ now \in Nat /\ lastWalk \in Nat /\ now <= lastWalk + MaxLag
      /\ t + RetentionDays * TicksPerDay < now
  BY Units DEF TInv, Times, Expired
<1>2. MaxLag + TicksPerHour <= RetentionDays * TicksPerDay
  BY StatisticsBounds
<1>3. t + TicksPerHour <= lastWalk
  BY <1>1, <1>2, Constants
<1>4. HourOf(t) \in Nat /\ TicksPerHour * HourOf(t) <= t /\ TicksPerHour * HourOf(t) \in Nat
  BY Constants, Quotient DEF HourOf
<1>5. TicksPerHour * (HourOf(t) + 1) <= lastWalk
  <2>1. TicksPerHour * (HourOf(t) + 1) = TicksPerHour * HourOf(t) + TicksPerHour
    BY <1>4, Constants
  <2> QED
    BY <1>1, <1>3, <1>4, <2>1, Constants
<1>6. HourOf(t) + 1 <= HourOf(lastWalk)
  BY <1>1, <1>4, <1>5, Constants, QuotientAtLeast DEF HourOf
<1> QED
  BY <1>1, <1>4, <1>6, Constants, Quotient DEF HourOf

LEMMA SweepPreserves ==
    ASSUME IInv, TInv', retentionSweep
    PROVE  IInv'
<1>1. TInv /\ WalksBeyond /\ Shape /\ Frontier \in Nat /\ HourOf(lastWalk) \in Nat
  BY FrontierBound DEF IInv, TInv
<1>2. /\ up /\ todo # <<>> /\ Head(todo) = "sweep" /\ todo' = Tail(todo) /\ walk' = NoWalk
      /\ requests' \in {requests, {r \in requests : ~Expired(r.ts)}}
      /\ UNCHANGED <<now, hourly, daily, made, late, failed, broken, upTo, dayOver, lastWalk, up>>
  BY DEF retentionSweep, Doing, Done, history
<1>3. ~HourlyNext /\ ~HourlyNext' /\ Frontier = HourOf(lastWalk) /\ Frontier' = Frontier
  BY <1>1, <1>2, JobsLeft DEF HourlyNext, Frontier
<1>4. Passed'
  BY <1>2, <1>3 DEF IInv, Passed, Settled, InTime
<1>5. Kept'
  <2>1. SUFFICES ASSUME NEW h \in Hours, ~Settled(h), NEW r \in InTime(h)
                 PROVE  r \in requests'
    BY <1>2 DEF Kept, Settled, InTime
  <2>2. r \in requests /\ r.ts \in Nat /\ HourOf(r.ts) = h
    BY <1>1, <2>1, HourIsNumber DEF IInv, Kept, TInv, TypeOK, Row, InTime, InHour
  <2>3. ~(h < HourOf(lastWalk))
    BY <1>3, <2>1 DEF IInv, Passed
  <2> QED
    BY <1>1, <1>2, <2>2, <2>3, ExpiredIsPassed
<1>6. WalksBeyond' /\ HoursCounted' /\ DaysFromHours' /\ Closed'
  BY <1>2, ZenonT(40) DEF IInv, WalksBeyond, HoursCounted, DaysFromHours, Closed, Known, InTime
<1> QED
  BY <1>4, <1>5, <1>6 DEF IInv

\* The hourly catch-up skips no hour that has rows.
LEMMA HourlyCatchupPreserves ==
    ASSUME IInv, TInv', ~SelectMayFail, aggregateHourlyCatchup
    PROVE  IInv'
<1> DEFINE source == {HourOf(r.ts) : r \in requests}
<1>1. TInv /\ TypeOK /\ Shape /\ source \subseteq Hours /\ source \subseteq Nat \ {0}
  BY Sources, HoursPositive DEF IInv, TInv
<1>2. /\ up /\ todo # <<>> /\ Head(todo) = "hourly" /\ walk = NoWalk
      /\ catchup(hourly, source, HourOf(now)) /\ lastWalk' = now
      /\ DataSame /\ now' = now /\ up' = up
  BY DEF aggregateHourlyCatchup, Doing, history, DataSame
<1>3. HourOf(now) \in Nat /\ HourOf(now) >= 1 /\ HourOf(now) - 1 \in Nat
  BY <1>1, Units
<1>4. LastBucket(hourly) \in Nat
  BY <1>1, Tables, HoursPositive
<1>5. IF LastBucket(hourly) = 0
      THEN IF source = {} THEN Done ELSE Continue(Min(source), HourOf(now) - 1)
      ELSE Continue(LastBucket(hourly) + 1, HourOf(now) - 1)
  <2> HIDE DEF source
  <2> QED
    BY <1>1, <1>2, <1>3, <1>4, Begins
<1>6. source # {} => Min(source) \in source /\ \A h \in source : Min(source) <= h
  <2> HIDE DEF source
  <2> QED
    BY <1>1, MinIsLeast
\* An hour with rows that is not settled is beyond the last one stored and has its rows.
<1>7. \A h \in Hours : Settled(h) \/ InTime(h) = {} \/ (h \in source /\ h > LastBucket(hourly))
  <2> TAKE h \in Hours
  <2>1. SUFFICES ASSUME ~Settled(h), NEW r \in InTime(h)
                 PROVE  h \in source /\ h > LastBucket(hourly)
    OBVIOUS
  <2>2. r \in requests /\ HourOf(r.ts) = h
    BY <2>1 DEF IInv, Kept, InTime, InHour
  <2> QED
    BY <1>4, <2>1, <2>2, HoursPositive DEF Settled
<1>8. \/ Done /\ \A h \in Hours : h < HourOf(now) => Settled(h) \/ InTime(h) = {}
      \/ \E first \in Nat :
            /\ Continue(first, HourOf(now) - 1) /\ first > LastBucket(hourly)
            /\ \A h \in Hours : h < first => Settled(h) \/ InTime(h) = {}
  <2>1. CASE LastBucket(hourly) = 0 /\ source = {}
    BY <1>5, <1>7, <2>1
  <2>2. CASE LastBucket(hourly) = 0 /\ source # {}
    <3>1. Min(source) \in Hours /\ Min(source) \in Nat /\ Min(source) > 0
      BY <1>1, <1>6, <2>2, HoursPositive
    <3>2. \A h \in Hours : h < Min(source) => h \notin source
      BY <1>6, <2>2, <3>1, HoursPositive
    <3> HIDE DEF source
    <3> QED
      BY <1>5, <1>7, <2>2, <3>1, <3>2
  <2>3. CASE LastBucket(hourly) # 0
    <3>1. \A h \in Hours : h < LastBucket(hourly) + 1 => ~(h > LastBucket(hourly))
      BY <1>4, HoursPositive
    <3> HIDE DEF source
    <3> QED
      BY <1>4, <1>5, <1>7, <2>3, <3>1
  <2> QED
    BY <2>1, <2>2, <2>3
<1>9. WalksBeyond' /\ Passed'
  <2>1. \A h \in Hours : (Settled(h) \/ InTime(h) = {}) = (Settled(h) \/ InTime(h) = {})'
    BY <1>2 DEF Settled, InTime, DataSame
  <2>2. CASE /\ todo' = Tail(todo) /\ walk' = NoWalk
             /\ \A h \in Hours : h < HourOf(now) => Settled(h) \/ InTime(h) = {}
    <3>1. ~HourlyNext'
      BY <1>1, <1>2, <2>2, JobsLeft DEF HourlyNext
    <3>2. Frontier' = HourOf(now)
      BY <1>2, <3>1 DEF Frontier
    <3> QED
      BY <2>1, <2>2, <3>2 DEF WalksBeyond, Passed
  <2>3. ASSUME NEW first \in Nat, first <= HourOf(now) - 1, first > LastBucket(hourly),
               walk' = [next |-> first, last |-> HourOf(now) - 1], todo' = todo,
               \A h \in Hours : h < first => Settled(h) \/ InTime(h) = {}
        PROVE  WalksBeyond' /\ Passed'
    <3>1. walk' # NoWalk /\ HourlyNext'
      BY <1>2, <2>3 DEF NoWalk, HourlyNext
    <3>2. Frontier' = first
      BY <1>2, <2>3, <3>1 DEF Frontier
    <3>3. WalksBeyond'
      BY <1>2, <1>3, <2>3 DEF WalksBeyond, DataSame
    <3> QED
      BY <2>1, <2>3, <3>2, <3>3 DEF Passed
  <2>4. ASSUME NEW first \in Nat, first > HourOf(now) - 1,
               \A h \in Hours : h < first => Settled(h) \/ InTime(h) = {}
        PROVE  \A h \in Hours : h < HourOf(now) => Settled(h) \/ InTime(h) = {}
    BY <1>3, <2>4, HoursPositive
  <2> QED
    BY <1>3, <1>8, <2>2, <2>3, <2>4 DEF Done, Continue
<1>10. Kept' /\ HoursCounted' /\ DaysFromHours' /\ Closed'
  BY <1>2, <1>3, SameData
<1> QED
  BY <1>9, <1>10 DEF IInv

LEMMA DailyCatchupPreserves ==
    ASSUME IInv, TInv', ~SelectMayFail, aggregateDailyCatchup
    PROVE  IInv'
<1> DEFINE source == {DayOf(h) : h \in Buckets(hourly)}
<1>1. TInv /\ TypeOK /\ Shape /\ source \subseteq Days /\ source \subseteq Nat \ {0} /\ WalksBeyond
      /\ Frontier \in Nat
  BY Sources, DaysPositive, FrontierBound DEF IInv, TInv
<1>2. /\ up /\ todo # <<>> /\ Head(todo) = "daily" /\ walk = NoWalk
      /\ catchup(daily, source, DayOf(HourOf(now))) /\ lastWalk' = lastWalk
      /\ DataSame /\ now' = now /\ up' = up
  BY DEF aggregateDailyCatchup, Doing, history, DataSame
<1>3. /\ DayOf(HourOf(now)) \in Nat /\ DayOf(HourOf(now)) >= 1
      /\ DayOf(HourOf(now)) - 1 \in Nat /\ HourOf(now) \in Nat
  BY <1>1, Units
<1>4. LastBucket(daily) \in Nat
  BY <1>1, Tables, DaysPositive
<1>5. source # {} => Min(source) \in Days
  <2> HIDE DEF source
  <2> QED
    BY <1>1, MinIsLeast
<1>6. Done \/ \E first \in Nat :
                  first > LastBucket(daily) /\ Continue(first, DayOf(HourOf(now)) - 1)
  <2>1. IF LastBucket(daily) = 0
        THEN IF source = {} THEN Done ELSE Continue(Min(source), DayOf(HourOf(now)) - 1)
        ELSE Continue(LastBucket(daily) + 1, DayOf(HourOf(now)) - 1)
    <3> HIDE DEF source
    <3> QED
      BY <1>1, <1>2, <1>3, <1>4, Begins
  <2> HIDE DEF source
  <2> QED
    BY <1>4, <1>5, <2>1, DaysPositive
<1>7. ~HourlyNext /\ ~HourlyNext' /\ WalksBeyond'
  <2>1. CASE todo' = Tail(todo) /\ walk' = NoWalk
    BY <1>1, <1>2, <2>1, JobsLeft DEF HourlyNext, WalksBeyond
  <2>2. ASSUME NEW first \in Nat, first > LastBucket(daily), todo' = todo,
               walk' = [next |-> first, last |-> DayOf(HourOf(now)) - 1]
        PROVE  ~HourlyNext /\ ~HourlyNext' /\ WalksBeyond'
    BY <1>2, <2>2 DEF HourlyNext, WalksBeyond, DataSame
  <2> QED
    BY <1>6, <2>1, <2>2 DEF Done, Continue
<1>8. Frontier' = Frontier
  BY <1>2, <1>7 DEF Frontier
<1>9. Passed'
  BY <1>1, <1>2, <1>8, SamePassed
<1>10. Kept' /\ HoursCounted' /\ DaysFromHours' /\ Closed'
  BY <1>2, <1>3, SameData
<1> QED
  BY <1>7, <1>9, <1>10 DEF IInv

\* The walk goes on: where it is next, and how far the hourly job has come.
LEMMA WalkGoesOn ==
    ASSUME TInv, WalksBeyond, up, walk # NoWalk, todo # <<>>,
           Continue(walk.next + 1, walk.last), up' = up, lastWalk' = lastWalk
    PROVE  /\ walk.next \in Nat /\ Frontier \in Nat /\ Frontier' \in Nat
           /\ walk' # NoWalk => todo' = todo /\ walk' = [walk EXCEPT !.next = @ + 1]
           /\ Head(todo) = "hourly" => Frontier = walk.next /\ Frontier' = walk.next + 1
           /\ Head(todo) # "hourly" => Frontier' = Frontier
<1>1. /\ walk.next \in Nat /\ walk.last \in Nat /\ walk.next <= walk.last
      /\ walk \in [next : Nat, last : Nat] /\ Shape
  BY DEF TInv, TypeOK
<1>2. Frontier \in Nat /\ HourOf(lastWalk) \in Nat
  BY FrontierBound
<1>3. Head(todo) = "hourly" => walk.last + 1 = HourOf(lastWalk) /\ Frontier = walk.next
  BY DEF WalksBeyond, Frontier, HourlyNext
<1>4. CASE walk.next + 1 <= walk.last
  <2>1. todo' = todo /\ walk' = [next |-> walk.next + 1, last |-> walk.last]
    BY <1>1, <1>4 DEF Continue
  <2>2. walk' # NoWalk /\ walk' = [walk EXCEPT !.next = @ + 1] /\ walk'.next = walk.next + 1
    BY <1>1, <1>4, <2>1 DEF NoWalk
  <2> QED
    BY <1>1, <1>2, <1>3, <2>1, <2>2 DEF Frontier, HourlyNext
<1>5. CASE walk.next + 1 > walk.last
  <2>1. todo' = Tail(todo) /\ walk' = NoWalk
    BY <1>1, <1>5 DEF Continue, Done
  <2>2. ~HourlyNext'
    BY <1>1, <2>1, JobsLeft DEF HourlyNext
  <2>3. Frontier' = HourOf(lastWalk)
    BY <2>2 DEF Frontier
  <2>4. ASSUME Head(todo) = "hourly" PROVE Frontier = walk.next /\ Frontier' = walk.next + 1
    BY <1>1, <1>2, <1>3, <1>5, <2>3, <2>4
  <2>5. ASSUME Head(todo) # "hourly" PROVE Frontier' = Frontier
    <3>1. Frontier = HourOf(lastWalk)
      BY <2>5 DEF Frontier, HourlyNext
    <3> QED
      BY <3>1, <2>3
  <2> QED
    BY <1>1, <1>2, <2>1, <2>3, <2>4, <2>5
<1> QED
  BY <1>1, <1>4, <1>5

\* An hour is stored: it has all its rows in time or has failed, and those before it have
\* none left.
LEMMA HourPreserves ==
    ASSUME IInv, TInv', NEW rows \in SUBSET InHour(requests, walk.next), storeHour(rows),
           \/ rows = InHour(requests, walk.next) /\ failed' = failed
           \/ failed' = [failed EXCEPT ![walk.next] = TRUE]
    PROVE  IInv'
<1> DEFINE h == walk.next
           last == LastBucket(hourly)
<1>1. TInv /\ TypeOK /\ WalksBeyond /\ Shape
  BY DEF IInv, TInv
<1>2. /\ up /\ todo # <<>> /\ Head(todo) = "hourly" /\ walk # NoWalk
      /\ Continue(h + 1, walk.last)
      /\ hourly' = IF rows # {} THEN [hourly EXCEPT ![h] = rows] ELSE hourly
      /\ UNCHANGED <<now, requests, daily, made, late, broken, upTo, dayOver, lastWalk, up>>
  BY DEF storeHour, stored, Doing
<1>3. /\ h \in Nat /\ Frontier \in Nat /\ Frontier = h /\ Frontier' = h + 1
      /\ walk' # NoWalk => todo' = todo /\ walk' = [walk EXCEPT !.next = @ + 1]
  BY <1>1, <1>2, WalkGoesOn
<1>4. last \in Nat /\ last < h /\ h < HourOf(now) /\ HourOf(now) \in Nat
  BY <1>1, <1>2, <1>3, Tables, HoursPositive, Units, SMTT(30) DEF WalksBeyond, TypeOK
<1>5. rows # {} => h \in Hours
  BY <1>1, HourIsNumber DEF TypeOK, Row, InHour
<1>6. DOMAIN hourly = Hours /\ DOMAIN hourly' = Hours
  BY <1>1, <1>2 DEF TypeOK
\* The last hour stored.
<1>7. LastBucket(hourly') = IF rows # {} THEN h ELSE last
  BY <1>2, <1>3, <1>4, <1>5, <1>6, HourStored
<1>8. LastBucket(hourly') \in Nat /\ last <= LastBucket(hourly') /\ LastBucket(hourly') <= h
  BY <1>3, <1>4, <1>7
<1>9. \A g \in Hours : g # h => hourly'[g] = hourly[g]
  BY <1>1, <1>2, <1>5 DEF TypeOK
<1>0. /\ \A g \in Hours : failed[g] => failed'[g]
      /\ rows = InHour(requests, h) \/ (h \in Hours => failed'[h])
  BY <1>1 DEF TypeOK
<1>10. \A g \in Hours : Settled(g) => Settled(g)'
  BY <1>0, <1>4, <1>8, HoursPositive DEF Settled
<1>11. \A g \in Hours : InTime(g)' = InTime(g)
  BY <1>2 DEF InTime
<1>12. \A g \in Hours : g < h => Settled(g) \/ InTime(g) = {}
  BY <1>3 DEF IInv, Passed
<1>13. Kept'
  BY <1>2, <1>10, <1>11 DEF IInv, Kept
<1>14. ASSUME NEW g \in Hours, g = h PROVE Settled(g)' \/ InTime(g) = {}
  <2>1. CASE rows = {} /\ rows = InHour(requests, h)
    <3>1. ~Settled(g) => InTime(g) \subseteq rows
      BY <1>14, <2>1 DEF IInv, Kept, InTime, InHour
    <3> QED
      BY <1>10, <2>1, <3>1
  <2>2. CASE rows # {}
    BY <1>3, <1>7, <1>14, <2>2 DEF Settled
  <2> QED
    BY <1>0, <1>14, <2>1, <2>2 DEF Settled
<1>15. Passed'
  <2>1. SUFFICES ASSUME NEW g \in Hours, g < h + 1
                 PROVE  Settled(g)' \/ InTime(g)' = {}
    BY <1>3 DEF Passed
  <2>2. g < h \/ g = h
    BY <1>3, <2>1, HoursPositive
  <2> QED
    BY <1>10, <1>11, <1>12, <1>14, <2>2
<1>16. HoursCounted'
  <2>0. ASSUME NEW g \in Hours
        PROVE  hourly'[g] \subseteq InHour(made, g)
    <3>1. rows \subseteq InHour(made, h)
      BY <1>1 DEF TInv, Times, InHour
    <3> QED
      BY <1>1, <1>2, <3>1 DEF TypeOK, IInv, HoursCounted
  <2>1. SUFFICES ASSUME NEW g \in Hours, g <= LastBucket(hourly'), ~failed'[g]
                 PROVE  InTime(g) \subseteq hourly'[g]
    BY <1>2, <2>0 DEF HoursCounted, InTime
  <2>2. g \in Nat /\ ~failed[g]
    BY <1>0, <2>1, HoursPositive
  <2>3. CASE g <= last
    <3>1. InTime(g) \subseteq hourly[g]
      BY <2>2, <2>3 DEF IInv, HoursCounted, InTime
    <3>2. g # h
      BY <1>3, <1>4, <2>2, <2>3
    <3> QED
      BY <1>9, <3>1, <3>2
  <2>4. CASE last < g /\ g < h
    <3>1. InTime(g) = {}
      BY <1>4, <1>12, <2>2, <2>4 DEF Settled
    <3> QED
      BY <3>1
  <2>5. CASE g = h /\ rows # {}
    <3>1. hourly'[g] = rows
      BY <1>2, <1>6, <2>5
    <3>2. InTime(g) \subseteq rows
      BY <1>0, <1>3, <1>4, <2>1, <2>2, <2>5 DEF IInv, Kept, Settled, InTime, InHour
    <3> QED
      BY <3>1, <3>2
  <2>6. g <= last \/ (last < g /\ g < h) \/ (g = h /\ rows # {})
    <3> HIDE DEF h, last
    <3> QED
      BY <1>3, <1>4, <1>7, <1>8, <2>1, <2>2
  <2> QED
    BY <2>3, <2>4, <2>5, <2>6
<1>17. DaysFromHours'
  <2>1. SUFFICES ASSUME NEW d \in Days, daily[d] # {}
                 PROVE  /\ daily[d] \subseteq Known(d)'
                        /\ ~broken[d] => daily[d] = Known(d)'
                        /\ ~broken[d] /\ dayOver[d] =>
                              \A g \in HoursOf(d) : failed'[g] \/ InTime(g) \subseteq daily[d]
    BY <1>2, <1>11 DEF DaysFromHours, HoursOf
  <2>2. upTo[d] \in Nat /\ upTo[d] <= last
    BY ClosedDays
  <2>3. \A g \in {f \in HoursOf(d) : f <= upTo[d]} : hourly'[g] = hourly[g]
    BY <1>3, <1>4, <1>9, <2>2, HoursPositive DEF HoursOf
  <2>4. Known(d)' = Known(d)
    BY <1>2, <2>3 DEF Known
  <2> QED
    BY <1>0, <2>1, <2>4 DEF IInv, DaysFromHours, HoursOf
<1>18. Closed'
  <2>1. \A d \in Days : upTo[d] \in Nat /\ upTo[d] <= last
    BY ClosedDays
  <2>2. \A d \in Days : upTo[d] <= LastBucket(hourly')
    BY <1>4, <1>8, <2>1
  <2>3. LastBucket(hourly') < HourOf(now)
    BY <1>3, <1>4, <1>8
  <2> QED
    BY <1>2, <2>2, <2>3, ClosedDays DEF Closed
<1>19. WalksBeyond'
  <2>1. SUFFICES ASSUME walk' # NoWalk
                 PROVE  walk'.next > LastBucket(hourly') /\ walk'.last + 1 = HourOf(lastWalk)
    BY <1>2, <1>3 DEF WalksBeyond
  <2>2. walk' = [walk EXCEPT !.next = @ + 1] /\ walk \in [next : Nat, last : Nat]
    BY <1>1, <1>3, <2>1 DEF TypeOK
  <2>3. walk'.next = h + 1 /\ walk'.last = walk.last
    BY <2>2
  <2>4. walk.last + 1 = HourOf(lastWalk)
    BY <1>1, <1>2 DEF WalksBeyond
  <2> QED
    BY <1>3, <1>8, <2>3, <2>4
<1> QED
  BY <1>13, <1>15, <1>16, <1>17, <1>18, <1>19 DEF IInv

\* A day is stored: it is made from the hours stored so far.
LEMMA DayPreserves ==
    ASSUME IInv, TInv', NEW read \in SUBSET Source(walk.next), storeDay(read),
           \/ read = Source(walk.next) /\ broken' = [broken EXCEPT ![walk.next] = FALSE]
           \/ broken' = [broken EXCEPT ![walk.next] = TRUE]
    PROVE  IInv'
<1> DEFINE d == walk.next
           rows == UNION {hourly[h] : h \in read}
           over == d < DayOf(HourOf(lastWalk))
<1>1. TInv /\ TypeOK /\ WalksBeyond /\ Shape
  BY DEF IInv, TInv
<1>2. /\ up /\ todo # <<>> /\ Head(todo) = "daily" /\ walk # NoWalk
      /\ Continue(d + 1, walk.last)
      /\ daily' = IF rows # {} THEN [daily EXCEPT ![d] = rows] ELSE daily
      /\ upTo' = [upTo EXCEPT ![d] = LastBucket(hourly)]
      /\ dayOver' = [dayOver EXCEPT ![d] = over]
      /\ UNCHANGED <<now, requests, hourly, made, late, failed, lastWalk, up>>
  BY DEF storeDay, stored, Doing
<1>3. /\ d \in Nat /\ Frontier' = Frontier
      /\ walk' # NoWalk => todo' = todo /\ walk' = [walk EXCEPT !.next = @ + 1]
  BY <1>1, <1>2, WalkGoesOn
<1>4. Kept' /\ Passed' /\ HoursCounted'
  BY <1>2, <1>3 DEF IInv, Kept, Passed, HoursCounted, Settled, InTime
<1>5. LastBucket(hourly) \in Nat
  BY <1>1, Tables, HoursPositive
<1>6. Closed'
  <2>1. /\ HourOf(lastWalk) \in Nat /\ HourOf(now) \in Nat /\ HourOf(lastWalk) <= HourOf(now)
    BY <1>1, Units, Constants, Quotient, QuotientGrows DEF TInv, Times, HourOf
  <2>2. /\ DayOf(HourOf(lastWalk)) \in Nat /\ DayOf(HourOf(now)) \in Nat
        /\ DayOf(HourOf(lastWalk)) <= DayOf(HourOf(now))
    BY <2>1, Constants, Quotient, QuotientGrows DEF DayOf
  <2>3. over => d < DayOf(HourOf(now))
    BY <1>3, <2>2
  <2>4. SUFFICES ASSUME NEW e \in Days
                 PROVE  upTo'[e] <= LastBucket(hourly) /\ (dayOver'[e] => e < DayOf(HourOf(now)))
    BY <1>2 DEF IInv, Closed
  <2>5. upTo[e] <= LastBucket(hourly) /\ (dayOver[e] => e < DayOf(HourOf(now)))
    BY ClosedDays
  <2> HIDE DEF d, over
  <2> QED
    BY <1>1, <1>2, <1>5, <2>3, <2>5 DEF TypeOK
<1>7. LastBucket(daily) \in Nat /\ LastBucket(daily) < d
  BY <1>1, <1>2, Tables, DaysPositive DEF WalksBeyond
\* The hours of a day that is over for the hourly job are settled or had no rows in time.
<1>8. ASSUME over, NEW h \in HoursOf(d)
      PROVE  failed[h] \/ InTime(h) \subseteq hourly[h]
  <2>1. h \in Hours /\ DayOf(h) = d /\ h \in Nat /\ HourOf(lastWalk) \in Nat
    BY <1>1, HoursPositive, FrontierBound DEF HoursOf
  <2>2. h < HourOf(lastWalk)
    <3>1. HourOf(lastWalk) <= h => DayOf(HourOf(lastWalk)) <= DayOf(h)
      BY <2>1, Constants, QuotientGrows DEF DayOf
    <3>2. DayOf(HourOf(lastWalk)) \in Nat
      BY <2>1, Constants, Quotient DEF DayOf
    <3> QED
      BY <1>3, <1>8, <2>1, <3>1, <3>2
  <2>3. Frontier = HourOf(lastWalk)
    BY <1>2 DEF Frontier, HourlyNext
  <2>4. Settled(h) \/ InTime(h) = {}
    BY <2>1, <2>2, <2>3 DEF IInv, Passed
  <2> QED
    BY <2>1, <2>4 DEF Settled, IInv, HoursCounted
<1>9. DaysFromHours'
  <2>1. SUFFICES ASSUME NEW e \in Days, daily'[e] # {}
                 PROVE  /\ daily'[e] \subseteq Known(e)'
                        /\ ~broken'[e] => daily'[e] = Known(e)'
                        /\ ~broken'[e] /\ dayOver'[e] =>
                              \A h \in HoursOf(e) : failed[h] \/ InTime(h) \subseteq daily'[e]
    BY <1>2 DEF DaysFromHours, InTime
  <2>2. CASE e # d
    <3>1. daily'[e] = daily[e] /\ upTo'[e] = upTo[e] /\ dayOver'[e] = dayOver[e]
      BY <1>1, <1>2, <2>2 DEF TypeOK
    <3>2. broken'[e] = broken[e]
      BY <1>1, <2>2 DEF TypeOK
    <3>3. Known(e)' = Known(e)
      BY <1>2, <3>1 DEF Known
    <3> QED
      BY <2>1, <3>1, <3>2, <3>3 DEF IInv, DaysFromHours
  <2>3. CASE e = d
    <3>1. upTo'[e] = LastBucket(hourly) /\ dayOver'[e] = over
      <4>1. upTo \in [Days -> Hours \cup {0}] /\ dayOver \in [Days -> BOOLEAN]
        BY <1>1 DEF TypeOK
      <4>2. upTo'[e] = LastBucket(hourly)
        BY <1>2, <2>3, <4>1
      <4>3. dayOver'[e] = over
        BY <1>2, <2>3, <4>1, Zenon
      <4> QED
        BY <4>2, <4>3, Zenon
    <3>2. daily[e] = {}
      <4>1. DOMAIN daily = Days
        BY <1>1 DEF TypeOK
      <4>2. daily[e] # {} => e <= LastBucket(daily)
        BY <4>1, DayTable
      <4> HIDE DEF d
      <4> QED
        BY <1>3, <1>7, <2>3, <4>2
    <3>3. daily'[e] = rows
      <4>1. rows # {}
        BY <1>2, <2>1, <3>2
      <4> QED
        BY <1>1, <1>2, <2>3, <4>1 DEF TypeOK
    <3>4. \A h \in HoursOf(e) : hourly[h] # {} => h <= LastBucket(hourly)
      BY <1>1, HourTable DEF TypeOK, HoursOf
    <3>5. Known(e)' = UNION {hourly[h] : h \in HoursOf(e)}
      BY <1>2, <3>1, <3>4 DEF Known
    <3>6. read \subseteq HoursOf(e)
      BY <2>3 DEF Source
    <3>7. ~broken'[e] => read = HoursOf(e)
      BY <1>1, <2>3 DEF TypeOK, Source
    <3> HIDE DEF over
    <3> QED
      BY <1>8, <2>3, <3>1, <3>3, <3>5, <3>6, <3>7
  <2> QED
    BY <2>2, <2>3
<1>10. WalksBeyond'
  <2>1. SUFFICES ASSUME walk' # NoWalk
                 PROVE  walk'.next > LastBucket(daily')
    BY <1>2, <1>3 DEF WalksBeyond
  <2>2. walk' = [walk EXCEPT !.next = @ + 1] /\ walk \in [next : Nat, last : Nat]
    BY <1>1, <1>3, <2>1 DEF TypeOK
  <2>3. walk'.next = d + 1
    BY <2>2
  <2>4. LastBucket(daily') \in Nat /\ LastBucket(daily') <= d
    <3>1. CASE rows = {}
      BY <1>2, <1>3, <1>7, <3>1
    <3>2. CASE rows # {}
      <4>1. d \in Days
        <5>1. PICK h \in Hours : DayOf(h) = d
          BY <3>2 DEF Source, HoursOf
        <5> QED
          BY <5>1, DayIsNumber
      <4>2. LastBucket(daily') = d
        <5>1. DOMAIN daily = Days
          BY <1>1 DEF TypeOK
        <5> HIDE DEF d, rows
        <5> QED
          BY <1>2, <1>7, <3>2, <4>1, <5>1, DayStored
      <4> QED
        BY <1>3, <4>2
    <3> QED
      BY <3>1, <3>2
  <2> QED
    BY <1>3, <2>3, <2>4
<1> QED
  BY <1>4, <1>6, <1>9, <1>10 DEF IInv

LEMMA FailurePreserves ==
    ASSUME IInv, TInv', aggregateFails
    PROVE  IInv'
  BY HourPreserves, DayPreserves DEF aggregateFails

LEMMA WholePreserves ==
    ASSUME IInv, TInv', aggregateHour \/ aggregateDay
    PROVE  IInv'
<1>1. CASE aggregateHour
  BY <1>1, HourPreserves DEF aggregateHour
<1>2. CASE aggregateDay
  BY <1>2, DayPreserves DEF aggregateDay
<1> QED
  BY <1>1, <1>2

-----------------------------------------------------------------------------
(* The properties *)

LEMMA InvInit == Init => IInv
<1> SUFFICES ASSUME Init PROVE IInv
  OBVIOUS
<1>1. TInv /\ TypeOK
  BY TypedInit DEF TInv
<1>2. WalksBeyond /\ Kept
  BY DEF Init, WalksBeyond, Kept, InTime, InHour
<1>3. Passed /\ HoursCounted
  BY DEF Init, Passed, HoursCounted, InTime, InHour
<1>4. DaysFromHours
  BY DEF Init, DaysFromHours
<1>5. LastBucket(hourly) = 0
  BY DEF Init, LastBucket, Buckets, Max
<1>6. Closed
  <2>1. HourOf(now) \in Nat /\ 0 < HourOf(now)
    BY <1>1, Units
  <2>2. \A d \in Days : upTo[d] <= 0 /\ ~dayOver[d]
    BY DEF Init
  <2> QED
    BY <1>5, <2>1, <2>2 DEF Closed
<1> QED
  BY <1>1, <1>2, <1>3, <1>4, <1>6 DEF IInv

LEMMA InvNext == ASSUME ~SelectMayFail, IInv, [Next]_vars PROVE IInv'
<1>1. TInv'
  BY TypedNext DEF IInv
<1> QED
  BY <1>1, OtherPreserves, InsertPreserves, SweepPreserves, HourlyCatchupPreserves,
     DailyCatchupPreserves, WholePreserves, FailurePreserves
  DEF Next, Work

LEMMA Invariance == ASSUME ~SelectMayFail PROVE Spec => []IInv
  BY InvInit, InvNext, PTL DEF Spec

\* As long as the SELECTs a catch-up begins with answer, an hour's aggregate has no row of
\* another hour, and every row that was inserted in time unless an aggregation of the hour
\* failed or was interrupted, across restarts and the retention sweep (scheduler.go:51-69,
\* 135-159, 259-274).
THEOREM HoursAlwaysCounted == ASSUME ~SelectMayFail PROVE Spec => []HoursCounted
<1>1. IInv => HoursCounted
  BY DEF IInv
<1> QED
  BY <1>1, Invariance, PTL

\* So no two hours share a row: what a day counts, the union of its hours, is in number
\* the sum of their numbers, which is what the code stores (scheduler.go:174-190).
THEOREM HoursShareNoRow ==
    ASSUME ~SelectMayFail
    PROVE  Spec => [](\A g \in Hours : \A h \in Hours : g # h => hourly[g] \cap hourly[h] = {})
<1>1. IInv => \A g \in Hours : \A h \in Hours : g # h => hourly[g] \cap hourly[h] = {}
  BY DEF IInv, HoursCounted, InHour
<1> QED
  BY <1>1, Invariance, PTL

\* Under the same condition a day whose aggregation was not interrupted has the rows of all
\* its hours stored when it was made, which have not changed since; and all its rows in
\* time, but for hours that failed, if the hourly job had begun after the day by then
\* (scheduler.go:71-88, 121-126, 167-196).
THEOREM DaysAlwaysFromHours == ASSUME ~SelectMayFail PROVE Spec => []DaysFromHours
<1>1. IInv => DaysFromHours
  BY DEF IInv
<1> QED
  BY <1>1, Invariance, PTL

\* Under the same condition no stored aggregate is ever changed (db.go:58, 75).
THEOREM AggregatesStayFinal == ASSUME ~SelectMayFail PROVE Spec => AggregatesFinal
<1> DEFINE Final == /\ \A h \in Hours : hourly[h] # {} => hourly'[h] = hourly[h]
                    /\ \A d \in Days : daily[d] # {} => daily'[d] = daily[d]
<1>1. ASSUME IInv, [Next]_vars PROVE [Final]_<<hourly, daily>>
  <2>1. TypeOK /\ WalksBeyond
    BY <1>1 DEF IInv, TInv
  <2>2. LastBucket(hourly) \in Nat /\ LastBucket(daily) \in Nat
    BY <2>1, Tables, HoursPositive, DaysPositive
  <2>3. ASSUME NEW read \in SUBSET InHour(requests, walk.next), storeHour(read)
        PROVE  Final
    <3>1. walk.next > LastBucket(hourly) /\ walk.next \in Nat /\ daily' = daily
      BY <2>1, <2>3 DEF storeHour, Doing, WalksBeyond, TypeOK
    <3>2. \A h \in Hours : hourly[h] # {} => h <= LastBucket(hourly)
      <4>1. DOMAIN hourly = Hours
        BY <2>1 DEF TypeOK
      <4> QED
        BY <4>1, HourTable
    <3>3. \A h \in Hours : hourly[h] # {} => h # walk.next
      BY <2>2, <3>1, <3>2, HoursPositive
    <3> QED
      BY <2>1, <2>3, <3>1, <3>3 DEF storeHour, stored, TypeOK
  <2>4. ASSUME NEW read \in SUBSET Source(walk.next), storeDay(read)
        PROVE  Final
    <3>1. walk.next > LastBucket(daily) /\ walk.next \in Nat /\ hourly' = hourly
      BY <2>1, <2>4 DEF storeDay, Doing, WalksBeyond, TypeOK
    <3>2. \A d \in Days : daily[d] # {} => d <= LastBucket(daily)
      <4>1. DOMAIN daily = Days
        BY <2>1 DEF TypeOK
      <4> QED
        BY <4>1, DayTable
    <3>3. \A d \in Days : daily[d] # {} => d # walk.next
      BY <2>2, <3>1, <3>2, DaysPositive
    <3> QED
      BY <2>1, <2>4, <3>1, <3>3 DEF storeDay, stored, TypeOK
  <2>5. HourStep \/ DayStep \/ UNCHANGED <<hourly, daily>>
    BY <1>1, WalkSteps DEF Next, Work, vars, recordRequest, insertRequest,
       aggregateHourlyCatchup, aggregateDailyCatchup, retentionSweep, tick, clock, crash,
       startScheduler
  <2> HIDE DEF Final
  <2> QED
    BY <2>3, <2>4, <2>5 DEF HourStep, DayStep
<1> QED
  BY <1>1, Invariance, PTL DEF Spec, AggregatesFinal

-----------------------------------------------------------------------------
(* Percentiles *)

\* A sample of latencies.
Sample(s, n) == n \in Nat \ {0} /\ s \in [1..n -> Nat]

\* How many precede a latency, and that no two are preceded by equally many: of two, one
\* precedes the other, with all that precede it.
LEMMA PrecedingIs ==
    ASSUME NEW n, NEW s, Sample(s, n), NEW i \in 1..n
    PROVE  /\ IsFiniteSet(Preceding(s, i)) /\ Cardinality(Preceding(s, i)) \in 0..n-1
           /\ \A j \in 1..n : j # i => Cardinality(Preceding(s, j)) # Cardinality(Preceding(s, i))
<1>1. DOMAIN s = 1..n /\ IsFiniteSet(1..n) /\ Cardinality(1..n) = n /\ n \in Nat \ {0}
  BY FS_Interval DEF Sample
<1>2. \A j \in 1..n : s[j] \in Nat
  BY DEF Sample
<1>3. ASSUME NEW j \in 1..n
      PROVE  /\ IsFiniteSet(Preceding(s, j)) /\ Preceding(s, j) \subseteq 1..n
             /\ Cardinality(Preceding(s, j)) \in Nat /\ j \notin Preceding(s, j)
  <2>1. Preceding(s, j) \subseteq 1..n /\ j \notin Preceding(s, j)
    BY <1>1, <1>2 DEF Preceding
  <2> QED
    BY <2>1, <1>1, FS_Subset, FS_CardinalityType
<1>4. ASSUME NEW j \in 1..n, NEW h \in Preceding(s, j)
      PROVE  Cardinality(Preceding(s, h)) < Cardinality(Preceding(s, j))
  <2>1. h \in 1..n /\ Preceding(s, h) \subseteq Preceding(s, j) /\ h \notin Preceding(s, h)
    BY <1>1, <1>2 DEF Preceding
  <2>2. Cardinality(Preceding(s, h)) <= Cardinality(Preceding(s, j))
        /\ Cardinality(Preceding(s, h)) # Cardinality(Preceding(s, j))
    BY <2>1, <1>3, FS_Subset
  <2> QED
    BY <2>1, <2>2, <1>3
<1>5. Cardinality(Preceding(s, i)) < n
  <2>1. Cardinality(Preceding(s, i)) <= n /\ Cardinality(Preceding(s, i)) # n
    BY <1>1, <1>3, FS_Subset
  <2> QED
    BY <2>1, <1>1, <1>3
<1>6. ASSUME NEW j \in 1..n, j # i
      PROVE  Cardinality(Preceding(s, j)) # Cardinality(Preceding(s, i))
  <2>1. i \in Preceding(s, j) \/ j \in Preceding(s, i)
    BY <1>1, <1>2, <1>6 DEF Preceding
  <2> QED
    BY <2>1, <1>3, <1>4
<1> QED
  BY <1>1, <1>3, <1>5, <1>6

\* There is a k-th latency: otherwise n of them would have one of n - 1 places each, and
\* two the same.
LEMMA InOrderIs ==
    ASSUME NEW n, NEW s, Sample(s, n), NEW k \in 1..n
    PROVE  \E i \in 1..n : InOrder(s, k) = s[i] /\ Cardinality(Preceding(s, i)) = k - 1
<1>1. DOMAIN s = 1..n /\ n \in Nat \ {0}
  BY DEF Sample
<1> DEFINE Places == (0..n-1) \ {k - 1}
           f == [i \in 1..n |-> Cardinality(Preceding(s, i))]
<1>2. \E i \in 1..n : Cardinality(Preceding(s, i)) = k - 1
  <2>1. SUFFICES ASSUME \A i \in 1..n : Cardinality(Preceding(s, i)) # k - 1
                 PROVE  FALSE
    OBVIOUS
  <2>2. f \in [1..n -> Places]
    BY <2>1, PrecedingIs
  <2>3. IsFiniteSet(Places) /\ Cardinality(Places) < n
    <3>1. IsFiniteSet(0..n-1) /\ Cardinality(0..n-1) = n
      BY <1>1, FS_Interval
    <3>2. k - 1 \in 0..n-1
      BY <1>1
    <3>3. IsFiniteSet((0..n-1) \ {k - 1}) /\ Cardinality((0..n-1) \ {k - 1}) = n - 1
      BY <3>1, <3>2, FS_RemoveElement
    <3> QED
      BY <1>1, <3>3
  <2>4. IsFiniteSet(1..n) /\ Cardinality(1..n) = n
    BY <1>1, FS_Interval
  <2>5. PICK i, j \in 1..n : i # j /\ f[i] = f[j]
    <3> HIDE DEF f, Places
    <3> QED
      BY <2>2, <2>3, <2>4, FS_PigeonHole
  <2> QED
    BY <2>5, PrecedingIs
<1> QED
  BY <1>1, <1>2 DEF InOrder

\* The share of a sample at or below a percentile, and below it.
Right(s, q) ==
    /\ Cardinality({i \in DOMAIN s : s[i] <= percentile(s, q)}) * 100 >= q * Len(s)
    /\ Cardinality({i \in DOMAIN s : s[i] < percentile(s, q)}) * 100 <= q * Len(s)

\* The q-th percentile of a sample of any length has at least that share of it at or
\* below and at most that share below, ties included (scheduler.go:243-256).
THEOREM PercentileOfAnySample ==
    ASSUME NEW n, NEW s, Sample(s, n), NEW q \in {50, 95}
    PROVE  Right(s, q)
<1> DEFINE k == (n * q) \div 100
           v == percentile(s, q)
           below == {i \in 1..n : s[i] < v}
           upto == {i \in 1..n : s[i] <= v}
<1>1. /\ DOMAIN s = 1..n /\ Len(s) = n /\ n \in Nat \ {0}
      /\ \A i \in 1..n : s[i] \in Nat
  BY DEF Sample
<1>2. k \in Nat /\ k + 1 \in 1..n /\ 100 * k <= q * n /\ q * n <= 100 * k + 100 /\ q * n \in Nat
  BY <1>1, q = 50 \/ q = 95
<1>3. PICK i \in 1..n : v = s[i] /\ Cardinality(Preceding(s, i)) = k
  <2>1. v = InOrder(s, k + 1)
    BY <1>1 DEF percentile
  <2> HIDE DEF k, v
  <2> QED
    BY <2>1, <1>2, InOrderIs
<1> HIDE DEF k, v
<1>4. /\ IsFiniteSet(Preceding(s, i))
      /\ IsFiniteSet(below) /\ Cardinality(below) \in Nat
      /\ IsFiniteSet(upto) /\ Cardinality(upto) \in Nat
  <2>1. IsFiniteSet(1..n)
    BY <1>1, FS_Interval
  <2>2. IsFiniteSet(below) /\ IsFiniteSet(upto)
    BY <2>1, FS_Subset
  <2> HIDE DEF below, upto
  <2> QED
    BY <2>2, PrecedingIs, FS_CardinalityType
<1>5. Cardinality(below) <= k
  <2>1. below \subseteq Preceding(s, i)
    BY <1>1, <1>3 DEF Preceding
  <2> HIDE DEF below
  <2> QED
    BY <2>1, <1>3, <1>4, FS_Subset
<1>6. Cardinality(upto) >= k + 1
  <2>1. Preceding(s, i) \cup {i} \subseteq upto /\ i \notin Preceding(s, i)
    BY <1>1, <1>3 DEF Preceding
  <2> HIDE DEF upto
  <2>2. Cardinality(Preceding(s, i) \cup {i}) = k + 1
    BY <2>1, <1>3, <1>4, FS_AddElement
  <2> QED
    BY <2>1, <2>2, <1>4, FS_Subset
<1>7. Cardinality(upto) * 100 >= q * n /\ Cardinality(below) * 100 <= q * n
  <2> HIDE DEF upto, below
  <2> QED
    BY <1>2, <1>4, <1>5, <1>6
<1> QED
  BY <1>1, <1>7 DEF v, Right

\* So the samples TLC looks at have their percentiles, p50 and p95 (scheduler.go:243-256).
THEOREM PercentilesAlwaysRight == Spec => []PercentilesRight
<1>1. ASSUME NEW s \in Samples
      PROVE  \E n : Sample(s, n)
  <2>1. CASE \E n \in 1..4 : s \in [1..n -> 1..3]
    BY <2>1 DEF Sample
  <2>2. CASE \E n \in 5..45 : s = [i \in 1..n |-> n - i]
    <3>1. PICK n \in 5..45 : s = [i \in 1..n |-> n - i]
      BY <2>2
    <3>2. s \in [1..n -> Nat]
      BY <3>1
    <3> QED
      BY <3>1, <3>2 DEF Sample
  <2> QED
    BY <2>1, <2>2 DEF Samples
<1>2. ASSUME NEW s \in Samples, NEW q \in {50, 95}
      PROVE  Right(s, q)
  <2>1. PICK n : Sample(s, n)
    BY <1>1
  <2> QED
    BY <2>1, PercentileOfAnySample
<1>3. PercentilesRight
  BY <1>2 DEF PercentilesRight, Right
<1> QED
  BY <1>3, PTL
=============================================================================
