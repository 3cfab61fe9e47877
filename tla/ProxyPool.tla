----------------------------- MODULE ProxyPool -----------------------------
(***************************************************************************)
(* The proxy pool of src/internal/app/proxy.go: the table `proxies` and the *)
(* copy of it, proxyCache, that every request is served from.               *)
(*                                                                          *)
(* Three kinds of goroutine touch the two copies.  A request that used a    *)
(* proxy reports the result with recordProxyResult: the row first, then,    *)
(* under proxyMu, the cached entry.  A handler of the panel changes the     *)
(* table and then calls loadProxies.  The scheduler calls loadProxies every *)
(* minute.  loadProxies reads the whole table (one SELECT, one snapshot)    *)
(* and only afterwards takes proxyMu and replaces the cache, so everything  *)
(* above may happen between its two halves.  Each SQL statement is atomic.  *)
(*                                                                          *)
(* Of a row the module keeps what tells behaviours apart: whether it is     *)
(* enabled and its fail_count.  last_used only matters through the breaker's *)
(* cooldown, which may have passed at any time.                             *)
(***************************************************************************)
EXTENDS Naturals, FiniteSets

CONSTANTS
    Proxies,       \* the ids the BIGSERIAL column may hand out
    Seeded,        \* the rows that exist when the process starts
    Requests,      \* request goroutines
    Admins,        \* panel handlers
    Reloader,      \* the scheduler goroutine
    NoProxy,       \* "no row" in a table, "no proxy" for a goroutine
    Threshold,     \* proxyFailThreshold
    MaxFails,      \* bound on the failed requests of a proxy
    MaxAdminOps,   \* bound on the panel operations of a behaviour
    DbMayFail      \* whether a statement of recordProxyResult may fail

ASSUME ThreadsDisjoint ==
    /\ Requests \cap Admins = {}
    /\ Reloader \notin Requests \cup Admins
ASSUME NoProxyIsNoProxy == NoProxy \notin Proxies
ASSUME NoProxyIsNoRow == NoProxy \notin [enabled : BOOLEAN, fails : Nat]
ASSUME SeededAreProxies == Seeded \subseteq Proxies
ASSUME BoundsAreNat ==
    Threshold \in Nat \ {0} /\ MaxFails \in Nat /\ MaxAdminOps \in Nat
ASSUME DbMayFailIsBoolean == DbMayFail \in BOOLEAN

Loaders == Admins \cup {Reloader}
Threads == Requests \cup Loaders

VARIABLES
    table,    \* the rows of the proxies table
    cache,    \* proxyCache
    pc,       \* where each goroutine is
    target,   \* the proxy a goroutine is working on
    success,  \* the result a request is recording
    snapshot, \* the rows a loadProxies has read and not yet stored
    created,  \* every id ever inserted (ids are not reused)
    adminOps, \* how many panel operations have started
    failures  \* history: how many failed requests each proxy has really had

vars == <<table, cache, pc, target, success, snapshot, created, adminOps, failures>>

Row == [enabled : BOOLEAN, fails : Nat]
Rows == [Proxies -> Row \cup {NoProxy}]
Stage == {"idle", "using", "recorded", "toggling", "load", "store"}

TypeOK ==
    /\ table \in Rows
    /\ cache \in Rows
    /\ pc \in [Threads -> Stage]
    /\ target \in [Threads -> Proxies \cup {NoProxy}]
    /\ success \in [Threads -> BOOLEAN]
    /\ snapshot \in [Loaders -> Rows]
    /\ created \in SUBSET Proxies
    /\ adminOps \in Nat
    /\ failures \in [Proxies -> Nat]

Fresh == [enabled |-> TRUE, fails |-> 0]
Empty == [p \in Proxies |-> NoProxy]

\* app.Run loads the pool once before it serves (app.go:98-101).
Init ==
    /\ table = [p \in Proxies |-> IF p \in Seeded THEN Fresh ELSE NoProxy]
    /\ cache = table
    /\ pc = [t \in Threads |-> "idle"]
    /\ target = [t \in Threads |-> NoProxy]
    /\ success = [t \in Threads |-> FALSE]
    /\ snapshot = [t \in Loaders |-> Empty]
    /\ created = Seeded
    /\ adminOps = 0
    /\ failures = [p \in Proxies |-> 0]

Cached == {p \in Proxies : cache[p] # NoProxy}
Stored == {p \in Proxies : table[p] # NoProxy}
Deleted == created \ Stored   \* ids are not reused

Goto(t, from, to) ==
    /\ pc[t] = from
    /\ pc' = [pc EXCEPT ![t] = to]

-----------------------------------------------------------------------------
(* Requests *)

\* pickProxyPreferring returns some enabled entry of the cache: an entry whose
\* breaker is open may have cooled down (proxyUsable).
Pick(t, p) ==
    /\ Goto(t, "idle", "using")
    /\ p \in Cached /\ cache[p].enabled
    /\ target' = [target EXCEPT ![t] = p]
    /\ UNCHANGED <<table, cache, success, snapshot, created, adminOps, failures>>

\* What a result does to fail_count, in the row and in the cached entry alike.
Outcome(row, ok) == [row EXCEPT !.fails = IF ok THEN 0 ELSE @ + 1]

\* First half of recordProxyResult: the UPDATE.  Its error is ignored, and it
\* matches no row when the proxy has been deleted meanwhile.
RecordInTable(t, ok) ==
    LET p == target[t] IN
    /\ Goto(t, "using", "recorded")
    /\ ~ok => failures[p] < MaxFails
    /\ success' = [success EXCEPT ![t] = ok]
    /\ failures' = [q \in Proxies |-> IF q = p /\ ~ok THEN failures[q] + 1 ELSE failures[q]]
    /\ \/ /\ p \in Stored
          /\ table' = [table EXCEPT ![p] = Outcome(@, ok)]
       \/ /\ p \notin Stored \/ DbMayFail
          /\ UNCHANGED table
    /\ UNCHANGED <<cache, target, snapshot, created, adminOps>>

\* Second half: the same change to the cached entry, if it is still there.
RecordInCache(t) ==
    LET p == target[t] IN
    /\ Goto(t, "recorded", "idle")
    /\ cache' = IF p \in Cached THEN [cache EXCEPT ![p] = Outcome(@, success[t])]
                                ELSE cache
    /\ target' = [target EXCEPT ![t] = NoProxy]
    /\ success' = [success EXCEPT ![t] = FALSE]
    /\ UNCHANGED <<table, snapshot, created, adminOps, failures>>

-----------------------------------------------------------------------------
(* loadProxies *)

\* The SELECT: one snapshot of the table.
LoadQuery(t) ==
    /\ Goto(t, "load", "store")
    /\ snapshot' = [snapshot EXCEPT ![t] = table]
    /\ UNCHANGED <<table, cache, target, success, created, adminOps, failures>>

\* Mutant: what was read before the error, here nothing, replaces the pool.
LoadFailsShort(t) ==
    /\ Goto(t, "load", "idle")
    /\ cache' = Empty
    /\ UNCHANGED <<table, target, success, snapshot, created, adminOps, failures>>

\* The query, a row's Scan or rows.Err() fails: the previous pool is kept.
LoadFails(t) ==
    /\ Goto(t, "load", "idle")
    /\ UNCHANGED <<table, cache, target, success, snapshot, created, adminOps, failures>>

\* Mutants: entries that are gone are kept; the cached counts are kept.
LoadStoreMerges(t) ==
    /\ Goto(t, "store", "idle")
    /\ cache' = [p \in Proxies |-> IF snapshot[t][p] = NoProxy THEN cache[p] ELSE snapshot[t][p]]
    /\ snapshot' = [snapshot EXCEPT ![t] = Empty]
    /\ UNCHANGED <<table, target, success, created, adminOps, failures>>

LoadStoreKeepsCounts(t) ==
    /\ Goto(t, "store", "idle")
    /\ cache' = [p \in Proxies |->
                   IF p \in Cached /\ snapshot[t][p] # NoProxy
                   THEN [snapshot[t][p] EXCEPT !.fails = cache[p].fails]
                   ELSE snapshot[t][p]]
    /\ snapshot' = [snapshot EXCEPT ![t] = Empty]
    /\ UNCHANGED <<table, target, success, created, adminOps, failures>>

\* The list has been read to its end: it replaces the cache.
LoadStore(t) ==
    /\ Goto(t, "store", "idle")
    /\ cache' = snapshot[t]
    /\ snapshot' = [snapshot EXCEPT ![t] = Empty]
    /\ UNCHANGED <<table, target, success, created, adminOps, failures>>

-----------------------------------------------------------------------------
(* The panel; every successful change is followed by loadProxies *)

\* A handler starts: it is counted against the bound.
Begin(t, to) ==
    /\ t \in Admins
    /\ Goto(t, "idle", to)
    /\ adminOps < MaxAdminOps
    /\ adminOps' = adminOps + 1

proxyCreate(t, p) ==
    /\ Begin(t, "load")
    /\ p \in Proxies \ created
    /\ created' = created \cup {p}
    /\ table' = [table EXCEPT ![p] = Fresh]
    /\ UNCHANGED <<cache, target, success, snapshot, failures>>

proxyDelete(t, p) ==
    /\ Begin(t, "load")
    /\ table' = [table EXCEPT ![p] = NoProxy]
    /\ UNCHANGED <<cache, target, success, snapshot, created, failures>>

proxyResetFailures(t, p) ==
    /\ Begin(t, "load")
    /\ p \in Stored
    /\ table' = [table EXCEPT ![p].fails = 0]
    /\ UNCHANGED <<cache, target, success, snapshot, created, failures>>

\* POST .../toggle first reads the flag in the cache (admin.go:427-434) ...
ToggleRead(t, p) ==
    /\ Begin(t, "toggling")
    /\ target' = [target EXCEPT ![t] = p]
    /\ success' = [success EXCEPT ![t] = ~(p \in Cached /\ cache[p].enabled)]
    /\ UNCHANGED <<table, cache, snapshot, created, failures>>

\* ... and then writes its opposite with proxyUpdate.
proxyUpdate(t) ==
    LET p == target[t] IN
    /\ Goto(t, "toggling", "load")
    /\ table' = IF p \in Stored THEN [table EXCEPT ![p].enabled = success[t]] ELSE table
    /\ target' = [target EXCEPT ![t] = NoProxy]
    /\ success' = [success EXCEPT ![t] = FALSE]
    /\ UNCHANGED <<cache, snapshot, created, adminOps, failures>>

-----------------------------------------------------------------------------

\* The scheduler's minute ticker fires.
ReloadTick ==
    /\ Goto(Reloader, "idle", "load")
    /\ UNCHANGED <<table, cache, target, success, snapshot, created, adminOps, failures>>

RequestStep(t) ==
    \/ \E p \in Proxies : Pick(t, p)
    \/ \E ok \in BOOLEAN : RecordInTable(t, ok)
    \/ RecordInCache(t)

AdminStep(t) ==
    \/ \E p \in Proxies :
         \/ proxyCreate(t, p)
         \/ proxyDelete(t, p)
         \/ proxyResetFailures(t, p)
         \/ ToggleRead(t, p)
    \/ proxyUpdate(t)

LoadStep(t) == LoadQuery(t) \/ LoadFails(t) \/ LoadStore(t)

Next ==
    \/ \E t \in Requests : RequestStep(t)
    \/ \E t \in Admins : AdminStep(t)
    \/ \E t \in Loaders : LoadStep(t)
    \/ ReloadTick

Spec == Init /\ [][Next]_vars

\* Goroutines are scheduled, the ticker keeps firing, and the database answers
\* the scheduler's SELECT again and again (an outage may make any one of them
\* fail, not all of them for ever).  Nothing makes the panel or the clients act.
Fairness ==
    /\ WF_vars(ReloadTick)
    /\ SF_vars(LoadQuery(Reloader))
    /\ \A t \in Loaders : WF_vars(LoadStore(t)) /\ WF_vars(LoadStep(t))
    /\ \A t \in Admins : WF_vars(proxyUpdate(t))
    /\ \A t \in Requests : WF_vars(RecordInCache(t))

FairSpec == Spec /\ Fairness

-----------------------------------------------------------------------------
(* Properties *)

\* A proxy that has been in the table since the process started never drops out
\* of the pool, whatever reloads fail, are late or overtake each other.  This is
\* what loadProxies' keep-the-old-pool rule is for (proxy.go:32-40): with an empty
\* pool acquireSlot would send requests from the host's own address.
ResidentsStayCached == \A p \in Seeded \ Deleted : p \in Cached

ShapesAgree ==
    /\ Cached = Stored
    /\ \A p \in Stored : cache[p].enabled = table[p].enabled

\* After the panel's last operation the pool comes to have the table's proxies,
\* enabled as in the table, and stays so: a stale reload may undo an operation,
\* but the minute reload repairs it (scheduler.go:40-41).
PanelIdle == \A t \in Admins : pc[t] = "idle"
PoolConverges == <>[]PanelIdle => <>[]ShapesAgree

\* When the requests stop too, the counts agree in the end: drift is transient.
DriftHeals ==
    (<>[]PanelIdle /\ <>[](\A t \in Requests : pc[t] = "idle")) => <>[](cache = table)
=============================================================================
