--------------------------- MODULE Caches_proofs ---------------------------
(***************************************************************************)
(* Theorems about what the process caches for all its requests: the pool of *)
(* proxies (ProxyPool), for every set of proxies, requests and panel        *)
(* handlers, every threshold and with failing statements, and the build     *)
(* label (BuildLabel), for any goroutines and any number of labels and      *)
(* expiries.                                                                *)
(***************************************************************************)
EXTENDS ProxyPool, BuildLabel, FiniteSetTheorems, TLAPS

-----------------------------------------------------------------------------
(* The proxies *)


\* A list that loadProxies has read and not yet stored has every resident that
\* is still in the table: nothing that was there at boot is ever inserted again,
\* so the only way out of the table is a deletion.
ResidentsInSnapshots ==
    \A t \in Loaders : pc[t] = "store" =>
        \A p \in Seeded \cap Stored : snapshot[t][p] # NoProxy

IInv ==
    /\ TypeOK
    /\ Seeded \subseteq created
    /\ ResidentsInSnapshots
    /\ ResidentsStayCached

-----------------------------------------------------------------------------
(* Lemmas *)

\* A result changes a row's count and leaves it a row.
LEMMA OutcomeIsRow ==
    ASSUME NEW row \in Row, NEW ok \in BOOLEAN
    PROVE  Outcome(row, ok) \in Row /\ Outcome(row, ok) # NoProxy
  BY NoProxyIsNoRow DEF Outcome, Row

\* Entries that exist are rows.
LEMMA EntriesAreRows ==
    ASSUME TypeOK, NEW p \in Proxies
    PROVE  /\ p \in Stored => table[p] \in Row
           /\ p \in Cached => cache[p] \in Row
  BY DEF TypeOK, Rows, Stored, Cached

\* For a seeded proxy, "not deleted" and "in the table" are the same.
LEMMA ResidentsAreStored ==
    ASSUME Seeded \subseteq created
    PROVE  Seeded \ Deleted = Seeded \cap Stored
  BY DEF Deleted

-----------------------------------------------------------------------------
(* Type correctness is inductive on its own *)

LEMMA InitTyped == Init => TypeOK
<1> SUFFICES ASSUME Init PROVE TypeOK
  OBVIOUS
<1>1. Empty \in Rows /\ table \in Rows
  BY DEF Init, Empty, Rows, Fresh, Row
<1>2. QED
  BY <1>1, SeededAreProxies, BoundsAreNat DEF Init, TypeOK, Stage

LEMMA RequestStepTyped ==
    ASSUME TypeOK, NEW t \in Requests, RequestStep(t)
    PROVE  TypeOK'
<1>1. ASSUME NEW p \in Proxies, Pick(t, p) PROVE TypeOK'
  BY <1>1 DEF Pick, Goto, TypeOK, Stage, Threads
<1>2. ASSUME NEW ok \in BOOLEAN, RecordInTable(t, ok) PROVE TypeOK'
  <2>1. table' \in Rows
    BY <1>2, EntriesAreRows, OutcomeIsRow DEF RecordInTable, TypeOK, Rows, Stored
  <2>2. failures' \in [Proxies -> Nat]
    BY <1>2 DEF RecordInTable, TypeOK
  <2>3. pc' \in [Threads -> Stage] /\ success' \in [Threads -> BOOLEAN]
    BY <1>2 DEF RecordInTable, Goto, TypeOK, Stage
  <2> QED
    BY <1>2, <2>1, <2>2, <2>3 DEF RecordInTable, TypeOK
<1>3. ASSUME RecordInCache(t) PROVE TypeOK'
  <2>1. success[t] \in BOOLEAN
    BY DEF TypeOK, Threads
  <2>2. cache' \in Rows
    BY <1>3, <2>1, EntriesAreRows, OutcomeIsRow DEF RecordInCache, TypeOK, Rows, Cached
  <2> QED
    BY <1>3, <2>2 DEF RecordInCache, Goto, TypeOK, Stage
<1> QED
  BY <1>1, <1>2, <1>3 DEF RequestStep

LEMMA LoadStepTyped ==
    ASSUME TypeOK, NEW t \in Loaders, LoadStep(t)
    PROVE  TypeOK'
<1>1. Empty \in Rows
  BY DEF Empty, Rows
<1>2. CASE LoadQuery(t)
  BY <1>2 DEF LoadQuery, Goto, TypeOK, Stage
<1>3. CASE LoadFails(t)
  BY <1>3 DEF LoadFails, Goto, TypeOK, Stage
<1>4. CASE LoadStore(t)
  BY <1>1, <1>4 DEF LoadStore, Goto, TypeOK, Stage
<1> QED
  BY <1>2, <1>3, <1>4 DEF LoadStep

LEMMA AdminStepTyped ==
    ASSUME TypeOK, NEW t \in Admins, AdminStep(t)
    PROVE  TypeOK'
<1>0. Fresh \in Row /\ t \in Threads
  BY DEF Fresh, Row, Threads, Loaders
<1>1. ASSUME NEW to \in Stage, Begin(t, to)
      PROVE  pc' \in [Threads -> Stage] /\ adminOps' \in Nat
  <2>1. pc' \in [Threads -> Stage]
    BY <1>1 DEF Begin, Goto, TypeOK
  <2>2. adminOps \in Nat /\ adminOps' = adminOps + 1
    BY <1>1 DEF Begin, TypeOK
  <2> QED
    BY <2>1, <2>2
<1>2. ASSUME NEW p \in Proxies, proxyCreate(t, p) PROVE TypeOK'
  <2>1. table' \in Rows
    BY <1>0, <1>2 DEF proxyCreate, TypeOK, Rows
  <2> QED
    BY <1>1, <1>2, <2>1 DEF proxyCreate, TypeOK, Stage
<1>3. ASSUME NEW p \in Proxies, proxyDelete(t, p) PROVE TypeOK'
  <2>1. table' \in Rows
    BY <1>3 DEF proxyDelete, TypeOK, Rows
  <2> QED
    BY <1>1, <1>3, <2>1 DEF proxyDelete, TypeOK, Stage
<1>4. ASSUME NEW p \in Proxies, proxyResetFailures(t, p) PROVE TypeOK'
  <2>1. table[p] \in Row
    BY <1>4, EntriesAreRows DEF proxyResetFailures
  <2>2. table' \in Rows
    BY <1>4, <2>1 DEF proxyResetFailures, TypeOK, Rows, Row
  <2> QED
    BY <1>1, <1>4, <2>2 DEF proxyResetFailures, TypeOK, Stage
<1>5. ASSUME NEW p \in Proxies, ToggleRead(t, p) PROVE TypeOK'
  BY <1>1, <1>5 DEF ToggleRead, TypeOK, Stage
<1>6. ASSUME proxyUpdate(t) PROVE TypeOK'
  <2>1. table' \in Rows
    <3>1. CASE target[t] \in Stored
      <4>1. target[t] \in Proxies /\ table[target[t]] \in Row /\ success[t] \in BOOLEAN
        BY <1>0, <3>1, EntriesAreRows DEF Stored, TypeOK
      <4> QED
        BY <1>6, <3>1, <4>1 DEF proxyUpdate, TypeOK, Rows, Row
    <3>2. CASE target[t] \notin Stored
      BY <1>6, <3>2 DEF proxyUpdate, TypeOK
    <3> QED
      BY <3>1, <3>2
  <2> QED
    BY <1>6, <2>1 DEF proxyUpdate, Goto, TypeOK, Stage
<1> QED
  BY <1>2, <1>3, <1>4, <1>5, <1>6 DEF AdminStep

LEMMA NextTyped == TypeOK /\ [Next]_vars => TypeOK'
<1> SUFFICES ASSUME TypeOK, [Next]_vars PROVE TypeOK'
  OBVIOUS
<1>1. CASE ReloadTick
  BY <1>1 DEF ReloadTick, Goto, TypeOK, Stage
<1>2. CASE UNCHANGED vars
  BY <1>2 DEF vars, TypeOK
<1> QED
  BY <1>1, <1>2, RequestStepTyped, AdminStepTyped, LoadStepTyped DEF Next

-----------------------------------------------------------------------------
(* Residents stay in the pool *)

\* Rows of residents do not come back: a step leaves the table with a subset of
\* the residents it had, and a new list is read from the table itself.
LEMMA StepKeepsResidents ==
    ASSUME IInv, TypeOK', Seeded \subseteq created',
           (Seeded \cap Stored)' \subseteq Stored,
           \A p \in (Seeded \cap Stored)' : p \in Cached',
           \A t \in Loaders : pc'[t] = "store" =>
               \/ pc[t] = "store" /\ snapshot'[t] = snapshot[t]
               \/ snapshot'[t] = table /\ table' = table
    PROVE  IInv'
<1>1. ResidentsStayCached'
  BY DEF ResidentsStayCached, Deleted
<1>2. ResidentsInSnapshots'
  <2> SUFFICES ASSUME NEW t \in Loaders, pc'[t] = "store", NEW p \in Seeded, p \in Stored'
               PROVE  snapshot'[t][p] # NoProxy
    BY DEF ResidentsInSnapshots
  <2>1. p \in Seeded \cap Stored
    OBVIOUS
  <2> QED
    BY <2>1 DEF IInv, ResidentsInSnapshots, Stored
<1> QED
  BY <1>1, <1>2 DEF IInv

LEMMA InitEstablishes == Init => IInv
<1> SUFFICES ASSUME Init PROVE IInv
  OBVIOUS
<1>1. ResidentsStayCached /\ Seeded \subseteq created
  BY SeededAreProxies, NoProxyIsNoRow DEF Init, ResidentsStayCached, Deleted, Stored, Cached
<1>2. ResidentsInSnapshots
  BY DEF Init, ResidentsInSnapshots, Threads
<1> QED
  BY <1>1, <1>2, InitTyped DEF IInv

LEMMA NextPreserves == IInv /\ [Next]_vars => IInv'
<1> SUFFICES ASSUME IInv, [Next]_vars PROVE IInv'
  OBVIOUS
<1>0. /\ TypeOK /\ TypeOK'
      /\ Seeded \subseteq created
      /\ \A p \in Seeded \cap Stored : p \in Cached
  BY NextTyped, ResidentsAreStored DEF IInv, ResidentsStayCached
<1>00. \A t \in Threads, from, to \in Stage : Goto(t, from, to) =>
         /\ pc[t] = from
         /\ \A u \in Threads : pc'[u] = IF u = t THEN to ELSE pc[u]
  BY <1>0 DEF Goto, TypeOK
<1>1. ASSUME NEW t \in Requests, NEW p \in Proxies, Pick(t, p) PROVE IInv'
  BY <1>0, <1>00, <1>1, StepKeepsResidents DEF Pick, Stage, Threads, Stored, Cached
<1>2. ASSUME NEW t \in Requests, NEW ok \in BOOLEAN, RecordInTable(t, ok) PROVE IInv'
  <2>1. Stored' \subseteq Stored
    BY <1>0, <1>2 DEF RecordInTable, Stored, TypeOK, Rows
  <2>2. Cached' = Cached /\ created' = created /\ snapshot' = snapshot
    BY <1>2 DEF RecordInTable, Cached
  <2>3. \A u \in Loaders : pc'[u] = "store" => pc[u] = "store"
    BY <1>00, <1>2 DEF RecordInTable, Stage, Threads
  <2> QED
    BY <1>0, <2>1, <2>2, <2>3, StepKeepsResidents
<1>3. ASSUME NEW t \in Requests, RecordInCache(t) PROVE IInv'
  <2>1. success[t] \in BOOLEAN
    BY <1>0 DEF TypeOK, Threads
  <2>2. Cached \subseteq Cached'
    BY <1>0, <1>3, <2>1, EntriesAreRows, OutcomeIsRow DEF RecordInCache, Cached, TypeOK, Rows
  <2>3. Stored' = Stored /\ created' = created /\ snapshot' = snapshot
    BY <1>3 DEF RecordInCache, Stored
  <2>4. \A u \in Loaders : pc'[u] = "store" => pc[u] = "store"
    BY <1>00, <1>3 DEF RecordInCache, Stage, Threads
  <2> QED
    BY <1>0, <2>2, <2>3, <2>4, StepKeepsResidents
<1>4. ASSUME NEW t \in Admins, AdminStep(t) PROVE IInv'
  <2>1. Cached' = Cached /\ snapshot' = snapshot
    BY <1>4 DEF AdminStep, proxyCreate, proxyDelete, proxyResetFailures, ToggleRead, proxyUpdate, Cached
  <2>2. \A u \in Loaders : pc'[u] = "store" => pc[u] = "store"
    BY <1>00, <1>4 DEF AdminStep, proxyCreate, proxyDelete, proxyResetFailures, ToggleRead,
          proxyUpdate, Begin, Stage, Threads, Loaders
  <2>3. created \subseteq created'
    BY <1>4 DEF AdminStep, proxyCreate, proxyDelete, proxyResetFailures, ToggleRead, proxyUpdate
  <2>4. (Seeded \cap Stored)' \subseteq Stored
    <3>1. ASSUME NEW p \in Proxies, proxyCreate(t, p) PROVE (Seeded \cap Stored)' \subseteq Stored
      BY <1>0, <3>1 DEF proxyCreate, Stored, TypeOK, Rows
    <3>2. ASSUME NEW p \in Proxies, proxyDelete(t, p) PROVE (Seeded \cap Stored)' \subseteq Stored
      BY <1>0, <3>2 DEF proxyDelete, Stored, TypeOK, Rows
    <3>3. ASSUME NEW p \in Proxies, proxyResetFailures(t, p) PROVE (Seeded \cap Stored)' \subseteq Stored
      BY <1>0, <3>3 DEF proxyResetFailures, Stored, TypeOK, Rows
    <3>4. ASSUME NEW p \in Proxies, ToggleRead(t, p) PROVE (Seeded \cap Stored)' \subseteq Stored
      BY <3>4 DEF ToggleRead, Stored
    <3>5. ASSUME proxyUpdate(t) PROVE (Seeded \cap Stored)' \subseteq Stored
      BY <1>0, <3>5 DEF proxyUpdate, Stored, TypeOK, Rows
    <3> QED
      BY <1>4, <3>1, <3>2, <3>3, <3>4, <3>5 DEF AdminStep
  <2> QED
    BY <1>0, <2>1, <2>2, <2>3, <2>4, StepKeepsResidents
<1>5. ASSUME NEW t \in Loaders, LoadQuery(t) PROVE IInv'
  <2>1. \A u \in Loaders : pc'[u] = "store" =>
          \/ pc[u] = "store" /\ snapshot'[u] = snapshot[u]
          \/ snapshot'[u] = table /\ table' = table
    BY <1>0, <1>00, <1>5 DEF LoadQuery, Stage, Threads, TypeOK
  <2>2. Stored' = Stored /\ Cached' = Cached /\ created' = created
    BY <1>5 DEF LoadQuery, Stored, Cached
  <2> QED
    BY <1>0, <2>1, <2>2, StepKeepsResidents
<1>6. ASSUME NEW t \in Loaders, LoadFails(t) PROVE IInv'
  <2>1. \A u \in Loaders : pc'[u] = "store" => pc[u] = "store"
    BY <1>00, <1>6 DEF LoadFails, Stage, Threads
  <2>2. Stored' = Stored /\ Cached' = Cached /\ created' = created /\ snapshot' = snapshot
    BY <1>6 DEF LoadFails, Stored, Cached
  <2> QED
    BY <1>0, <2>1, <2>2, StepKeepsResidents
<1>7. ASSUME NEW t \in Loaders, LoadStore(t) PROVE IInv'
  <2>1. \A u \in Loaders : pc'[u] = "store" => pc[u] = "store" /\ snapshot'[u] = snapshot[u]
    BY <1>0, <1>00, <1>7 DEF LoadStore, Stage, Threads, TypeOK
  <2>2. Stored' = Stored /\ created' = created
    BY <1>7 DEF LoadStore, Stored
  <2>3. \A p \in Seeded \cap Stored : p \in Cached'
    BY <1>7, SeededAreProxies DEF LoadStore, Goto, IInv, ResidentsInSnapshots, Cached
  <2> QED
    BY <1>0, <2>1, <2>2, <2>3, StepKeepsResidents
<1>8. CASE ReloadTick
  <2>1. \A u \in Loaders : pc'[u] = "store" => pc[u] = "store"
    BY <1>00, <1>8 DEF ReloadTick, Stage, Threads, Loaders
  <2>2. Stored' = Stored /\ Cached' = Cached /\ created' = created /\ snapshot' = snapshot
    BY <1>8 DEF ReloadTick, Stored, Cached
  <2> QED
    BY <1>0, <2>1, <2>2, StepKeepsResidents
<1>9. CASE UNCHANGED vars
  BY <1>0, <1>9, StepKeepsResidents DEF vars, Stored, Cached
<1> QED
  BY <1>1, <1>2, <1>3, <1>4, <1>5, <1>6, <1>7, <1>8, <1>9 DEF Next, RequestStep, LoadStep

-----------------------------------------------------------------------------

\* Every reachable state of the pool is well typed: no count goes below zero and
\* the cache never holds anything but rows.
THEOREM TypeCorrect == Spec => []TypeOK
  BY InitTyped, NextTyped, PTL DEF Spec

\* A proxy that was there at boot and has not been deleted is in the cache in
\* every reachable state, for any number of handlers, reloads and failures.
THEOREM ResidentsNeverLost == Spec => []ResidentsStayCached
<1>1. IInv => ResidentsStayCached
  BY DEF IInv
<1> QED
  BY <1>1, InitEstablishes, NextPreserves, PTL DEF Spec

-----------------------------------------------------------------------------
(* The build label.  The second check in currentBL makes the refresh a      *)
(* single flight: the flag is up exactly while one goroutine is in          *)
(* refreshBL.  That is why the label it brings is not older than the stored *)
(* one: nobody else can have stored a label since it read the page.         *)

Busy(g) == job[g] # "none"

\* The flag is up while one goroutine refreshes, and that is while the label is stale.
SingleFlight ==
    /\ blFetching => blStale /\ \E g \in Goroutines : Busy(g)
    /\ \A g \in Goroutines : Busy(g) => blFetching
    /\ \A g, h \in Goroutines : Busy(g) /\ Busy(h) => g = h

\* A refresh is the first one of its expiry.
FirstOfExpiry == started <= 1 /\ (blStale /\ ~blFetching => started = 0)

\* A label on its way to the store came from the page, after the stored one.
LabelsAscend == \A g \in Goroutines : job[g] = "store" => got[g] \in blFetched..published

LabelInv == BLTypeOK /\ SingleFlight /\ FirstOfExpiry /\ LabelsAscend

-----------------------------------------------------------------------------

LEMMA LabelInitEstablishes == ASSUME BLInit PROVE LabelInv
<1>1. BLTypeOK
  <2>1. auto \in BOOLEAN /\ blStale \in BOOLEAN /\ blFetching \in BOOLEAN
    BY DEF BLInit
  <2>2. /\ call \in [Goroutines -> {"idle", "kick", "done"}]
        /\ job \in [Goroutines -> {"none", "page", "store", "end"}]
    BY DEF BLInit
  <2>3. /\ blFetched \in 0..published /\ published \in 0..MaxReleases
        /\ started \in Nat /\ expiries \in 0..MaxExpiries
    BY LabelBounds DEF BLInit, Pinned
  <2>4. got \in [Goroutines -> 0..Malformed]
    <3>1. 0 \in 0..Malformed
      BY LabelBounds DEF Malformed
    <3> QED
      BY <3>1 DEF BLInit, Pinned
  <2> QED
    BY <2>1, <2>2, <2>3, <2>4 DEF BLTypeOK
<1>2. SingleFlight /\ FirstOfExpiry /\ LabelsAscend
  BY DEF BLInit, SingleFlight, FirstOfExpiry, LabelsAscend, Busy
<1> QED
  BY <1>1, <1>2 DEF LabelInv

LEMMA currentBLPreserves ==
    ASSUME LabelInv, NEW g \in Goroutines, currentBL(g) PROVE LabelInv'
<1>1. PICK stage \in {"kick", "done"} : call' = [call EXCEPT ![g] = stage]
  BY DEF currentBL
<1>2. UNCHANGED <<auto, blFetched, blStale, blFetching, job, got, published, started, expiries>>
  BY DEF currentBL
<1> QED
  BY <1>1, <1>2 DEF LabelInv, BLTypeOK, SingleFlight, FirstOfExpiry, LabelsAscend, Busy, Malformed

\* A goroutine that finds the label stale and nobody at work is the only one to start.
LEMMA kickPreserves ==
    ASSUME LabelInv, NEW g \in Goroutines, kick(g) PROVE LabelInv'
<1>1. call' \in [Goroutines -> {"idle", "kick", "done"}]
  BY DEF kick, LabelInv, BLTypeOK
<1>2. UNCHANGED <<auto, blFetched, blStale, got, published, expiries>>
  BY DEF kick
<1>3. CASE MayFetch
  <2>1. /\ blFetching' = TRUE /\ started' = started + 1
        /\ job' = [job EXCEPT ![g] = "page"]
    BY <1>3 DEF kick
  <2>2. blStale /\ started = 0 /\ \A h \in Goroutines : ~Busy(h)
    BY <1>3 DEF MayFetch, LabelInv, FirstOfExpiry, SingleFlight
  <2>3. BLTypeOK'
    BY <1>1, <1>2, <2>1 DEF LabelInv, BLTypeOK, Malformed
  <2>4. SingleFlight'
    BY <1>2, <2>1, <2>2 DEF LabelInv, BLTypeOK, SingleFlight, Busy
  <2> QED
    BY <1>2, <2>1, <2>2, <2>3, <2>4 DEF LabelInv, BLTypeOK, FirstOfExpiry, LabelsAscend
<1>4. CASE ~MayFetch
  <2>1. UNCHANGED <<blFetching, job, started>>
    BY <1>4 DEF kick
  <2> QED
    BY <1>1, <1>2, <2>1 DEF LabelInv, BLTypeOK, SingleFlight, FirstOfExpiry, LabelsAscend, Busy, Malformed
<1> QED
  BY <1>3, <1>4

LEMMA fetchPagePreserves ==
    ASSUME LabelInv, NEW g \in Goroutines, fetchPage(g) PROVE LabelInv'
<1>1. job[g] = "page" /\ UNCHANGED <<auto, blFetched, blStale, blFetching, call, published, started, expiries>>
  BY DEF fetchPage
<1>2. PICK label \in {Pinned, Malformed, published} :
        IF WellShaped(label)
        THEN job' = [job EXCEPT ![g] = "store"] /\ got' = [got EXCEPT ![g] = label]
        ELSE job' = [job EXCEPT ![g] = "end"] /\ UNCHANGED got
  BY DEF fetchPage
<1>3. CASE WellShaped(label)
  <2>1. label = published /\ label \in blFetched..published /\ label \in 0..Malformed
    BY <1>3, LabelBounds DEF WellShaped, LabelInv, BLTypeOK, Malformed, Pinned
  <2>2. job' = [job EXCEPT ![g] = "store"] /\ got' = [got EXCEPT ![g] = label]
    BY <1>2, <1>3
  <2> QED
    BY <1>1, <2>1, <2>2 DEF LabelInv, BLTypeOK, SingleFlight, FirstOfExpiry, LabelsAscend, Busy, Malformed
<1>4. CASE ~WellShaped(label)
  BY <1>1, <1>2, <1>4 DEF LabelInv, BLTypeOK, SingleFlight, FirstOfExpiry, LabelsAscend, Busy, Malformed
<1> QED
  BY <1>3, <1>4

\* What is stored is not older than what was.
LEMMA storeLabelPreserves ==
    ASSUME LabelInv, NEW g \in Goroutines, storeLabel(g)
    PROVE  LabelInv' /\ blFetched' >= blFetched
<1>1. /\ job[g] = "store" /\ job' = [job EXCEPT ![g] = "end"] /\ blFetched' = got[g]
      /\ UNCHANGED <<auto, blStale, blFetching, call, got, published, started, expiries>>
  BY DEF storeLabel
<1>2. /\ got[g] \in Nat /\ blFetched \in Nat /\ published \in Nat
      /\ got[g] >= blFetched /\ got[g] \in 0..published
  BY <1>1 DEF LabelInv, LabelsAscend, BLTypeOK
<1>3. \A h \in Goroutines : job'[h] # "store"
  BY <1>1 DEF LabelInv, BLTypeOK, SingleFlight, Busy
<1>4. LabelsAscend'
  BY <1>3 DEF LabelsAscend
<1> QED
  BY <1>1, <1>2, <1>4 DEF LabelInv, BLTypeOK, SingleFlight, FirstOfExpiry, Busy, Malformed

LEMMA endRefreshPreserves ==
    ASSUME LabelInv, NEW g \in Goroutines, endRefresh(g) PROVE LabelInv'
<1>1. /\ job[g] = "end" /\ job' = [job EXCEPT ![g] = "none"]
      /\ blFetching' = FALSE /\ blStale' = FALSE
      /\ UNCHANGED <<auto, blFetched, call, got, published, started, expiries>>
  BY DEF endRefresh, FetchingAfter
<1>2. \A h \in Goroutines : job'[h] = "none"
  BY <1>1 DEF LabelInv, BLTypeOK, SingleFlight, Busy
<1> QED
  BY <1>1, <1>2 DEF LabelInv, BLTypeOK, SingleFlight, FirstOfExpiry, LabelsAscend, Busy, Malformed

LEMMA LabelEnvironmentPreserves ==
    ASSUME LabelInv, saveAuto \/ labelExpires \/ upstreamReleases PROVE LabelInv'
<1>1. CASE saveAuto
  <2>1. auto' \in BOOLEAN
    <3>1. auto' = TRUE \/ auto' = FALSE
      BY <1>1, Zenon DEF saveAuto
    <3> QED
      BY <3>1
  <2>2. UNCHANGED <<blFetched, blStale, blFetching, call, job, got, published, started, expiries>>
    BY <1>1 DEF saveAuto
  <2> QED
    BY <2>1, <2>2 DEF LabelInv, BLTypeOK, SingleFlight, FirstOfExpiry, LabelsAscend, Busy, Malformed
<1>2. CASE labelExpires
  BY <1>2, LabelBounds DEF labelExpires, LabelInv, BLTypeOK, SingleFlight, FirstOfExpiry, LabelsAscend, Busy, Malformed
<1>3. CASE upstreamReleases
  BY <1>3, LabelBounds DEF upstreamReleases, LabelInv, BLTypeOK, SingleFlight, FirstOfExpiry, LabelsAscend, Busy, Malformed
<1> QED
  BY <1>1, <1>2, <1>3

-----------------------------------------------------------------------------

\* Every step keeps the invariant, and none puts an older label in place of a newer.
LEMMA LabelStepPreserves == ASSUME LabelInv, [BLNext]_BLvars PROVE LabelInv' /\ (blFetched' # blFetched => blFetched' >= blFetched)
<1>1. CASE UNCHANGED BLvars
  BY <1>1 DEF BLvars, LabelInv, BLTypeOK, SingleFlight, FirstOfExpiry, LabelsAscend, Busy, Malformed
<1>2. ASSUME NEW g \in Goroutines, currentBL(g) PROVE LabelInv' /\ blFetched' = blFetched
  BY <1>2, currentBLPreserves DEF currentBL
<1>3. ASSUME NEW g \in Goroutines, kick(g) PROVE LabelInv' /\ blFetched' = blFetched
  BY <1>3, kickPreserves DEF kick
<1>4. ASSUME NEW g \in Goroutines, refreshBL(g) PROVE LabelInv' /\ (blFetched' # blFetched => blFetched' >= blFetched)
  <2>1. CASE fetchPage(g)
    BY <2>1, fetchPagePreserves DEF fetchPage
  <2>2. CASE storeLabel(g)
    BY <2>2, storeLabelPreserves
  <2>3. CASE endRefresh(g)
    BY <2>3, endRefreshPreserves DEF endRefresh
  <2> QED
    BY <1>4, <2>1, <2>2, <2>3 DEF refreshBL
<1>5. CASE saveAuto \/ labelExpires \/ upstreamReleases
  BY <1>5, LabelEnvironmentPreserves DEF saveAuto, labelExpires, upstreamReleases
<1> QED
  BY <1>1, <1>2, <1>3, <1>4, <1>5 DEF BLNext, BLvars

LEMMA LabelInvariant == BLSpec => []LabelInv
<1>1. LabelInv /\ [BLNext]_BLvars => LabelInv'
  BY LabelStepPreserves
<1>2. BLInit => LabelInv
  BY LabelInitEstablishes
<1> QED
  BY <1>1, <1>2, PTL DEF BLSpec

\* Every reachable state of the build label is well typed: the label in use is the pinned
\* one or one the upstream has published, whatever its pages had (bl.go:26-32, 85-93).
THEOREM LabelTypeCorrect == BLSpec => []BLTypeOK
<1>1. LabelInv => BLTypeOK
  BY DEF LabelInv
<1> QED
  BY LabelInvariant, <1>1, PTL

\* However many requests find the label expired, one refresh is under way, and one in
\* all until it expires again (bl.go:49-57, 66-72).
THEOREM OneFlight == BLSpec => []FetchedOnce
<1>1. ASSUME LabelInv PROVE FetchedOnce
  <2> DEFINE B == {g \in Goroutines : job[g] # "none"}
  <2>1. CASE blFetching
    <3>1. PICK g \in Goroutines : Busy(g)
      BY <1>1, <2>1 DEF LabelInv, SingleFlight
    <3>2. B = {g}
      BY <1>1, <3>1 DEF LabelInv, SingleFlight, Busy
    <3>3. Cardinality({g}) = 1
      BY FS_Singleton
    <3> QED
      BY <1>1, <2>1, <3>2, <3>3 DEF FetchedOnce, LabelInv, FirstOfExpiry
  <2>2. CASE ~blFetching
    <3>1. B = {}
      BY <1>1, <2>2 DEF LabelInv, SingleFlight, Busy
    <3> QED
      BY <1>1, <2>2, <3>1, FS_EmptySet DEF FetchedOnce, LabelInv, FirstOfExpiry
  <2> QED
    BY <2>1, <2>2
<1> QED
  BY LabelInvariant, <1>1, PTL

\* A refresh never puts an older label back over a newer one (bl.go:90-93).
THEOREM LabelsNeverGoBack == BLSpec => NeverOlder
<1>1. LabelInv /\ [BLNext]_BLvars => [blFetched' >= blFetched]_blFetched
  BY LabelStepPreserves
<1> QED
  BY LabelInvariant, <1>1, PTL DEF BLSpec, NeverOlder
=============================================================================
