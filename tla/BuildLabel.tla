----------------------------- MODULE BuildLabel -----------------------------
(***************************************************************************)
(* The build label of src/internal/app/bl.go, which every request to the    *)
(* upstream names in its URL.  A request uses the label it finds and, when  *)
(* that is older than blTTL, kicks a refresh in the background; until one   *)
(* has been fetched the label pinned in the runtime configuration is used.  *)
(*                                                                          *)
(* The names that every component has carry BL here, so that Caches_proofs  *)
(* can extend this module together with another component.                  *)
(***************************************************************************)
EXTENDS Naturals, FiniteSets

CONSTANTS
    Goroutines,   \* the requests, each calls currentBL once
    MaxReleases,  \* bound on the labels the upstream publishes
    MaxExpiries   \* bound on how often blTTL runs out

ASSUME LabelBounds == MaxReleases \in Nat /\ MaxExpiries \in Nat

VARIABLES
    auto,       \* rtCfg().GeminiBLAuto
    blFetched,  \* the label fetched last, Pinned before the first
    blStale,    \* time.Since(blFetchAt) > blTTL
    blFetching,
    call,       \* where currentBL is in each request
    job,        \* where the refreshBL is that the request kicked
    got,        \* the label its page had
    published,  \* the label on the upstream's page
    started,    \* history: the refreshes since the label was last fresh
    expiries

BLvars == <<auto, blFetched, blStale, blFetching, call, job, got, published, started, expiries>>

Pinned == 0
Malformed == MaxReleases + 1

BLTypeOK ==
    /\ auto \in BOOLEAN /\ blStale \in BOOLEAN /\ blFetching \in BOOLEAN
    /\ blFetched \in 0..published
    /\ call \in [Goroutines -> {"idle", "kick", "done"}]
    /\ job \in [Goroutines -> {"none", "page", "store", "end"}]
    /\ got \in [Goroutines -> 0..Malformed]
    /\ published \in 0..MaxReleases
    /\ started \in Nat /\ expiries \in 0..MaxExpiries

BLInit ==
    /\ auto \in BOOLEAN
    /\ blFetched = Pinned /\ blStale = TRUE /\ blFetching = FALSE
    /\ call = [g \in Goroutines |-> "idle"]
    /\ job = [g \in Goroutines |-> "none"]
    /\ got = [g \in Goroutines |-> Pinned]
    /\ published = 0 /\ started = 0 /\ expiries = 0

-----------------------------------------------------------------------------
(* currentBL *)

\* The three variables are read under the read lock; with auto off none is.
currentBL(g) ==
    /\ call[g] = "idle"
    /\ call' = [call EXCEPT ![g] = IF auto /\ blStale /\ ~blFetching THEN "kick" ELSE "done"]
    /\ UNCHANGED <<auto, blFetched, blStale, blFetching, job, got, published, started, expiries>>

\* Mutants: one of the two conditions is not looked at again under the lock.
MayFetchAnyAge == ~blFetching
MayFetchTwice == blStale

\* The second check, under the write lock.
MayFetch == blStale /\ ~blFetching

kick(g) ==
    /\ call[g] = "kick"
    /\ call' = [call EXCEPT ![g] = "done"]
    /\ IF MayFetch
       THEN /\ blFetching' = TRUE
            /\ job' = [job EXCEPT ![g] = "page"]
            /\ started' = started + 1
       ELSE UNCHANGED <<blFetching, job, started>>
    /\ UNCHANGED <<auto, blFetched, blStale, got, published, expiries>>

-----------------------------------------------------------------------------
(* refreshBL *)

\* blValueRe, on what the page has: the label of the moment, none, or something else.
WellShaped(label) == label \notin {Pinned, Malformed}

\* The page, if there is one.
fetchPage(g) ==
    /\ job[g] = "page"
    /\ \E label \in {Pinned, Malformed, published} :
           IF WellShaped(label)
           THEN job' = [job EXCEPT ![g] = "store"] /\ got' = [got EXCEPT ![g] = label]
           ELSE job' = [job EXCEPT ![g] = "end"] /\ UNCHANGED got
    /\ UNCHANGED <<auto, blFetched, blStale, blFetching, call, published, started, expiries>>

storeLabel(g) ==
    /\ job[g] = "store"
    /\ job' = [job EXCEPT ![g] = "end"]
    /\ blFetched' = got[g]
    /\ UNCHANGED <<auto, blStale, blFetching, call, got, published, started, expiries>>

\* Mutant: the flag is reset where the label is stored, not in the deferred function.
FetchingAfterFailure(g) == got[g] = Pinned

\* Whether the flag outlives the refresh.
FetchingAfter(g) == FALSE

\* The deferred function, however the refresh ended.
endRefresh(g) ==
    /\ job[g] = "end"
    /\ job' = [job EXCEPT ![g] = "none"]
    /\ blFetching' = FetchingAfter(g)
    /\ blStale' = FALSE
    /\ UNCHANGED <<auto, blFetched, call, got, published, started, expiries>>

-----------------------------------------------------------------------------
(* The panel, the clock and the upstream *)

saveAuto ==
    /\ auto' = ~auto
    /\ UNCHANGED <<blFetched, blStale, blFetching, call, job, got, published, started, expiries>>

labelExpires ==
    /\ ~blStale
    /\ expiries < MaxExpiries
    /\ blStale' = TRUE
    /\ expiries' = expiries + 1
    /\ started' = 0
    /\ UNCHANGED <<auto, blFetched, blFetching, call, job, got, published>>

upstreamReleases ==
    /\ published < MaxReleases
    /\ published' = published + 1
    /\ UNCHANGED <<auto, blFetched, blStale, blFetching, call, job, got, started, expiries>>

refreshBL(g) == fetchPage(g) \/ storeLabel(g) \/ endRefresh(g)

BLNext ==
    \/ \E g \in Goroutines : currentBL(g) \/ kick(g) \/ refreshBL(g)
    \/ saveAuto
    \/ labelExpires
    \/ upstreamReleases

\* The clients of the page request have timeouts (client.go:71, 124), so it ends.
BLFairness == \A g \in Goroutines : WF_BLvars(refreshBL(g))

BLSpec == BLInit /\ [][BLNext]_BLvars /\ BLFairness

-----------------------------------------------------------------------------
(* Properties *)

\* However many requests find the label expired, one refresh is under way, and until
\* it expires again there is no second one, a failed one included (bl.go:49-57, 70).
FetchedOnce ==
    /\ Cardinality({g \in Goroutines : job[g] # "none"}) = (IF blFetching THEN 1 ELSE 0)
    /\ started <= 1

\* A refresh never puts an older label back over a newer one (bl.go:90-93).
NeverOlder == [][blFetched' >= blFetched]_blFetched

\* A refresh under way ends: the flag does not keep all later ones out (bl.go:67-72).
RefreshEnds == blFetching ~> ~blFetching
=============================================================================
