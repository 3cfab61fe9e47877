---------------------------- MODULE SlotLimiter ----------------------------
(***************************************************************************)
(* The per-IP limiter of src/internal/app/ratelimit.go.                     *)
(*                                                                          *)
(* Every exit (a proxy of the pool, or the host's own IP, id 0) owns a slot *)
(* record with a counter of requests in flight and two rolling windows, one *)
(* of a minute and one of an hour.  trySlotAcquire, slotRelease and         *)
(* slotUsage each run under the mutex of the slot they touch, so each is    *)
(* one action.  The limits come from the runtime configuration, which the   *)
(* panel replaces while requests are in flight.                             *)
(*                                                                          *)
(* A window is the set of the grants whose timestamps it holds: the code    *)
(* appends in the order of the clock and drops the prefix below a cutoff,   *)
(* which keeps exactly the entries at or after the cutoff.                  *)
(***************************************************************************)
EXTENDS Naturals, FiniteSets

CONSTANTS
    Requests,     \* the callers: each one holds at most one slot
    Exits,        \* the keys of the slots map that are in use
    NoExit,       \* what a request holds before acquiring and after releasing
    LimitChoices, \* the configurations an administrator may save
    MinuteSpan,   \* 60 in the code
    HourSpan,     \* 3600 in the code
    MaxConc,      \* the largest concurrency limit among LimitChoices
    MaxTime,      \* bound on the clock
    MaxGrants     \* bound on the grants of a behaviour

\* validateRuntimeConfig refuses a negative limit; 0 switches a limit off.
Limits == [conc : Nat, rpm : Nat, rph : Nat]

ASSUME RequestsFinite == IsFiniteSet(Requests)
ASSUME NoExitIsNoExit == NoExit \notin Exits
ASSUME LimitsWellFormed == LimitChoices \subseteq Limits /\ LimitChoices # {}
ASSUME MaxConcIsMax == MaxConc \in Nat /\ \A l \in LimitChoices : l.conc <= MaxConc
ASSUME SpansOrdered == MinuteSpan \in Nat /\ HourSpan \in Nat /\ MinuteSpan <= HourSpan
ASSUME BoundsAreNat == MaxTime \in Nat /\ MaxGrants \in Nat

VARIABLES
    now,        \* time.Now().Unix()
    limits,     \* the limits rtCfg() returns
    inflight,   \* ipSlot.inflight, per exit
    minuteWin,  \* ipSlot.minuteWin, per exit
    hourWin,    \* ipSlot.hourWin, per exit
    holding,    \* the exit each caller has to release (its deferred releaseSlot)
    verdict,    \* what the caller's last trySlotAcquire told it
    grants      \* history: every grant ever made

vars == <<now, limits, inflight, minuteWin, hourWin, holding, verdict, grants>>

Verdicts == {"none", "granted", "concurrent", "rpm", "rph"}
Grant == [exit : Exits, at : Nat, id : Nat]

TypeOK ==
    /\ now \in Nat
    /\ limits \in Limits
    /\ inflight \in [Exits -> Nat]
    /\ minuteWin \in [Exits -> SUBSET Grant]
    /\ hourWin \in [Exits -> SUBSET Grant]
    /\ holding \in [Requests -> Exits \cup {NoExit}]
    /\ verdict \in [Requests -> Verdicts]
    /\ grants \in SUBSET Grant

Init ==
    /\ now = 0
    /\ limits \in LimitChoices
    /\ inflight = [e \in Exits |-> 0]
    /\ minuteWin = [e \in Exits |-> {}]
    /\ hourWin = [e \in Exits |-> {}]
    /\ holding = [r \in Requests |-> NoExit]
    /\ verdict = [r \in Requests |-> "none"]
    /\ grants = {}

-----------------------------------------------------------------------------
(* Helpers *)

\* pruneTimestamps(win, now - span): an entry exactly span seconds old stays.
pruneTimestamps(win, span) == {g \in win : g.at + span >= now}

Minute(e) == pruneTimestamps(minuteWin[e], MinuteSpan)
Hour(e) == pruneTimestamps(hourWin[e], HourSpan)

\* Mutants: one caller too many; a window that is counted before it is pruned.
ConcurrentOverfull(e) == limits.conc > 0 /\ inflight[e] > limits.conc
HourFullUnpruned(e) == limits.rph > 0 /\ Cardinality(hourWin[e]) >= limits.rph

\* The three checks of trySlotAcquire; 0 means "no limit".
ConcurrentFull(e) == limits.conc > 0 /\ inflight[e] >= limits.conc
MinuteFull(e) == limits.rpm > 0 /\ Cardinality(Minute(e)) >= limits.rpm
HourFull(e) == limits.rph > 0 /\ Cardinality(Hour(e)) >= limits.rph

\* What trySlotAcquire answers for exit e, in the order of its checks.
Answer(e) ==
    IF ConcurrentFull(e) THEN "concurrent"
    ELSE IF MinuteFull(e) THEN "rpm"
    ELSE IF HourFull(e) THEN "rph"
    ELSE "granted"

\* Both windows are pruned whatever the answer is.
PruneWindows(e, extra) ==
    /\ minuteWin' = [minuteWin EXCEPT ![e] = Minute(e) \cup extra]
    /\ hourWin' = [hourWin EXCEPT ![e] = Hour(e) \cup extra]

-----------------------------------------------------------------------------
(* Actions *)

\* trySlotAcquire succeeds: count the request in and stamp both windows.
Acquire(r, e) ==
    LET g == [exit |-> e, at |-> now, id |-> Cardinality(grants)] IN
    /\ holding[r] = NoExit
    /\ Cardinality(grants) < MaxGrants
    /\ Answer(e) = "granted"
    /\ inflight' = [inflight EXCEPT ![e] = @ + 1]
    /\ PruneWindows(e, {g})
    /\ holding' = [holding EXCEPT ![r] = e]
    /\ verdict' = [verdict EXCEPT ![r] = "granted"]
    /\ grants' = grants \cup {g}
    /\ UNCHANGED <<now, limits>>

\* trySlotAcquire refuses and names the limit that is full.
Refuse(r, e) ==
    /\ holding[r] = NoExit
    /\ Answer(e) # "granted"
    /\ PruneWindows(e, {})
    /\ verdict' = [verdict EXCEPT ![r] = Answer(e)]
    /\ UNCHANGED <<now, limits, inflight, holding, grants>>

\* Mutant: a release that never happens.
ReleaseForgotten(r) ==
    /\ holding[r] # NoExit
    /\ holding' = [holding EXCEPT ![r] = NoExit]
    /\ UNCHANGED <<now, limits, inflight, minuteWin, hourWin, verdict, grants>>

\* slotRelease, deferred by the caller: the windows keep their entries.
Release(r) ==
    /\ holding[r] # NoExit
    /\ inflight' = [inflight EXCEPT ![holding[r]] = IF @ > 0 THEN @ - 1 ELSE @]
    /\ holding' = [holding EXCEPT ![r] = NoExit]
    /\ verdict' = [verdict EXCEPT ![r] = "none"]
    /\ UNCHANGED <<now, limits, minuteWin, hourWin, grants>>

\* slotUsage, for the panel: it prunes the windows it reports.
slotUsage(e) ==
    /\ PruneWindows(e, {})
    /\ UNCHANGED <<now, limits, inflight, holding, verdict, grants>>

\* saveRuntimeConfig replaces the limits while slots are held.
SaveLimits ==
    /\ limits' \in LimitChoices
    /\ UNCHANGED <<now, inflight, minuteWin, hourWin, holding, verdict, grants>>

Tick ==
    /\ now < MaxTime
    /\ now' = now + 1
    /\ UNCHANGED <<limits, inflight, minuteWin, hourWin, holding, verdict, grants>>

Next ==
    \/ \E r \in Requests, e \in Exits : Acquire(r, e) \/ Refuse(r, e)
    \/ \E r \in Requests : Release(r)
    \/ \E e \in Exits : slotUsage(e)
    \/ SaveLimits
    \/ Tick

Spec == Init /\ [][Next]_vars

-----------------------------------------------------------------------------
(* Properties *)

Holders(e) == {r \in Requests : holding[r] = e}
Recent(e, span) == {g \in grants : g.exit = e /\ g.at + span >= now}

\* The counter of every slot is exactly the number of callers that still owe a
\* release for it: slotRelease never meets the zero it guards against, and no
\* slot leaks (trySlotAcquire/slotRelease, ratelimit.go:63-99).
InflightIsHolders == \A e \in Exits : inflight[e] = Cardinality(Holders(e))

\* Dropping expired entries never forgets one that still counts: each window
\* holds every grant of its exit that is young enough, however often
\* trySlotAcquire and the panel's slotUsage have pruned it, and none of another exit.
WindowsComplete ==
    \A e \in Exits :
        /\ Recent(e, MinuteSpan) \subseteq minuteWin[e]
        /\ Recent(e, HourSpan) \subseteq hourWin[e]
        /\ \A g \in minuteWin[e] \cup hourWin[e] : g \in grants /\ g.exit = e

\* A grant of exit e happens in this step.
Granted(e) == \E g \in grants' \ grants : g.exit = e

\* At the moment of a grant the true number of holders and the true numbers of
\* grants in the last minute and hour, the new one included, are within the
\* limits in force: the counters may be pruned and the limits replaced at any
\* time, and still no exit is ever driven above what the panel allows.
GrantsWithinLimits ==
    [][\A e \in Exits : Granted(e) =>
         /\ limits.conc > 0 => Cardinality(Holders(e)') <= limits.conc
         /\ limits.rpm > 0 => Cardinality(Recent(e, MinuteSpan)') <= limits.rpm
         /\ limits.rph > 0 => Cardinality(Recent(e, HourSpan)') <= limits.rph]_vars

\* A refusal is never spurious: when trySlotAcquire names a limit, the holders
\* or the recent grants of some exit really are at that limit.
RefusalsJustified ==
    [][\A r \in Requests : verdict'[r] # verdict[r] =>
         \E e \in Exits :
           /\ verdict'[r] = "concurrent" =>
                limits.conc > 0 /\ Cardinality(Holders(e)) >= limits.conc
           /\ verdict'[r] = "rpm" =>
                limits.rpm > 0 /\ Cardinality(Recent(e, MinuteSpan)) >= limits.rpm
           /\ verdict'[r] = "rph" =>
                limits.rph > 0 /\ Cardinality(Recent(e, HourSpan)) >= limits.rph]_vars

-----------------------------------------------------------------------------
(* Refinement *)

Semaphore == INSTANCE ExitSemaphore WITH Capacity <- MaxConc

\* While no saved configuration switches the concurrency limit off, the limiter
\* (trySlotAcquire, slotRelease) is one counting semaphore per exit, whose
\* capacity is the largest limit that may be configured.
ImplementsSemaphore == Semaphore!Spec
=============================================================================
