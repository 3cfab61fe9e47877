------------------------ MODULE SlotLimiter_proofs ------------------------
(***************************************************************************)
(* Proofs about SlotLimiter, for every set of requests and exits, every     *)
(* choice of limits and every span of the windows.                          *)
(***************************************************************************)
EXTENDS SlotLimiter, FiniteSetTheorems, TLAPS

\* The properties need more than themselves to be inductive: the grants are
\* finite, none is dated in the future, their ids are below their number (so
\* that a new grant is new), and the limits are ones that may be configured.
GrantsWellFormed ==
    /\ IsFiniteSet(grants)
    /\ \A g \in grants : g.at <= now /\ g.id < Cardinality(grants)

IInv ==
    /\ TypeOK
    /\ limits \in LimitChoices
    /\ GrantsWellFormed
    /\ InflightIsHolders
    /\ WindowsComplete

-----------------------------------------------------------------------------
(* Lemmas about the helpers *)

\* pruneTimestamps only removes (ratelimit.go:173-183).
LEMMA PruneShrinks ==
    ASSUME NEW win, NEW span
    PROVE  pruneTimestamps(win, span) \subseteq win
  BY DEF pruneTimestamps

\* After pruning, the windows of an exit are exactly its recent grants: this is
\* what makes len(minuteWin) and len(hourWin) the numbers the checks need.
LEMMA PrunedWindowsAreRecent ==
    ASSUME IInv, NEW e \in Exits
    PROVE  /\ Minute(e) = Recent(e, MinuteSpan)
           /\ Hour(e) = Recent(e, HourSpan)
  BY DEF IInv, WindowsComplete, Minute, Hour, Recent, pruneTimestamps

\* The sets that are counted are finite.
LEMMA CountedSetsFinite ==
    ASSUME IInv, NEW e \in Exits
    PROVE  /\ IsFiniteSet(Holders(e))
           /\ IsFiniteSet(Recent(e, MinuteSpan))
           /\ IsFiniteSet(Recent(e, HourSpan))
<1>1. Holders(e) \in SUBSET Requests
  BY DEF Holders
<1>2. \A span : Recent(e, span) \in SUBSET grants
  BY DEF Recent
<1>3. IsFiniteSet(grants)
  BY DEF IInv, GrantsWellFormed
<1> QED
  BY <1>1, <1>2, <1>3, RequestsFinite, FS_Subset

\* The answer names the first limit that is full (ratelimit.go:75-83).
LEMMA AnswerCases ==
    ASSUME NEW e \in Exits
    PROVE  /\ Answer(e) \in Verdicts \ {"none"}
           /\ Answer(e) = "concurrent" => ConcurrentFull(e)
           /\ Answer(e) = "rpm" => MinuteFull(e)
           /\ Answer(e) = "rph" => HourFull(e)
           /\ Answer(e) = "granted" => ~ConcurrentFull(e) /\ ~MinuteFull(e) /\ ~HourFull(e)
  BY DEF Answer, Verdicts

-----------------------------------------------------------------------------
(* The invariant is inductive *)

LEMMA InitEstablishes == Init => IInv
<1> SUFFICES ASSUME Init PROVE IInv
  OBVIOUS
<1>1. TypeOK /\ limits \in LimitChoices
  BY LimitsWellFormed DEF Init, TypeOK, Verdicts
<1>2. GrantsWellFormed
  BY FS_EmptySet DEF Init, GrantsWellFormed
<1>3. InflightIsHolders
  <2> SUFFICES ASSUME NEW e \in Exits PROVE inflight[e] = Cardinality(Holders(e))
    BY DEF InflightIsHolders
  <2>1. Holders(e) = {}
    BY NoExitIsNoExit DEF Init, Holders
  <2> QED
    BY <2>1, FS_EmptySet DEF Init
<1>4. WindowsComplete
  BY DEF Init, WindowsComplete, Recent
<1> QED
  BY <1>1, <1>2, <1>3, <1>4 DEF IInv

\* Pruning one exit's windows, with or without a new grant g of that exit, keeps
\* every window complete as long as the clock stands still.
LEMMA PruningKeepsWindows ==
    ASSUME IInv, NEW e \in Exits, NEW extra \in SUBSET Grant,
           PruneWindows(e, extra),
           now' = now, grants' = grants \cup extra,
           \A g \in extra : g.exit = e
    PROVE  /\ WindowsComplete'
           /\ minuteWin' \in [Exits -> SUBSET Grant]
           /\ hourWin' \in [Exits -> SUBSET Grant]
<1>1. /\ Minute(e) \subseteq minuteWin[e]
      /\ Hour(e) \subseteq hourWin[e]
  BY PruneShrinks DEF Minute, Hour
<1>2. /\ minuteWin \in [Exits -> SUBSET Grant]
      /\ hourWin \in [Exits -> SUBSET Grant]
  BY DEF IInv, TypeOK
<1>3. /\ minuteWin'[e] = Minute(e) \cup extra
      /\ hourWin'[e] = Hour(e) \cup extra
      /\ \A x \in Exits \ {e} : minuteWin'[x] = minuteWin[x] /\ hourWin'[x] = hourWin[x]
  BY <1>2 DEF PruneWindows
<1>4. /\ minuteWin' \in [Exits -> SUBSET Grant]
      /\ hourWin' \in [Exits -> SUBSET Grant]
  BY <1>1, <1>2 DEF PruneWindows
<1>5. ASSUME NEW x \in Exits
      PROVE  /\ Recent(x, MinuteSpan)' \subseteq minuteWin'[x]
             /\ Recent(x, HourSpan)' \subseteq hourWin'[x]
             /\ \A g \in minuteWin'[x] \cup hourWin'[x] : g \in grants' /\ g.exit = x
  <2>1. CASE x = e
    BY <2>1, <1>1, <1>3, PrunedWindowsAreRecent DEF Recent, IInv, WindowsComplete
  <2>2. CASE x # e
    <3>1. Recent(x, MinuteSpan)' = Recent(x, MinuteSpan) /\ Recent(x, HourSpan)' = Recent(x, HourSpan)
      BY <2>2 DEF Recent
    <3> QED
      BY <2>2, <3>1, <1>3 DEF IInv, WindowsComplete
  <2> QED
    BY <2>1, <2>2
<1> QED
  BY <1>4, <1>5 DEF WindowsComplete

\* What a successful trySlotAcquire does to the two sets that are counted.
LEMMA AcquireAdds ==
    ASSUME IInv, NEW r \in Requests, NEW e \in Exits, Acquire(r, e)
    PROVE  LET g == [exit |-> e, at |-> now, id |-> Cardinality(grants)] IN
           /\ g \in Grant /\ g \notin grants
           /\ Holders(e)' = Holders(e) \cup {r}
           /\ r \notin Holders(e)
           /\ \A x \in Exits \ {e} : Holders(x)' = Holders(x)
           /\ \A span \in Nat : Recent(e, span)' = Recent(e, span) \cup {g}
<1> DEFINE g == [exit |-> e, at |-> now, id |-> Cardinality(grants)]
<1>1. Cardinality(grants) \in Nat
  BY FS_CardinalityType DEF IInv, GrantsWellFormed
<1>2. g \in Grant /\ g \notin grants
  BY <1>1 DEF IInv, TypeOK, GrantsWellFormed, Grant
<1>3. /\ holding[r] = NoExit
      /\ holding' = [holding EXCEPT ![r] = e]
      /\ holding \in [Requests -> Exits \cup {NoExit}]
  BY DEF Acquire, IInv, TypeOK
<1>4. /\ Holders(e)' = Holders(e) \cup {r}
      /\ r \notin Holders(e)
      /\ \A x \in Exits \ {e} : Holders(x)' = Holders(x)
  BY <1>3, NoExitIsNoExit DEF Holders
<1>5. ASSUME NEW span \in Nat PROVE Recent(e, span)' = Recent(e, span) \cup {g}
  BY <1>2 DEF Recent, Acquire, IInv, TypeOK
<1> QED
  BY <1>2, <1>4, <1>5

LEMMA AcquirePreserves ==
    ASSUME IInv, NEW r \in Requests, NEW e \in Exits, Acquire(r, e)
    PROVE  IInv'
<1> DEFINE g == [exit |-> e, at |-> now, id |-> Cardinality(grants)]
<1>1. /\ g \in Grant /\ g \notin grants /\ g.exit = e
      /\ grants' = grants \cup {g}
      /\ now' = now /\ limits' = limits
      /\ PruneWindows(e, {g})
  BY AcquireAdds DEF Acquire
<1>2. /\ WindowsComplete'
      /\ minuteWin' \in [Exits -> SUBSET Grant]
      /\ hourWin' \in [Exits -> SUBSET Grant]
  BY <1>1, PruningKeepsWindows
<1>3. TypeOK' /\ (limits \in LimitChoices)'
  <2>1. /\ inflight' \in [Exits -> Nat]
        /\ holding' \in [Requests -> Exits \cup {NoExit}]
    BY DEF Acquire, IInv, TypeOK
  <2>2. verdict' \in [Requests -> Verdicts]
    BY DEF Acquire, IInv, TypeOK, Verdicts
  <2> QED
    BY <1>1, <1>2, <2>1, <2>2 DEF IInv, TypeOK
<1>4. GrantsWellFormed'
  <2>1. IsFiniteSet(grants') /\ Cardinality(grants') = Cardinality(grants) + 1
    BY <1>1, FS_AddElement DEF IInv, GrantsWellFormed
  <2>2. Cardinality(grants) \in Nat
    BY FS_CardinalityType DEF IInv, GrantsWellFormed
  <2>3. \A h \in grants : h.id \in Nat /\ h.at <= now /\ h.id < Cardinality(grants)
    BY DEF IInv, TypeOK, Grant, GrantsWellFormed
  <2>4. now \in Nat /\ g.at <= now /\ g.id < Cardinality(grants) + 1
    BY <2>2 DEF IInv, TypeOK
  <2>5. \A h \in grants' : h.at <= now' /\ h.id < Cardinality(grants')
    BY <1>1, <2>1, <2>2, <2>3, <2>4
  <2> QED
    BY <2>1, <2>5 DEF GrantsWellFormed
<1>5. InflightIsHolders'
  <2> SUFFICES ASSUME NEW x \in Exits PROVE inflight'[x] = Cardinality(Holders(x)')
    BY DEF InflightIsHolders
  <2>1. inflight \in [Exits -> Nat] /\ inflight[x] = Cardinality(Holders(x))
    BY DEF IInv, TypeOK, InflightIsHolders
  <2>2. CASE x = e
    <3>1. Holders(e)' = Holders(e) \cup {r} /\ r \notin Holders(e)
      BY AcquireAdds
    <3>2. Cardinality(Holders(e) \cup {r}) = Cardinality(Holders(e)) + 1
      BY <3>1, CountedSetsFinite, FS_AddElement
    <3> QED
      BY <2>1, <2>2, <3>1, <3>2 DEF Acquire
  <2>3. CASE x # e
    BY <2>1, <2>3, AcquireAdds DEF Acquire
  <2> QED
    BY <2>2, <2>3
<1> QED
  BY <1>2, <1>3, <1>4, <1>5 DEF IInv

\* Refuse and slotUsage prune and nothing else.
LEMMA PruneOnlyPreserves ==
    ASSUME IInv, NEW e \in Exits, PruneWindows(e, {}),
           UNCHANGED <<now, limits, inflight, holding, grants>>,
           verdict' \in [Requests -> Verdicts]
    PROVE  IInv'
<1>1. /\ WindowsComplete'
      /\ minuteWin' \in [Exits -> SUBSET Grant]
      /\ hourWin' \in [Exits -> SUBSET Grant]
  BY PruningKeepsWindows
<1>2. TypeOK' /\ (limits \in LimitChoices)'
  BY <1>1 DEF IInv, TypeOK
<1>3. GrantsWellFormed' /\ InflightIsHolders'
  BY DEF IInv, GrantsWellFormed, InflightIsHolders, Holders
<1> QED
  BY <1>1, <1>2, <1>3 DEF IInv

LEMMA ReleasePreserves ==
    ASSUME IInv, NEW r \in Requests, Release(r)
    PROVE  IInv'
<1> PICK e \in Exits : holding[r] = e
  BY DEF Release, IInv, TypeOK
<1>1. /\ holding' = [holding EXCEPT ![r] = NoExit]
      /\ holding \in [Requests -> Exits \cup {NoExit}]
      /\ inflight \in [Exits -> Nat]
  BY DEF Release, IInv, TypeOK
<1>2. /\ Holders(e)' = Holders(e) \ {r}
      /\ r \in Holders(e)
      /\ \A x \in Exits \ {e} : Holders(x)' = Holders(x)
  BY <1>1, NoExitIsNoExit DEF Release, Holders
<1>3. inflight[e] = Cardinality(Holders(e)) /\ inflight[e] > 0
  <2>1. inflight[e] = Cardinality(Holders(e))
    BY <1>1 DEF IInv, InflightIsHolders
  <2>2. Cardinality(Holders(e)) # 0
    BY <1>1, <1>2, CountedSetsFinite, FS_EmptySet
  <2> QED
    BY <1>1, <2>1, <2>2
<1>4. InflightIsHolders'
  <2> SUFFICES ASSUME NEW x \in Exits PROVE inflight'[x] = Cardinality(Holders(x)')
    BY DEF InflightIsHolders
  <2>1. CASE x = e
    <3>1. Cardinality(Holders(e)') = Cardinality(Holders(e)) - 1
      BY <1>1, <1>2, CountedSetsFinite, FS_RemoveElement
    <3> QED
      BY <1>1, <1>3, <2>1, <3>1 DEF Release
  <2>2. CASE x # e
    BY <1>1, <1>2, <2>2 DEF Release, IInv, InflightIsHolders
  <2> QED
    BY <2>1, <2>2
<1>5. TypeOK' /\ (limits \in LimitChoices)'
  BY <1>1, <1>3 DEF Release, IInv, TypeOK, Verdicts
<1>6. GrantsWellFormed' /\ WindowsComplete'
  BY DEF Release, IInv, GrantsWellFormed, WindowsComplete, Recent
<1> QED
  BY <1>4, <1>5, <1>6 DEF IInv

LEMMA TickPreserves ==
    ASSUME IInv, Tick
    PROVE  IInv'
<1>1. TypeOK' /\ (limits \in LimitChoices)'
  BY DEF Tick, IInv, TypeOK
<1>2. GrantsWellFormed' /\ InflightIsHolders'
  BY DEF Tick, IInv, TypeOK, Grant, GrantsWellFormed, InflightIsHolders, Holders
<1>3. WindowsComplete'
  <2> SUFFICES ASSUME NEW x \in Exits
               PROVE  /\ Recent(x, MinuteSpan)' \subseteq minuteWin[x]
                      /\ Recent(x, HourSpan)' \subseteq hourWin[x]
                      /\ \A g \in minuteWin[x] \cup hourWin[x] : g \in grants /\ g.exit = x
    BY DEF Tick, WindowsComplete
  <2>1. \A span \in Nat : Recent(x, span)' \subseteq Recent(x, span)
    BY DEF Recent, Tick, IInv, TypeOK, Grant
  <2> QED
    BY <2>1, SpansOrdered DEF IInv, WindowsComplete
<1> QED
  BY <1>1, <1>2, <1>3 DEF IInv

LEMMA NextPreserves == IInv /\ [Next]_vars => IInv'
<1> SUFFICES ASSUME IInv, [Next]_vars PROVE IInv'
  OBVIOUS
<1>1. ASSUME NEW r \in Requests, NEW e \in Exits, Acquire(r, e) PROVE IInv'
  BY <1>1, AcquirePreserves
<1>2. ASSUME NEW r \in Requests, NEW e \in Exits, Refuse(r, e) PROVE IInv'
  <2>1. verdict' \in [Requests -> Verdicts]
    BY <1>2, AnswerCases DEF Refuse, IInv, TypeOK
  <2> QED
    BY <1>2, <2>1, PruneOnlyPreserves DEF Refuse
<1>3. ASSUME NEW r \in Requests, Release(r) PROVE IInv'
  BY <1>3, ReleasePreserves
<1>4. ASSUME NEW e \in Exits, slotUsage(e) PROVE IInv'
  BY <1>4, PruneOnlyPreserves DEF slotUsage, IInv, TypeOK
<1>5. CASE SaveLimits
  BY <1>5, LimitsWellFormed
  DEF SaveLimits, IInv, TypeOK, GrantsWellFormed, InflightIsHolders, Holders,
      WindowsComplete, Recent
<1>6. CASE Tick
  BY <1>6, TickPreserves
<1>7. CASE UNCHANGED vars
  BY <1>7 DEF vars, IInv, TypeOK, GrantsWellFormed, InflightIsHolders, Holders,
              WindowsComplete, Recent
<1> QED
  BY <1>1, <1>2, <1>3, <1>4, <1>5, <1>6, <1>7 DEF Next

LEMMA Invariance == Spec => []IInv
  BY InitEstablishes, NextPreserves, PTL DEF Spec

-----------------------------------------------------------------------------
(* Theorems *)

\* Type correctness of the limiter.
THEOREM TypeCorrect == Spec => []TypeOK
  BY Invariance, PTL DEF IInv

\* No slot leaks and none is released twice: the in-flight counter of every exit
\* is the number of callers that still owe a release (ratelimit.go:85, 92-99).
THEOREM SlotsConserved == Spec => []InflightIsHolders
  BY Invariance, PTL DEF IInv

\* Pruning never forgets a grant that a window still has to count
\* (ratelimit.go:69-73, 112-118, 173-183).
THEOREM WindowsNeverForget == Spec => []WindowsComplete
  BY Invariance, PTL DEF IInv

\* A step that grants does it within the limits in force.
LEMMA GrantStepWithinLimits ==
    ASSUME IInv, [Next]_vars, NEW e \in Exits, Granted(e)
    PROVE  /\ limits.conc > 0 => Cardinality(Holders(e)') <= limits.conc
           /\ limits.rpm > 0 => Cardinality(Recent(e, MinuteSpan)') <= limits.rpm
           /\ limits.rph > 0 => Cardinality(Recent(e, HourSpan)') <= limits.rph
<1>1. PICK r \in Requests, x \in Exits : Acquire(r, x)
  <2>1. grants' # grants
    BY DEF Granted
  <2> QED
    BY <2>1 DEF Next, vars, Refuse, Release, slotUsage, SaveLimits, Tick
<1>2. x = e
  BY <1>1 DEF Acquire, Granted
<1> DEFINE g == [exit |-> e, at |-> now, id |-> Cardinality(grants)]
<1>3. /\ limits \in Limits
      /\ inflight[e] = Cardinality(Holders(e))
      /\ MinuteSpan \in Nat /\ HourSpan \in Nat
  BY SpansOrdered DEF IInv, TypeOK, InflightIsHolders
<1>4. /\ Holders(e)' = Holders(e) \cup {r}
      /\ Recent(e, MinuteSpan)' = Recent(e, MinuteSpan) \cup {g}
      /\ Recent(e, HourSpan)' = Recent(e, HourSpan) \cup {g}
  BY <1>1, <1>2, <1>3, AcquireAdds
<1>5. ASSUME NEW S, NEW y, IsFiniteSet(S), NEW n \in Nat, ~(Cardinality(S) >= n)
      PROVE  Cardinality(S \cup {y}) <= n
  <2>1. Cardinality(S) \in Nat
    BY <1>5, FS_CardinalityType
  <2>2. Cardinality(S \cup {y}) = IF y \in S THEN Cardinality(S) ELSE Cardinality(S) + 1
    BY <1>5, FS_AddElement
  <2> QED
    BY <1>5, <2>1, <2>2
<1>6. Answer(e) = "granted"
  BY <1>1, <1>2 DEF Acquire
<1>7. /\ limits.conc > 0 => ~(Cardinality(Holders(e)) >= limits.conc)
      /\ limits.rpm > 0 => ~(Cardinality(Recent(e, MinuteSpan)) >= limits.rpm)
      /\ limits.rph > 0 => ~(Cardinality(Recent(e, HourSpan)) >= limits.rph)
  BY <1>3, <1>6, AnswerCases, PrunedWindowsAreRecent
  DEF ConcurrentFull, MinuteFull, HourFull
<1> QED
  BY <1>3, <1>4, <1>5, <1>7, CountedSetsFinite DEF Limits

\* No exit is ever driven above the limits in force, whatever the interleaving of
\* callers, panel reads and saved limits (ratelimit.go:63-89).
THEOREM LimitsRespected == Spec => GrantsWithinLimits
<1>1. IInv /\ [Next]_vars =>
        [\A e \in Exits : Granted(e) =>
           /\ limits.conc > 0 => Cardinality(Holders(e)') <= limits.conc
           /\ limits.rpm > 0 => Cardinality(Recent(e, MinuteSpan)') <= limits.rpm
           /\ limits.rph > 0 => Cardinality(Recent(e, HourSpan)') <= limits.rph]_vars
  BY GrantStepWithinLimits
<1> QED
  BY <1>1, Invariance, PTL DEF Spec, GrantsWithinLimits

\* A step that changes what a caller was told names a limit that is really full.
LEMMA RefusalStepJustified ==
    ASSUME IInv, [Next]_vars, NEW r \in Requests, verdict'[r] # verdict[r]
    PROVE  \E e \in Exits :
             /\ verdict'[r] = "concurrent" =>
                  limits.conc > 0 /\ Cardinality(Holders(e)) >= limits.conc
             /\ verdict'[r] = "rpm" =>
                  limits.rpm > 0 /\ Cardinality(Recent(e, MinuteSpan)) >= limits.rpm
             /\ verdict'[r] = "rph" =>
                  limits.rph > 0 /\ Cardinality(Recent(e, HourSpan)) >= limits.rph
<1>1. verdict \in [Requests -> Verdicts]
  BY DEF IInv, TypeOK
<1>2. CASE \E q \in Requests, e \in Exits : Refuse(q, e)
  <2>1. PICK q \in Requests, e \in Exits : Refuse(q, e)
    BY <1>2
  <2>2. verdict'[r] = Answer(e)
    BY <1>1, <2>1 DEF Refuse
  <2>3. inflight[e] = Cardinality(Holders(e))
    BY DEF IInv, InflightIsHolders
  <2> QED
    BY <2>2, <2>3, AnswerCases, PrunedWindowsAreRecent
    DEF ConcurrentFull, MinuteFull, HourFull
<1>3. CASE \E q \in Requests, e \in Exits : Acquire(q, e)
  <2>1. PICK q \in Requests, e \in Exits : Acquire(q, e)
    BY <1>3
  <2>2. verdict'[r] = "granted"
    BY <1>1, <2>1 DEF Acquire
  <2> QED
    BY <2>2
<1>4. CASE \E q \in Requests : Release(q)
  <2>1. PICK q \in Requests : Release(q)
    BY <1>4
  <2>2. verdict'[r] = "none"
    BY <1>1, <2>1 DEF Release
  <2>3. Exits # {}
    BY <2>1 DEF Release, IInv, TypeOK
  <2> QED
    BY <2>2, <2>3
<1> QED
  BY <1>2, <1>3, <1>4 DEF Next, vars, slotUsage, SaveLimits, Tick

\* No refusal is spurious: a caller that is told "concurrent", "rpm" or "rph" met
\* an exit that is at that limit (ratelimit.go:75-83).
THEOREM NoSpuriousRefusal == Spec => RefusalsJustified
<1>1. IInv /\ [Next]_vars =>
        [\A r \in Requests : verdict'[r] # verdict[r] =>
           \E e \in Exits :
             /\ verdict'[r] = "concurrent" =>
                  limits.conc > 0 /\ Cardinality(Holders(e)) >= limits.conc
             /\ verdict'[r] = "rpm" =>
                  limits.rpm > 0 /\ Cardinality(Recent(e, MinuteSpan)) >= limits.rpm
             /\ verdict'[r] = "rph" =>
                  limits.rph > 0 /\ Cardinality(Recent(e, HourSpan)) >= limits.rph]_vars
  BY RefusalStepJustified
<1> QED
  BY <1>1, Invariance, PTL DEF Spec, RefusalsJustified

\* If every configuration that may be saved limits the concurrency, the limiter
\* implements a counting semaphore per exit, of the largest configured capacity.
THEOREM LimiterIsSemaphore ==
    ASSUME \A l \in LimitChoices : l.conc > 0
    PROVE  Spec => ImplementsSemaphore
<1>1. Init => Semaphore!Init
  BY DEF Init, Semaphore!Init
<1>2. ASSUME IInv, [Next]_vars PROVE [Semaphore!Next]_holding
  <2>1. ASSUME NEW r \in Requests, NEW e \in Exits, Acquire(r, e)
        PROVE  Semaphore!Acquire(r, e)
    <3>1. ~ConcurrentFull(e)
      BY <2>1, AnswerCases DEF Acquire
    <3>2. Semaphore!HoldersOf(e) = Holders(e)
      BY DEF Semaphore!HoldersOf, Holders
    <3>3. limits \in LimitChoices /\ limits.conc \in Nat /\ inflight[e] = Cardinality(Holders(e))
      BY <1>2 DEF IInv, TypeOK, Limits, InflightIsHolders
    <3>4. Cardinality(Holders(e)) \in Nat
      BY <1>2, CountedSetsFinite, FS_CardinalityType
    <3>5. Cardinality(Holders(e)) < MaxConc
      BY <3>1, <3>3, <3>4, MaxConcIsMax DEF ConcurrentFull
    <3>6. Semaphore!Cardinality(Holders(e)) = Cardinality(Holders(e))
      BY DEF Semaphore!Cardinality, Cardinality
    <3> QED
      BY <2>1, <3>2, <3>5, <3>6 DEF Acquire, Semaphore!Acquire
  <2>2. ASSUME NEW r \in Requests, Release(r)
        PROVE  Semaphore!Release(r)
    BY <2>2 DEF Release, Semaphore!Release
  <2> QED
    BY <1>2, <2>1, <2>2
    DEF Next, vars, Refuse, slotUsage, SaveLimits, Tick, Semaphore!Next
<1> QED
  BY <1>1, <1>2, Invariance, PTL DEF Spec, ImplementsSemaphore, Semaphore!Spec
=============================================================================
