------------------------------ MODULE Gateway ------------------------------
(***************************************************************************)
(* One chat request from the model gate to the release of its exit:         *)
(* resolveModel, then streamGenerateWithFiles of src/internal/app/gemini.go *)
(* with everything it calls that changes shared state: the choice of an     *)
(* account (cookie_pool.go), of an exit (proxy.go, ratelimit.go), the XSRF   *)
(* token and the rotation that may rescue it (xsrf.go, rotate.go), the      *)
(* retry loop, and the health that is written back to the account.          *)
(*                                                                          *)
(* Every request is a goroutine; they share the accounts table, the proxy   *)
(* pool and the slots, and the panel changes the first two meanwhile.  A    *)
(* step is one statement on shared state, or one call to the upstream,      *)
(* whose outcome is any the code distinguishes.                             *)
(*                                                                          *)
(* Taken from other modules: a slot is a place in a counting semaphore      *)
(* (SlotLimiter implements ExitSemaphore) that a full rolling window may    *)
(* refuse at any time; which proxies are usable may change at any time (the *)
(* breaker and the reloads are ProxyPool's).                                *)
(***************************************************************************)
EXTENDS Naturals, Sequences, FiniteSets

CONSTANTS
    Requests,
    Accounts,
    Valid,          \* the accounts whose cookie is signed in
    NoAccount,      \* the nil account: an anonymous request
    Proxies,
    Direct,         \* proxy id 0: the host's own IP; also "not bound yet"
    NoExit,         \* no slot has been acquired
    Capacity,       \* the concurrency limit of a slot
    MaxCookieTries, \* maxCookieTries
    RetryAttempts,  \* rtCfg().RetryAttempts
    MaxAuthFailures,\* maxCookieAuthFailures
    Settings,       \* the combinations of switches a behaviour may run under
    StartPool,      \* the proxies in the pool at the start
    StartBound,     \* what an account may be bound to at the start: rows outlive a process
    MaxChanges      \* bound on the changes the panel and the breaker make

ASSUME ValidAreAccounts == Valid \subseteq Accounts /\ NoAccount \notin Accounts
ASSUME RequestsFinite == IsFiniteSet(Requests)
ASSUME AccountsFinite == IsFiniteSet(Accounts)
ASSUME ExitsDistinct == Direct \notin Proxies /\ NoExit \notin Proxies \cup {Direct}
ASSUME StartIsPossible == StartPool \subseteq Proxies /\ StartBound \subseteq Proxies \cup {Direct}
ASSUME BoundsArePositive ==
    /\ {Capacity, MaxCookieTries, RetryAttempts, MaxAuthFailures} \subseteq Nat \ {0}
    /\ MaxChanges \in Nat

\* Two switches of the runtime configuration, and one of the environment: whether
\* calls may fail for reasons that are not the cookie's.
Switches == [FallbackAnon : BOOLEAN, FallbackDirect : BOOLEAN, outages : BOOLEAN]
ASSUME SettingsAreSwitches == Settings \subseteq Switches

Exits == Proxies \cup {Direct}
AccountOrNone == Accounts \cup {NoAccount}

\* Where a request is; the names are those of the calls it is about to make.
Stage == {"resolve", "pick", "slot", "proxy", "direct", "token", "rotate", "retoken",
          "check", "bind", "blame", "repick", "nocookie", "prepare", "send", "reply", "heal",
          "giveup", "release", "done"}

\* What lastStatus says of the cookie: "rejected" is 401 or 403.
Cause == {"none", "rejected"}

VARIABLES
    req,      \* the local variables of each request
    account,  \* the accounts table
    listed,   \* the proxies in proxyCache
    usable,   \* those proxyUsable accepts
    inflight, \* ipSlot.inflight of every exit
    changes,  \* how many changes the panel and the breaker have made
    settings  \* rtCfg() and the environment, fixed for a behaviour

vars == <<req, account, listed, usable, inflight, changes, settings>>

Request == [
    pc       : Stage,
    acct     : AccountOrNone,       \* acct: the account being tried
    seen     : Exits,               \* acct.ProxyID, as read when it was picked
    tried    : SUBSET Accounts,     \* tried
    cause    : Cause,               \* lastStatus
    cookie   : AccountOrNone,       \* whose cookieStr and token are in use
    cookieID : AccountOrNone,       \* cookieID: who the request is put down to
    exit     : Exits \cup {NoExit}, \* picked
    attempt  : Nat,                 \* attempt
    healed   : BOOLEAN,             \* xsrfRetried
    emitted  : BOOLEAN,             \* tracker.emitted or rtracker.emitted
    ok       : BOOLEAN,             \* an answer was returned
    sends    : Nat,                 \* history: prompts sent to the upstream
    blames   : Seq(Accounts)]       \* history: the accounts a failure was counted for

Account == [enabled : BOOLEAN, fails : Nat, bound : Exits]

TypeOK ==
    /\ req \in [Requests -> Request]
    /\ account \in [Accounts -> Account]
    /\ listed \in SUBSET Proxies
    /\ usable \in SUBSET listed
    /\ inflight \in [Exits -> Nat]
    /\ changes \in Nat
    /\ settings \in Switches

Start == [pc |-> "resolve", acct |-> NoAccount, seen |-> Direct,
          tried |-> {}, cause |-> "none", cookie |-> NoAccount, cookieID |-> NoAccount,
          exit |-> NoExit, attempt |-> 0, healed |-> FALSE, emitted |-> FALSE,
          ok |-> FALSE, sends |-> 0, blames |-> <<>>]

Init ==
    /\ req = [r \in Requests |-> Start]
    /\ \E bound \in [Accounts -> StartBound] :
         account = [a \in Accounts |-> [enabled |-> TRUE, fails |-> 0, bound |-> bound[a]]]
    /\ listed = StartPool
    /\ usable = StartPool
    /\ inflight = [e \in Exits |-> 0]
    /\ changes = 0
    /\ settings \in Settings

Enabled == {a \in Accounts : account[a].enabled}

At(r, stage) == req[r].pc = stage

-----------------------------------------------------------------------------
(* Helpers *)

\* Request r moves on to a stage; its other locals are as new says.
Go(r, new, stage) == req' = [req EXCEPT ![r] = [new EXCEPT !.pc = stage]]

\* markAccountResult: a success clears the count; a failure is counted, and
\* autoDisableIfDead takes the account out of rotation at the threshold.
AfterSuccess(acc) == [acc EXCEPT !.fails = 0]
AfterFailure(acc) ==
    [acc EXCEPT !.fails = @ + 1,
                !.enabled = IF acc.fails + 1 >= MaxAuthFailures THEN FALSE ELSE @]

\* A failure of account a is counted, on behalf of request record q.
Blamed(q, a) == [q EXCEPT !.blames = Append(@, a)]

\* Mutant: the accounts already tried are not skipped.
CandidatesAgain(skip) ==
    {a \in Enabled : \A b \in Enabled : account[a].fails <= account[b].fails}

\* pickCookieAccountExcept: an enabled account not skipped, the healthiest first;
\* among equals the least recently used, which may be any of them.
Candidates(skip) ==
    LET left == Enabled \ skip
    IN  {a \in left : \A b \in left : account[a].fails <= account[b].fails}

\* The account the query returns, if any, and the copy of its proxy_id.
PickAccount(r, new, stage, otherwise) ==
    \/ \E a \in Candidates(new.tried) :
         Go(r, [new EXCEPT !.acct = a, !.seen = account[a].bound], stage)
    \/ /\ Candidates(new.tried) = {} \/ settings.outages
       /\ Go(r, [new EXCEPT !.acct = NoAccount], otherwise)

HasRoom(e) == inflight[e] < Capacity
Occupy(e) == inflight' = [inflight EXCEPT ![e] = @ + 1]

-----------------------------------------------------------------------------
(* Before the upstream: the model gate, an account, an exit *)

\* resolveModel: a model that needs a login is refused when no account is enabled.
resolveModel(r, login) ==
    /\ At(r, "resolve")
    /\ IF login /\ Enabled = {} THEN Go(r, req[r], "done")
       ELSE Go(r, req[r], "pick")
    /\ UNCHANGED <<account, listed, usable, inflight, changes, settings>>

pickCookieAccount(r) ==
    /\ At(r, "pick")
    /\ PickAccount(r, req[r], "slot", "slot")
    /\ UNCHANGED <<account, listed, usable, inflight, changes, settings>>

\* First half of acquireSlot: are there proxies at all?
acquireSlot(r) ==
    /\ At(r, "slot")
    /\ Go(r, req[r], IF listed # {} THEN "proxy" ELSE "direct")
    /\ UNCHANGED <<account, listed, usable, inflight, changes, settings>>

\* With its exit the request goes for a token, or straight on when it is anonymous.
Leave(r, e) ==
    /\ Occupy(e)
    /\ Go(r, [req[r] EXCEPT !.exit = e],
          IF req[r].acct = NoAccount THEN "prepare" ELSE "token")

\* pickProxyPreferring: the exit the account is bound to if it can be used and its
\* slot is not full, else any other; the rolling windows may have filled any slot.
pickProxyPreferring(r) ==
    LET room == {p \in usable : HasRoom(p)}
        prefer == req[r].seen
    IN
    /\ At(r, "proxy")
    /\ \E free \in SUBSET room :
         \/ \E p \in free : (prefer \in free => p = prefer) /\ Leave(r, p)
         \/ /\ free = {}
            /\ Go(r, req[r], IF settings.FallbackDirect THEN "direct" ELSE "done")
            /\ UNCHANGED inflight
    /\ UNCHANGED <<account, listed, usable, changes, settings>>

\* The slot of the host's own IP; a full one means 429.
acquireDirect(r) ==
    /\ At(r, "direct")
    /\ \/ HasRoom(Direct) /\ Leave(r, Direct)
       \/ Go(r, req[r], "done") /\ UNCHANGED inflight
    /\ UNCHANGED <<account, listed, usable, changes, settings>>

-----------------------------------------------------------------------------
(* The token loop: up to MaxCookieTries accounts, each rescued once *)

\* A signed-in cookie fails only when the call itself does.  One that is no longer
\* signed in may do either: its token may still be cached, for up to xsrfTTL.
MayFail(a) == a \in Valid => settings.outages

\* The request has its cookie; the row's proxy_id, as read, says what comes next.
TokenWorks(r, new) ==
    Go(r, [new EXCEPT !.cookie = new.acct], IF new.seen = Direct THEN "bind" ELSE "check")

getXSRF(r) ==
    LET q == [req[r] EXCEPT !.tried = @ \cup {req[r].acct}, !.cookieID = req[r].acct] IN
    /\ At(r, "token")
    /\ \/ TokenWorks(r, q)
       \/ MayFail(q.acct) /\ Go(r, q, "rotate")
    /\ UNCHANGED <<account, listed, usable, inflight, changes, settings>>

\* The rescue: when it succeeds the row is read again, with its current proxy_id.
rotateAccount(r) ==
    /\ At(r, "rotate")
    /\ \/ Go(r, [req[r] EXCEPT !.seen = account[req[r].acct].bound], "retoken")
       \/ Go(r, req[r], "blame")
    /\ UNCHANGED <<account, listed, usable, inflight, changes, settings>>

\* A rotation may have rescued a cookie that had merely gone stale.
getXSRFAgain(r) ==
    /\ At(r, "retoken")
    /\ \/ TokenWorks(r, req[r])
       \/ Go(r, req[r], "blame")
    /\ UNCHANGED <<account, listed, usable, inflight, changes, settings>>

\* Is the exit that the account's copy names still good?
proxyUsableByID(r) ==
    /\ At(r, "check")
    /\ Go(r, req[r], IF req[r].seen \in usable THEN "prepare" ELSE "bind")
    /\ UNCHANGED <<account, listed, usable, inflight, changes, settings>>

\* The UPDATE of proxy_id, whose error is ignored.
bindAccountProxy(r) ==
    /\ At(r, "bind")
    /\ \/ account' = [account EXCEPT ![req[r].acct].bound = req[r].exit]
       \/ settings.outages /\ UNCHANGED account
    /\ Go(r, req[r], "prepare")
    /\ UNCHANGED <<listed, usable, inflight, changes, settings>>

\* markCookieByStatus(acct.ID, 401, ...): whatever the error of getXSRF was.
markCookieBad(r) ==
    LET a == req[r].acct IN
    /\ At(r, "blame")
    /\ account' = [account EXCEPT ![a] = AfterFailure(@)]
    /\ Go(r, Blamed(req[r], a), "repick")
    /\ UNCHANGED <<listed, usable, inflight, changes, settings>>

\* Mutant: the loop stops one account too early.
pickCookieAccountTooFew(r) ==
    /\ At(r, "repick")
    /\ PickAccount(r, req[r],
         IF Cardinality(req[r].tried) + 1 < MaxCookieTries THEN "token" ELSE "nocookie",
         "nocookie")
    /\ UNCHANGED <<account, listed, usable, inflight, changes, settings>>

\* pickCookieAccountExcept(tried), and the loop's condition.
pickCookieAccountExcept(r) ==
    /\ At(r, "repick")
    /\ PickAccount(r, req[r],
         IF Cardinality(req[r].tried) < MaxCookieTries THEN "token" ELSE "nocookie",
         "nocookie")
    /\ UNCHANGED <<account, listed, usable, inflight, changes, settings>>

\* Mutant: the error is returned without giving the slot back.
noCookieLeaks(r) ==
    /\ At(r, "nocookie")
    /\ Go(r, req[r], IF settings.FallbackAnon THEN "prepare" ELSE "done")
    /\ UNCHANGED <<account, listed, usable, inflight, changes, settings>>

\* Mutant: the request goes on as an anonymous one whatever the panel says.
noCookieGoesOn(r) ==
    /\ At(r, "nocookie")
    /\ Go(r, [req[r] EXCEPT !.cookieID = NoAccount], "prepare")
    /\ UNCHANGED <<account, listed, usable, inflight, changes, settings>>

\* Mutant: the last account tried is left in the record of the request.
noCookieKeepsID(r) ==
    /\ At(r, "nocookie")
    /\ Go(r, req[r], IF settings.FallbackAnon THEN "prepare" ELSE "release")
    /\ UNCHANGED <<account, listed, usable, inflight, changes, settings>>

\* Every account tried has failed: an error, or anonymous if the panel says so.
noCookie(r) ==
    /\ At(r, "nocookie")
    /\ IF settings.FallbackAnon
       THEN Go(r, [req[r] EXCEPT !.cookieID = NoAccount], "prepare")
       ELSE Go(r, req[r], "release")
    /\ UNCHANGED <<account, listed, usable, inflight, changes, settings>>

-----------------------------------------------------------------------------
(* The retry loop *)

\* Uploads and the context file: any of them may fail and end the request.
prepare(r) ==
    /\ At(r, "prepare")
    /\ \E next \in {"send", "release"} : Go(r, req[r], next)
    /\ UNCHANGED <<account, listed, usable, inflight, changes, settings>>

send(r) ==
    /\ At(r, "send")
    /\ IF req[r].attempt < RetryAttempts
       THEN Go(r, [req[r] EXCEPT !.sends = @ + 1], "reply")
       ELSE Go(r, req[r], "giveup")
    /\ UNCHANGED <<account, listed, usable, inflight, changes, settings>>

\* A frame of a 200 response reaches the client (the delta callbacks).
emit(r) ==
    /\ At(r, "reply")
    /\ ~req[r].emitted
    /\ Go(r, [req[r] EXCEPT !.emitted = TRUE], "reply")
    /\ UNCHANGED <<account, listed, usable, inflight, changes, settings>>

\* Mutant: the next attempt is made even when the client has seen a part of this one.
attemptFailsResends(r, cause) ==
    /\ Go(r, [req[r] EXCEPT !.attempt = @ + 1, !.cause = cause], "send")
    /\ UNCHANGED account

\* The attempt failed: the next one, unless the client has seen a part of it.
attemptFails(r, cause) ==
    /\ Go(r, [req[r] EXCEPT !.attempt = @ + 1, !.cause = cause],
          IF req[r].emitted THEN "giveup" ELSE "send")
    /\ UNCHANGED account

\* What the upstream answers.  Only a 200 carries content frames, so a response
\* that has emitted ends in success or in a broken connection.
replied(r) ==
    /\ At(r, "reply")
    /\ \/ \* the connection breaks, or a 200 has no content frame
          attemptFails(r, req[r].cause)
       \/ \* another status; "none" is one that is not the cookie's fault
          /\ ~req[r].emitted
          /\ \E cause \in {"none", "rejected"} :
               /\ cause = "rejected" => MayFail(req[r].cookie)
               /\ attemptFails(r, cause)
       \/ \* 400 with an XSRF error, once: the token is fetched again
          /\ ~req[r].emitted
          /\ req[r].cookie # NoAccount
          /\ ~req[r].healed
          /\ Go(r, [req[r] EXCEPT !.healed = TRUE], "heal")
          /\ UNCHANGED account
       \/ \* success: markCookieByStatus(cookieID, 200, "")
          /\ Go(r, [req[r] EXCEPT !.ok = TRUE], "release")
          /\ IF req[r].cookieID = NoAccount THEN UNCHANGED account
             ELSE account' = [account EXCEPT ![req[r].cookieID] = AfterSuccess(@)]
    /\ UNCHANGED <<listed, usable, inflight, changes, settings>>

\* invalidateXSRF and getXSRF again; a new token does not use up an attempt.
heal(r) ==
    /\ At(r, "heal")
    /\ \/ Go(r, req[r], "send") /\ UNCHANGED account
       \/ attemptFails(r, "none")
    /\ UNCHANGED <<listed, usable, inflight, changes, settings>>

\* After the loop: markCookieByStatus(cookieID, lastStatus, ...).
giveUp(r) ==
    LET a == req[r].cookieID IN
    /\ At(r, "giveup")
    /\ IF req[r].cause = "rejected" /\ a # NoAccount
       THEN /\ account' = [account EXCEPT ![a] = AfterFailure(@)]
            /\ Go(r, Blamed(req[r], a), "release")
       ELSE UNCHANGED account /\ Go(r, req[r], "release")
    /\ UNCHANGED <<listed, usable, inflight, changes, settings>>

\* The deferred releaseSlot(picked.ID).
releaseSlot(r) ==
    /\ At(r, "release")
    /\ inflight' = [inflight EXCEPT ![req[r].exit] = IF @ > 0 THEN @ - 1 ELSE @]
    /\ Go(r, req[r], "done")
    /\ UNCHANGED <<account, listed, usable, changes, settings>>

-----------------------------------------------------------------------------
(* The panel, the breaker and the reloads *)

Change == changes < MaxChanges /\ changes' = changes + 1

PoolChanges ==
    /\ Change
    /\ \E l \in SUBSET Proxies : \E u \in SUBSET l :
         /\ <<l, u>> # <<listed, usable>>
         /\ listed' = l
         /\ usable' = u
    /\ UNCHANGED <<req, account, inflight, settings>>

\* accountSetStatus
accountSetStatus(a) ==
    /\ Change
    /\ account' = [account EXCEPT ![a].enabled = ~@]
    /\ UNCHANGED <<req, listed, usable, inflight, settings>>

RequestStep(r) ==
    \/ \E login \in BOOLEAN : resolveModel(r, login)
    \/ pickCookieAccount(r)
    \/ acquireSlot(r)
    \/ pickProxyPreferring(r)
    \/ acquireDirect(r)
    \/ getXSRF(r)
    \/ rotateAccount(r)
    \/ getXSRFAgain(r)
    \/ proxyUsableByID(r)
    \/ bindAccountProxy(r)
    \/ markCookieBad(r)
    \/ pickCookieAccountExcept(r)
    \/ noCookie(r)
    \/ prepare(r)
    \/ send(r)
    \/ emit(r)
    \/ replied(r)
    \/ heal(r)
    \/ giveUp(r)
    \/ releaseSlot(r)

Next ==
    \/ \E r \in Requests : RequestStep(r)
    \/ PoolChanges
    \/ \E a \in Accounts : accountSetStatus(a)

Spec == Init /\ [][Next]_vars

\* A handler runs to its end: every call to the upstream goes through a client
\* with a timeout, and every statement returns.
FairSpec == Spec /\ \A r \in Requests : WF_vars(RequestStep(r))

-----------------------------------------------------------------------------
(* Properties *)

\* Whatever way a request ends - refused, out of accounts, a failed upload, out of
\* attempts, answered - the slot of its exit is given back exactly once: the
\* counter of an exit is the number of requests that still use it (gemini.go:283-288).
SlotsFollowRequests ==
    \A e \in Exits :
        inflight[e] = Cardinality({r \in Requests : req[r].exit = e /\ ~At(r, "done")})

\* A request is put down to the account whose cookie went upstream with the
\* prompt, through changes of account, rescues and the anonymous fallback
\* (gemini.go:305-370): the panel's per-account record is about the right account.
AttributionHonest == \A r \in Requests : req[r].sends > 0 => req[r].cookieID = req[r].cookie

\* A request never counts two failures against one account: an account it gave up
\* on is not tried again, and the one it used fails at most once, in the end
\* (gemini.go:354, 614-616).  So maxCookieAuthFailures means that many requests.
BlamedOnce ==
    \A r \in Requests : \A i, j \in DOMAIN req[r].blames :
        req[r].blames[i] = req[r].blames[j] => i = j

\* A request that found its accounts unusable is not sent as an anonymous one
\* behind the client's back (gemini.go:360-368).
NoSilentDowngrade ==
    \A r \in Requests :
        req[r].sends > 0 /\ req[r].tried # {} => settings.FallbackAnon \/ req[r].cookie # NoAccount

\* While there is no outage and the panel rests, the token loop settles on an account
\* as long as there are fewer dead ones than a request may try and one cookie is
\* signed in, whatever other requests do to the accounts meanwhile (gemini.go:303-357).
\* This is the loop's part only: it may settle on a dead cookie whose token is cached,
\* and what the upstream refuses later is not tried with another account.
LoopFindsAccount ==
    ~settings.outages /\ changes = 0 =>
        \A r \in Requests :
            At(r, "nocookie") => Valid = {} \/ Cardinality(Accounts \ Valid) >= MaxCookieTries

-----------------------------------------------------------------------------
(* Refinement *)

PhaseOf(q) ==
    IF q.ok THEN "answered"
    ELSE IF q.pc = "done" THEN "failed"
    ELSE IF q.pc = "resolve" THEN "new"
    ELSE IF q.emitted THEN "streaming"
    ELSE "working"

Contract == INSTANCE RequestContract WITH
    MaxSends <- RetryAttempts + 1,
    phase <- [r \in Requests |-> PhaseOf(req[r])],
    sends <- [r \in Requests |-> req[r].sends]

\* streamGenerateWithFiles keeps the contract it has with its callers: at most
\* RetryAttempts + 1 sends, none after the client has seen a part of an answer
\* (gemini.go:234, 535), and every call ends.
ImplementsContract == Contract!LiveSpec
=============================================================================
