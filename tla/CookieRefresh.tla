--------------------------- MODULE CookieRefresh ---------------------------
(***************************************************************************)
(* One account's cookie and what is derived from it in src/internal/app:    *)
(* the row in the accounts table and the cache of XSRF tokens (xsrf.go).    *)
(*                                                                          *)
(* Requests, checks and rotations copy the cookie from the row, talk to the *)
(* upstream for seconds, merge the Set-Cookie headers of every response     *)
(* into their copy, and write it back.  Nothing keeps two of them apart.    *)
(***************************************************************************)
EXTENDS Naturals, FiniteSets

CONSTANTS
    Goroutines,
    Parts,          \* the cookie items the upstream refreshes, SIDCC and its kin
    RetryAttempts,  \* rtCfg().RetryAttempts
    SelectMayFail,  \* whether updateAccountCookie's SELECT may fail
    MaxIssues,      \* bound on the responses that change a cookie, plus 1
    MaxTurns        \* bound on the upstream's new tokens

ASSUME RefreshBounds ==
    /\ RetryAttempts \in Nat \ {0}
    /\ SelectMayFail \in BOOLEAN
    /\ MaxIssues \in Nat \ {0}
    /\ MaxTurns \in Nat

VARIABLES
    row,       \* accounts.cookie, or NoCookie once the account is deleted
    issued,    \* 1 + how many responses changed a cookie: the version of a new item
    turn,      \* the token the upstream accepts
    xsrfCache, \* the tokens by cookie
    go         \* the locals of each goroutine

vars == <<row, issued, turn, xsrfCache, go>>

\* A cookie names a session (SAPISID, __Secure-1PSID) and holds a version of each part,
\* 0 for an empty value.
Cookie == [who : {"own", "foreign"}, ver : [Parts -> Nat]]
NoCookie == [who |-> "own", ver |-> <<>>]
Fresh == [who |-> "own", ver |-> [p \in Parts |-> 1]]

Entry == [key : Cookie, token : Nat]
Stage == {"idle", "invalidate", "token", "fetch", "store", "upload", "fetchUpload",
          "storeUpload", "send", "page", "post", "select", "update", "reread", "done"}
Local == [pc : Stage, then : Stage, kind : {"request", "check", "rotation"},
          cookie : Cookie,  \* cookieStr, or the rotation's cookie
          base : Cookie,    \* history: the row as this goroutine last knew it
          blanked : SUBSET Parts, \* history: emptied by a response since then
          header : Cookie,  \* the Cookie header of the attempts
          page : Nat,       \* the token of the fetched page
          token : Nat,      \* the token of the attempts
          tokenOf : Cookie, \* the cookie that token was taken for
          rejected : Nat,   \* history: the token that was refused
          overlap : BOOLEAN, \* history: another fetch was under way at the invalidation
          healed : BOOLEAN, \* xsrfRetried
          rotated : BOOLEAN, \* rotatedOnce
          attempts : 0..(RetryAttempts - 1)]

TypeOK ==
    /\ row \in Cookie \cup {NoCookie}
    /\ issued \in 1..MaxIssues
    /\ turn \in Nat
    /\ xsrfCache \in SUBSET Entry
    /\ \A e, f \in xsrfCache : e.key = f.key => e = f
    /\ go \in [Goroutines -> Local]

Start(kind) ==
    [pc |-> "idle", then |-> "done", kind |-> kind, cookie |-> Fresh, base |-> Fresh,
     blanked |-> {}, header |-> Fresh, page |-> 0, token |-> 0, tokenOf |-> Fresh,
     rejected |-> 0, overlap |-> FALSE, healed |-> FALSE, rotated |-> FALSE, attempts |-> 0]

Init ==
    /\ row = Fresh
    /\ issued = 1 /\ turn = 1
    /\ xsrfCache = {}
    /\ go = [g \in Goroutines |-> Start("request")]

At(g, stage) == go[g].pc = stage

\* The locals of g are then l; a goroutine that ends has none.
Put(g, l) == go' = [go EXCEPT ![g] = IF l.pc = "done" THEN [Start("request") EXCEPT !.pc = "done"]
                                     ELSE l]
Goto(g, stage) == Put(g, [go[g] EXCEPT !.pc = stage])

-----------------------------------------------------------------------------
(* A goroutine begins with a copy of the row *)

begin(g, kind, stage) ==
    /\ At(g, "idle")
    /\ row # NoCookie
    /\ Put(g, [Start(kind) EXCEPT !.pc = stage, !.cookie = row, !.base = row])
    /\ UNCHANGED <<row, issued, turn, xsrfCache>>

startRequest(g) == begin(g, "request", "token")
checkAccountCookie(g) == begin(g, "check", "invalidate")
rotateAccount(g) == begin(g, "rotation", "page")

-----------------------------------------------------------------------------
(* The token cache *)

\* No attempt is left after this one.
Last(l) == l.attempts + 1 >= RetryAttempts

Hits(c) == {e \in xsrfCache : e.key = c}

\* Where a goroutine goes with its token: a request uploads its files once.
WithToken(l) == IF l.kind = "check" THEN "done" ELSE IF l.healed THEN "send" ELSE "upload"

\* Mutant: the headers are not built again for the new token.
UseTokenOldHeader(l, t) == [l EXCEPT !.pc = WithToken(l), !.page = 0,
                                     !.token = t, !.tokenOf = l.cookie,
                                     !.header = IF l.healed THEN @ ELSE l.cookie]

\* Which headers go with a token: those built for its cookie.
UseToken(l, t) == [l EXCEPT !.pc = WithToken(l), !.page = 0,
                            !.token = t, !.tokenOf = l.cookie, !.header = l.cookie]

\* getXSRF: a hit is used, ...
tokenHit(g) ==
    /\ At(g, "token")
    /\ \E e \in Hits(go[g].cookie) : Put(g, UseToken(go[g], e.token))
    /\ UNCHANGED <<row, issued, turn, xsrfCache>>

\* ... and otherwise the page is fetched, outside the lock.
tokenMiss(g) ==
    /\ At(g, "token")
    /\ Hits(go[g].cookie) = {}
    /\ Goto(g, "fetch")
    /\ UNCHANGED <<row, issued, turn, xsrfCache>>

\* The page, for a token or for an upload, answers with the token of the moment ...
fetchAppTokens(g) ==
    /\ go[g].pc \in {"fetch", "fetchUpload"}
    /\ Put(g, [go[g] EXCEPT !.pc = IF @ = "fetch" THEN "store" ELSE "storeUpload",
                            !.page = turn])
    /\ UNCHANGED <<row, issued, turn, xsrfCache>>

\* The cache with what g fetched.
Stored(g) == {e \in xsrfCache : e.key # go[g].cookie}
                 \cup {[key |-> go[g].cookie, token |-> go[g].page]}

\* ... which is stored and used later.
storeToken(g) ==
    /\ At(g, "store")
    /\ xsrfCache' = Stored(g)
    /\ Put(g, UseToken(go[g], go[g].page))
    /\ UNCHANGED <<row, issued, turn>>

\* No page, or none with a token.  A first token of a request gets one rotation; a
\* token of the self-healing does not, and its attempt counts as failed.
fetchFails(g) ==
    LET l == go[g] IN
    /\ At(g, "fetch")
    /\ \/ l.healed /\ ~Last(l)
          /\ Put(g, [l EXCEPT !.pc = "send", !.attempts = @ + 1])
       \/ l.healed /\ Last(l) /\ Goto(g, "done")
       \/ ~l.healed /\ l.kind = "request" /\ ~l.rotated
          /\ Put(g, [l EXCEPT !.pc = "page", !.rotated = TRUE])
       \/ ~l.healed /\ (l.kind = "check" \/ l.rotated) /\ Goto(g, "done")
    /\ UNCHANGED <<row, issued, turn, xsrfCache>>

\* The files of a request go up one by one, each with a look into the same cache
\* (getUploadTokens); an upload that fails ends the request.
upload(g) ==
    /\ At(g, "upload")
    /\ \/ Goto(g, "send")
       \/ Goto(g, "done")
       \/ Hits(go[g].cookie) = {} /\ Goto(g, "fetchUpload")
    /\ UNCHANGED <<row, issued, turn, xsrfCache>>

\* What an upload fetched is stored too, the page's token with it.
storeUpload(g) ==
    /\ At(g, "storeUpload")
    /\ xsrfCache' = Stored(g)
    /\ Put(g, [go[g] EXCEPT !.pc = "upload", !.page = 0])
    /\ UNCHANGED <<row, issued, turn>>

uploadPageFails(g) ==
    /\ At(g, "fetchUpload")
    /\ Goto(g, "done")
    /\ UNCHANGED <<row, issued, turn, xsrfCache>>

\* Mutant: what is dropped is the entry of the cookie that was sent.
DroppedOfHeader(g) == Hits(go[g].header)

\* The goroutines other than g that are fetching a token for its cookie.
Fetching(g) ==
    {h \in Goroutines \ {g} : /\ go[h].pc \in {"fetch", "store", "fetchUpload", "storeUpload"}
                              /\ go[h].cookie = go[g].cookie}

\* The entry invalidateXSRF drops.
Dropped(g) == Hits(go[g].cookie)

\* invalidateXSRF, by the self-healing and by the check.
invalidateXSRF(g) ==
    /\ At(g, "invalidate")
    /\ xsrfCache' = xsrfCache \ Dropped(g)
    /\ Put(g, [go[g] EXCEPT !.pc = "token", !.overlap = Fetching(g) # {}])
    /\ UNCHANGED <<row, issued, turn>>

-----------------------------------------------------------------------------
(* Set-Cookie *)

\* What a response may set: some parts anew; one part deleted, in the one form the code
\* knows (gone: empty, expires=thu, 01 jan 1970) or in any other (blank: Max-Age=0, another
\* date in the past); another session, or a deleted one.
SetCookies ==
    LET nothing == [new |-> {}, gone |-> {}, blank |-> {}, swap |-> FALSE] IN
    {[nothing EXCEPT !.new = q] : q \in SUBSET Parts}
        \cup {[nothing EXCEPT !.gone = {p}] : p \in Parts}
        \cup {[nothing EXCEPT !.blank = {p}] : p \in Parts}
        \cup {[nothing EXCEPT !.swap = TRUE]}

\* Mutant: no form of a deletion is known.
mergeSetCookieDeleting(c, sc, version) ==
    [who |-> IF sc.swap THEN "foreign" ELSE c.who,
     ver |-> [p \in Parts |-> IF p \in sc.new THEN version
                              ELSE IF p \in sc.gone \cup sc.blank THEN 0 ELSE c.ver[p]]]

\* mergeSetCookie: new values replace old ones, and so do empty ones; the deletions it
\* knows are left out.
mergeSetCookie(c, sc, version) ==
    [who |-> IF sc.swap THEN "foreign" ELSE c.who,
     ver |-> [p \in Parts |-> IF p \in sc.new THEN version
                              ELSE IF p \in sc.blank THEN 0 ELSE c.ver[p]]]

\* A response with the headers sc is merged into the copy of g, whose locals are
\* then l.  If that changes it from compare, updateAccountCookie comes before after.
receive(g, l, sc, compare, after) ==
    LET merged == mergeSetCookie(l.cookie, sc, issued + 1) IN
    /\ IF sc.new \cup sc.blank = {} /\ ~sc.swap THEN UNCHANGED issued
       ELSE issued < MaxIssues /\ issued' = issued + 1
    /\ Put(g, [l EXCEPT !.pc = IF merged # compare THEN "select" ELSE after,
                        !.then = after, !.cookie = merged,
                        !.blanked = (@ \ sc.new) \cup sc.blank])
    /\ UNCHANGED <<row, turn, xsrfCache>>

\* Mutant: the cookie is written without a look at whose it is.
SameSessionUnchecked(g) == TRUE

\* cookieIdentity of the copy and of the row agree.
SameSession(g) == row.who = go[g].cookie.who

\* updateAccountCookie, the SELECT; a failing one skips the comparison.
updateSelect(g) ==
    /\ At(g, "select")
    /\ \/ row # NoCookie /\ Goto(g, IF SameSession(g) THEN "update" ELSE go[g].then)
       \/ (row = NoCookie \/ SelectMayFail) /\ Goto(g, "update")
    /\ UNCHANGED <<row, issued, turn, xsrfCache>>

\* ... and the UPDATE, which finds no row when the account is gone.
updateAccountCookie(g) ==
    /\ At(g, "update")
    /\ row' = IF row = NoCookie THEN NoCookie ELSE go[g].cookie
    /\ Put(g, [go[g] EXCEPT !.pc = go[g].then, !.base = go[g].cookie, !.blanked = {}])
    /\ UNCHANGED <<issued, turn, xsrfCache>>

-----------------------------------------------------------------------------
(* An attempt *)

\* The answer came.
answered(g) ==
    /\ At(g, "send") /\ go[g].token = turn
    /\ \E sc \in SetCookies : receive(g, go[g], sc, go[g].cookie, "done")

\* The attempt failed; the next one sends the same headers and the same token.
attemptFails(g) ==
    LET l == go[g] IN
    /\ At(g, "send")
    /\ \E sc \in SetCookies :
        IF Last(l) THEN receive(g, l, sc, l.cookie, "done")
        ELSE receive(g, [l EXCEPT !.attempts = @ + 1], sc, l.cookie, "send")

\* 400 because of the token: it is taken once more, for the cookie as it is now.
heal(g) ==
    LET l == go[g] IN
    /\ At(g, "send") /\ l.token # turn /\ ~l.healed
    /\ \E sc \in SetCookies :
        receive(g, [l EXCEPT !.healed = TRUE, !.rejected = l.token], sc, l.cookie, "invalidate")

-----------------------------------------------------------------------------
(* A rotation, the account's own or the rescue of a request *)

afterRotation(g) == IF go[g].kind = "request" THEN "reread" ELSE "done"

\* fetchRotateParams: the page's cookies are merged before the POST.
rotatePage(g) ==
    /\ At(g, "page")
    /\ \E sc \in SetCookies :
        receive(g, go[g], sc, mergeSetCookie(go[g].cookie, sc, issued + 1), "post")

\* The POST; what both responses changed is written back.
rotatePost(g) ==
    /\ At(g, "post")
    /\ \E sc \in SetCookies : receive(g, go[g], sc, go[g].base, afterRotation(g))

\* Either of them fails: what the page set is lost.
rotateFails(g) ==
    /\ go[g].pc \in {"page", "post"}
    /\ Goto(g, "done")
    /\ UNCHANGED <<row, issued, turn, xsrfCache>>

\* accountByID after the rescue: the request goes on with the row's cookie.
reread(g) ==
    /\ At(g, "reread")
    /\ IF row = NoCookie THEN Goto(g, "done")
       ELSE Put(g, [go[g] EXCEPT !.pc = "token", !.cookie = row, !.base = row,
                                !.blanked = {}])
    /\ UNCHANGED <<row, issued, turn, xsrfCache>>

-----------------------------------------------------------------------------
(* The panel, the upstream and the clock *)

accountDelete ==
    /\ row # NoCookie
    /\ row' = NoCookie
    /\ UNCHANGED <<issued, turn, xsrfCache, go>>

upstreamTurns ==
    /\ turn <= MaxTurns
    /\ turn' = turn + 1
    /\ UNCHANGED <<row, issued, xsrfCache, go>>

\* An entry older than xsrfTTL is never served again.
entryExpires ==
    /\ \E e \in xsrfCache : xsrfCache' = xsrfCache \ {e}
    /\ UNCHANGED <<row, issued, turn, go>>

Step(g) ==
    \/ startRequest(g) \/ checkAccountCookie(g) \/ rotateAccount(g)
    \/ tokenHit(g) \/ tokenMiss(g) \/ fetchAppTokens(g) \/ storeToken(g) \/ fetchFails(g)
    \/ upload(g) \/ storeUpload(g) \/ uploadPageFails(g) \/ invalidateXSRF(g)
    \/ updateSelect(g) \/ updateAccountCookie(g)
    \/ answered(g) \/ attemptFails(g) \/ heal(g)
    \/ rotatePage(g) \/ rotatePost(g) \/ rotateFails(g) \/ reread(g)

Next ==
    \/ \E g \in Goroutines : Step(g)
    \/ accountDelete
    \/ upstreamTurns
    \/ entryExpires

Spec == Init /\ [][Next]_vars

-----------------------------------------------------------------------------
(* Properties *)

\* Whatever a response sets and however the writes interleave, the row never holds
\* another account's session, as long as the SELECTs succeed (cookie_pool.go:622-627).
IdentityKept == row.who = "own"

\* A token goes out with the cookie it was taken for, although Set-Cookie headers
\* change the cookie between the attempts (xsrf.go:21-22).
TokenFitsHeader ==
    \A g \in Goroutines : At(g, "send") => go[g].tokenOf = go[g].header

\* The token the self-healing takes is not the refused one, unless another goroutine
\* was fetching a token when the entry was dropped (xsrf.go:22-23).
HealWorks ==
    [][\A g \in Goroutines :
          go[g].pc \in {"token", "store"} /\ At(g, "send")' /\ go[g].healed
             => go[g].overlap \/ go'[g].token # go[g].rejected]_vars

\* A write puts an older value of a part back, or none, only if the writer's copy of the
\* row was out of date or a response emptied the part: merging loses nothing that the
\* upstream did not delete (cookie_pool.go:557-564).
LostOnlyToStaleCopies ==
    [][\A g \in Goroutines, p \in Parts :
          At(g, "update") /\ ~At(g, "update")' /\ row # NoCookie /\ row'.ver[p] < row.ver[p]
             => go[g].base # row \/ p \in go[g].blanked]_vars
=============================================================================
