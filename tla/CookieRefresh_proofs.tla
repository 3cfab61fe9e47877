------------------------ MODULE CookieRefresh_proofs ------------------------
(***************************************************************************)
(* Theorems about CookieRefresh, for any number of goroutines, cookie items *)
(* and attempts.                                                            *)
(*                                                                          *)
(* Most of the invariant is about one goroutine's locals (Good): its copy   *)
(* of the cookie only moves forward from the row it was read from, but for  *)
(* the items a response emptied, its token fits its headers, and after the  *)
(* self-healing neither a rotation nor an upload can follow.  Two           *)
(* parts relate goroutines: what the cache and the others may bring to one  *)
(* that heals itself (NotTheRejected), and whose cookie the row has (Own).  *)
(***************************************************************************)
EXTENDS CookieRefresh, TLAPS

\* The locals l are sound when i responses have set cookies and t is the token.
Good(l, i, t) ==
    /\ l \in Local
    /\ l.then \in {"done", "send", "invalidate", "post", "reread"}
    /\ l.tokenOf = l.header
    /\ \A p \in Parts : /\ l.base.ver[p] <= i /\ l.cookie.ver[p] <= i
                        /\ p \in l.blanked \/ l.base.ver[p] <= l.cookie.ver[p]
    /\ l.token <= t /\ l.page <= t
    /\ l.healed => /\ l.rejected < t
                   /\ l.pc \notin {"page", "post", "reread", "upload", "fetchUpload", "storeUpload"}
                   /\ l.pc \in {"select", "update"} => l.then \notin {"post", "reread"}

AllGood == \A g \in Goroutines : Good(go[g], issued, turn)

RowIssued == row # NoCookie => \A p \in Parts : row.ver[p] <= issued

CachedTurned == \A e \in xsrfCache : e.token <= turn

\* It takes a token again because of a refusal, and nobody was fetching at that moment.
Heals(l) == l.healed /\ ~l.overlap /\ l.pc \in {"token", "fetch", "store"}

\* Neither the cache nor a fetched token has the refused one.
NotTheRejected ==
    \A g \in Goroutines : Heals(go[g]) =>
        /\ \A e \in xsrfCache : e.key = go[g].cookie => e.token # go[g].rejected
        /\ \A h \in Goroutines : go[h].pc \in {"store", "storeUpload"} /\ go[h].cookie = go[g].cookie
                                     => go[h].page # go[g].rejected

IInv == TypeOK /\ AllGood /\ RowIssued /\ CachedTurned /\ NotTheRejected

-----------------------------------------------------------------------------
(* Locals *)

LEMMA FreshIsCookie == Fresh \in Cookie
  BY DEF Fresh, Cookie

LEMMA StartIsGood ==
    ASSUME NEW kind \in {"request", "check", "rotation"}, NEW i \in Nat, 1 <= i, NEW t \in Nat
    PROVE  Good(Start(kind), i, t)
<1>1. Start(kind) \in Local
  BY FreshIsCookie, RefreshBounds DEF Start, Local, Stage
<1> QED
  BY <1>1 DEF Good, Start, Fresh

LEMMA DoneIsGood ==
    ASSUME NEW i \in Nat, 1 <= i, NEW t \in Nat
    PROVE  Good([Start("request") EXCEPT !.pc = "done"], i, t)
<1>1. Start("request") \in Local
  BY FreshIsCookie, RefreshBounds DEF Start, Local, Stage
<1>2. [Start("request") EXCEPT !.pc = "done"] \in Local
  BY <1>1 DEF Local, Stage
<1> QED
  BY <1>2 DEF Good, Start, Fresh

LEMMA GoodStays ==
    ASSUME NEW l, NEW i \in Nat, NEW t \in Nat, NEW j \in Nat, NEW u \in Nat,
           Good(l, i, t), i <= j, t <= u
    PROVE  Good(l, j, u)
<1>1. \A p \in Parts : l.cookie.ver[p] \in Nat /\ l.base.ver[p] \in Nat
  BY DEF Good, Local, Cookie
<1>2. l.token \in Nat /\ l.rejected \in Nat /\ l.page \in Nat
  BY DEF Good, Local
<1> QED
  BY <1>1, <1>2 DEF Good

\* Storing good locals keeps all of them good.
LEMMA PutGood ==
    ASSUME IInv, NEW g \in Goroutines, NEW l, Put(g, l), Good(l, issued', turn'),
           issued' \in Nat, turn' \in Nat, issued <= issued', turn <= turn'
    PROVE  /\ go' \in [Goroutines -> Local]
           /\ AllGood'
<1>1. issued \in Nat /\ 1 <= issued /\ turn \in Nat /\ go \in [Goroutines -> Local]
  BY RefreshBounds DEF IInv, TypeOK
<1>2. PICK m : /\ go' = [go EXCEPT ![g] = m] /\ Good(m, issued', turn')
               /\ m = l \/ m = [Start("request") EXCEPT !.pc = "done"]
  <2>1. 1 <= issued'
    BY <1>1
  <2> QED
    BY <2>1, DoneIsGood DEF Put
<1>3. m \in Local
  BY <1>2 DEF Good
<1>4. \A h \in Goroutines : Good(go'[h], issued', turn')
  BY <1>1, <1>2, GoodStays DEF IInv, AllGood
<1> QED
  BY <1>1, <1>2, <1>3, <1>4 DEF AllGood

\* A goroutine that leaves the token cache alone does not disturb those that heal.
LEMMA PutElsewhere ==
    ASSUME IInv, NEW g \in Goroutines, NEW l, Put(g, l),
           l.pc \notin {"token", "fetch", "store", "storeUpload"}, xsrfCache' \subseteq xsrfCache
    PROVE  NotTheRejected'
<1>1. PICK m : go' = [go EXCEPT ![g] = m] /\ m.pc \notin {"token", "fetch", "store", "storeUpload"}
  <2>1. [Start("request") EXCEPT !.pc = "done"].pc = "done"
    BY DEF Start
  <2> QED
    BY <2>1 DEF Put
<1>2. go'[g].pc \notin {"token", "fetch", "store", "storeUpload"} /\ \A h \in Goroutines \ {g} : go'[h] = go[h]
  BY <1>1 DEF IInv, TypeOK
<1> QED
  BY <1>2 DEF NotTheRejected, Heals, IInv

-----------------------------------------------------------------------------
(* Steps that change locals only *)

\* The shared state as a step of locals leaves it.
Still == UNCHANGED <<row, issued, turn, xsrfCache>>

LEMMA LocalStep ==
    ASSUME IInv, NEW g \in Goroutines, NEW l, Put(g, l), Good(l, issued, turn), Still,
           NotTheRejected'
    PROVE  IInv'
<1>1. issued \in Nat /\ turn \in Nat
  BY RefreshBounds DEF IInv, TypeOK
<1>2. go' \in [Goroutines -> Local] /\ AllGood'
  BY <1>1, PutGood DEF Still
<1> QED
  BY <1>2 DEF IInv, TypeOK, Still, RowIssued, CachedTurned

LEMMA GotoGood ==
    ASSUME NEW l, NEW i, NEW t, Good(l, i, t),
           NEW stage \in Stage, NEW m, m = [l EXCEPT !.pc = stage],
           stage \in {"page", "post", "reread", "upload", "fetchUpload", "storeUpload"} => ~l.healed,
           stage \in {"select", "update"} => l.pc = "select"
    PROVE  Good(m, i, t)
<1>1. m \in Local
  BY DEF Good, Local
<1>2. /\ m.pc = stage /\ m.then = l.then /\ m.tokenOf = l.tokenOf /\ m.header = l.header
      /\ m.base = l.base /\ m.cookie = l.cookie /\ m.token = l.token /\ m.page = l.page
      /\ m.blanked = l.blanked /\ m.healed = l.healed /\ m.rejected = l.rejected
  BY DEF Good, Local
<1> QED
  BY <1>1, <1>2 DEF Good

LEMMA Typed ==
    ASSUME IInv, NEW g \in Goroutines
    PROVE  /\ go[g] \in Local /\ Good(go[g], issued, turn)
           /\ issued \in Nat /\ 1 <= issued /\ turn \in Nat
  BY RefreshBounds DEF IInv, TypeOK, AllGood

LEMMA BeginPreserves ==
    ASSUME IInv, NEW g \in Goroutines,
           startRequest(g) \/ checkAccountCookie(g) \/ rotateAccount(g)
    PROVE  IInv'
<1>1. PICK kind \in {"request", "check", "rotation"}, stage \in {"token", "invalidate", "page"} :
        begin(g, kind, stage)
  BY DEF startRequest, checkAccountCookie, rotateAccount
<1> DEFINE l == [Start(kind) EXCEPT !.pc = stage, !.cookie = row, !.base = row]
<1>2. row \in Cookie /\ Put(g, l) /\ Still
  BY <1>1 DEF begin, Still, IInv, TypeOK
<1>3. Start(kind) \in Local
  BY StartIsGood, Typed DEF Good
<1>4. l \in Local /\ l.cookie = row /\ l.base = row /\ ~l.healed /\ l.then = "done" /\ l.pc = stage
  BY <1>2, <1>3 DEF Local, Stage, Start
<1>5. l.token = 0 /\ l.page = 0 /\ l.tokenOf = l.header
  BY <1>3 DEF Local, Start
<1>6. \A p \in Parts : row.ver[p] \in Nat /\ row.ver[p] <= issued
  BY <1>1, <1>2 DEF begin, IInv, RowIssued, Cookie
<1>7. Good(l, issued, turn)
  BY <1>4, <1>5, <1>6, Typed DEF Good
<1>8. NotTheRejected'
  <2>1. go' = [go EXCEPT ![g] = l]
    BY <1>2, <1>4 DEF Put
  <2>2. go'[g] = l /\ \A h \in Goroutines \ {g} : go'[h] = go[h]
    BY <2>1 DEF IInv, TypeOK
  <2> HIDE DEF l
  <2> QED
    BY <1>2, <1>4, <2>2 DEF IInv, NotTheRejected, Heals, Still
<1> HIDE DEF l
<1> QED
  BY <1>2, <1>7, <1>8, LocalStep

LEMMA TokenMissPreserves ==
    ASSUME IInv, NEW g \in Goroutines, tokenMiss(g) PROVE IInv'
<1> DEFINE l == [go[g] EXCEPT !.pc = "fetch"]
<1>1. Put(g, l) /\ Still /\ go[g].pc = "token"
  BY DEF tokenMiss, Goto, At, Still
<1>2. Good(l, issued, turn)
  <2>1. "fetch" \in Stage /\ Good(go[g], issued, turn)
    BY Typed DEF Stage
  <2> QED
    BY <2>1, GotoGood
<1>3. NotTheRejected'
  <2>1. l.pc = "fetch" /\ l.cookie = go[g].cookie /\ l.healed = go[g].healed
        /\ l.overlap = go[g].overlap /\ l.rejected = go[g].rejected
    BY Typed DEF Local
  <2>2. go' = [go EXCEPT ![g] = l]
    BY <1>1, <2>1 DEF Put
  <2>3. go'[g] = l /\ \A h \in Goroutines \ {g} : go'[h] = go[h]
    BY <2>2 DEF IInv, TypeOK
  <2> HIDE DEF l
  <2> QED
    BY <1>1, <2>1, <2>3 DEF IInv, NotTheRejected, Heals, Still
<1> HIDE DEF l
<1> QED
  BY <1>1, <1>2, <1>3, LocalStep

\* A token fetched now is newer than any refused one.
LEMMA FetchPreserves ==
    ASSUME IInv, NEW g \in Goroutines, fetchAppTokens(g) PROVE IInv'
<1>1. PICK stage : /\ \/ go[g].pc = "fetch" /\ stage = "store"
                      \/ go[g].pc = "fetchUpload" /\ stage = "storeUpload"
                   /\ Put(g, [go[g] EXCEPT !.pc = stage, !.page = turn])
  <2>1. [go[g] EXCEPT !.pc = IF @ = "fetch" THEN "store" ELSE "storeUpload", !.page = turn]
          = [go[g] EXCEPT !.pc = IF go[g].pc = "fetch" THEN "store" ELSE "storeUpload", !.page = turn]
    BY Typed DEF Local
  <2> QED
    BY <2>1 DEF fetchAppTokens
<1>2. PICK l : l = [go[g] EXCEPT !.pc = stage, !.page = turn]
  OBVIOUS
<1>3. Still /\ Put(g, l)
  BY <1>1, <1>2 DEF fetchAppTokens, Still
<1>4. /\ l \in Local /\ l.pc = stage /\ l.page = turn /\ l.token = go[g].token
      /\ l.cookie = go[g].cookie /\ l.base = go[g].base /\ l.then = go[g].then
      /\ l.tokenOf = go[g].tokenOf /\ l.header = go[g].header /\ l.blanked = go[g].blanked
      /\ l.healed = go[g].healed /\ l.overlap = go[g].overlap /\ l.rejected = go[g].rejected
  <2>1. stage \in Stage
    BY <1>1 DEF Stage
  <2> QED
    BY <1>2, <2>1, Typed, ZenonT(40) DEF Local
<1>5. Good(l, issued, turn)
  BY <1>1, <1>4, Typed DEF Good
<1>6. NotTheRejected'
  <2>1. go' = [go EXCEPT ![g] = l]
    BY <1>1, <1>3, <1>4 DEF Put
  <2>2. go'[g] = l /\ \A h \in Goroutines \ {g} : go'[h] = go[h]
    BY <2>1 DEF IInv, TypeOK
  <2>3. \A h \in Goroutines : go[h].healed => go[h].rejected # turn
    BY Typed DEF Good, Local
  <2>4. Heals(l) => Heals(go[g])
    BY <1>1, <1>4, Typed DEF Good, Heals
  <2> QED
    BY <1>3, <1>4, <2>2, <2>3, <2>4 DEF IInv, NotTheRejected, Heals, Still
<1> QED
  BY <1>3, <1>5, <1>6, LocalStep

LEMMA UseTokenGood ==
    ASSUME NEW l, NEW i, NEW t, Good(l, i, t), t \in Nat, NEW token \in Nat, token <= t,
           NEW m, m = UseToken(l, token)
    PROVE  Good(m, i, t) /\ m.pc \in {"done", "send", "upload"} /\ (m.pc = "send" => m.token = token)
<1>1. PICK stage \in {"done", "send", "upload"} :
        /\ m = [l EXCEPT !.pc = stage, !.page = 0, !.token = token, !.tokenOf = l.cookie,
                         !.header = l.cookie]
        /\ l.healed => stage # "upload"
  <2>1. WithToken(l) \in {"done", "send", "upload"} /\ (l.healed => WithToken(l) # "upload")
    BY DEF WithToken
  <2> QED
    BY <2>1 DEF UseToken
<1>2. m \in Local
  <2>1. l \in Local /\ stage \in Stage /\ 0 \in Nat /\ l.cookie \in Cookie
    BY <1>1 DEF Good, Local, Stage
  <2> QED
    BY <1>1, <2>1, ZenonT(40) DEF Local
<1>3. /\ m.pc = stage /\ m.then = l.then /\ m.tokenOf = m.header
      /\ m.base = l.base /\ m.cookie = l.cookie /\ m.token = token /\ m.page = 0
      /\ m.blanked = l.blanked /\ m.healed = l.healed /\ m.rejected = l.rejected
  BY <1>1 DEF Good, Local
<1> QED
  BY <1>1, <1>2, <1>3 DEF Good

LEMMA TokenHitPreserves ==
    ASSUME IInv, NEW g \in Goroutines, tokenHit(g) PROVE IInv'
<1>1. PICK e \in Hits(go[g].cookie) : Put(g, UseToken(go[g], e.token))
  BY DEF tokenHit
<1>2. PICK l : l = UseToken(go[g], e.token)
  OBVIOUS
<1>3. Still /\ Put(g, l) /\ e \in xsrfCache
  BY <1>1, <1>2 DEF tokenHit, Still, Hits
<1>4. e.token \in Nat /\ e.token <= turn
  BY <1>3 DEF IInv, TypeOK, CachedTurned, Entry
<1>5. Good(l, issued, turn) /\ l.pc \in {"done", "send", "upload"}
  BY <1>2, <1>4, Typed, UseTokenGood
<1>6. NotTheRejected'
  BY <1>3, <1>5, PutElsewhere DEF Still
<1> QED
  BY <1>3, <1>5, <1>6, LocalStep

LEMMA NextAttempt ==
    ASSUME NEW l \in Local, ~Last(l) PROVE l.attempts + 1 \in 0..(RetryAttempts - 1)
<1>1. l.attempts \in 0..(RetryAttempts - 1)
  BY DEF Local
<1> QED
  BY <1>1, RefreshBounds DEF Last

LEMMA FetchFailsPreserves ==
    ASSUME IInv, NEW g \in Goroutines, fetchFails(g) PROVE IInv'
<1>1. go[g].pc = "fetch" /\ Still
  BY DEF fetchFails, At, Still
<1>2. PICK l : /\ Put(g, l)
               /\ \/ l = [go[g] EXCEPT !.pc = "done"]
                  \/ go[g].healed /\ ~Last(go[g]) /\ l = [go[g] EXCEPT !.pc = "send", !.attempts = @ + 1]
                  \/ ~go[g].healed /\ l = [go[g] EXCEPT !.pc = "page", !.rotated = TRUE]
  BY DEF fetchFails, Goto
<1>3. Good(l, issued, turn) /\ l.pc \in {"done", "send", "page"}
  <2>1. CASE l = [go[g] EXCEPT !.pc = "done"]
    <3>1. "done" \in Stage /\ l.pc = "done"
      BY <2>1, Typed DEF Stage, Local
    <3> QED
      BY <1>1, <2>1, <3>1, Typed, GotoGood
  <2>2. CASE go[g].healed /\ ~Last(go[g]) /\ l = [go[g] EXCEPT !.pc = "send", !.attempts = @ + 1]
    <3>0. PICK n \in 0..(RetryAttempts - 1) : l = [go[g] EXCEPT !.pc = "send", !.attempts = n]
      BY <2>2, Typed, NextAttempt DEF Local
    <3>1. /\ l \in Local /\ l.pc = "send" /\ l.then = go[g].then /\ l.tokenOf = go[g].tokenOf
          /\ l.header = go[g].header /\ l.base = go[g].base /\ l.cookie = go[g].cookie
          /\ l.token = go[g].token /\ l.page = go[g].page /\ l.blanked = go[g].blanked
          /\ l.healed = go[g].healed /\ l.rejected = go[g].rejected
      BY <3>0, Typed, ZenonT(40) DEF Local, Stage
    <3> QED
      BY <1>1, <3>1, Typed DEF Good
  <2>3. CASE ~go[g].healed /\ l = [go[g] EXCEPT !.pc = "page", !.rotated = TRUE]
    <3>1. /\ l \in Local /\ l.pc = "page" /\ l.then = go[g].then /\ l.tokenOf = go[g].tokenOf
          /\ l.header = go[g].header /\ l.base = go[g].base /\ l.cookie = go[g].cookie
          /\ l.token = go[g].token /\ l.page = go[g].page /\ l.blanked = go[g].blanked /\ ~l.healed
      BY <2>3, Typed, ZenonT(40) DEF Local, Stage
    <3> QED
      BY <1>1, <3>1, Typed DEF Good
  <2> QED
    BY <1>2, <2>1, <2>2, <2>3
<1>4. NotTheRejected'
  BY <1>1, <1>2, <1>3, PutElsewhere DEF Still
<1> QED
  BY <1>1, <1>2, <1>3, <1>4, LocalStep

\* updateSelect, rotateFails: the goroutine goes on elsewhere with what it has.
LEMMA GotoPreserves ==
    ASSUME IInv, NEW g \in Goroutines, NEW stage \in Stage, Goto(g, stage), Still,
           stage \notin {"token", "fetch", "store", "storeUpload"},
           stage \in {"page", "post", "reread", "upload", "fetchUpload"} => ~go[g].healed,
           stage \in {"select", "update"} => go[g].pc = "select"
    PROVE  IInv'
<1>1. PICK l : l = [go[g] EXCEPT !.pc = stage]
  OBVIOUS
<1>2. Put(g, l) /\ l.pc = stage
  BY <1>1, Typed DEF Goto, Local
<1>3. Good(l, issued, turn)
  BY <1>1, Typed, GotoGood
<1>4. NotTheRejected'
  BY <1>2, PutElsewhere DEF Still
<1> QED
  BY <1>2, <1>3, <1>4, LocalStep

LEMMA UpdateSelectPreserves ==
    ASSUME IInv, NEW g \in Goroutines, updateSelect(g) PROVE IInv'
<1>1. PICK stage : stage \in {"update", go[g].then} /\ Goto(g, stage)
  BY DEF updateSelect
<1>2. go[g].pc = "select" /\ Still
  BY DEF updateSelect, At, Still
<1>3. /\ stage \in Stage
      /\ stage \notin {"token", "fetch", "store", "storeUpload", "upload", "fetchUpload"}
      /\ stage \in {"page", "post", "reread"} => ~go[g].healed
  BY <1>1, <1>2, Typed DEF Good, Stage
<1> QED
  BY <1>1, <1>2, <1>3, GotoPreserves

LEMMA RotateFailsPreserves ==
    ASSUME IInv, NEW g \in Goroutines, rotateFails(g) PROVE IInv'
<1>1. "done" \in Stage /\ Goto(g, "done") /\ Still
  BY DEF rotateFails, Stage, Still
<1> QED
  BY <1>1, GotoPreserves

\* upload, uploadPageFails: no request uploads after its self-healing.
LEMMA UploadPreserves ==
    ASSUME IInv, NEW g \in Goroutines, upload(g) \/ uploadPageFails(g) PROVE IInv'
<1>1. PICK stage \in {"send", "done", "fetchUpload"} : Goto(g, stage) /\ Still
  BY DEF upload, uploadPageFails, Still
<1>2. stage \in Stage /\ ~go[g].healed
  BY Typed DEF Stage, Good, upload, uploadPageFails, At
<1> QED
  BY <1>1, <1>2, GotoPreserves

LEMMA RereadPreserves ==
    ASSUME IInv, NEW g \in Goroutines, reread(g) PROVE IInv'
<1>1. go[g].pc = "reread" /\ Still
  BY DEF reread, At, Still
<1>2. CASE row = NoCookie
  <2>1. Goto(g, "done") /\ "done" \in Stage
    BY <1>2 DEF reread, Stage
  <2> QED
    BY <1>1, <2>1, GotoPreserves
<1>3. CASE row # NoCookie
  <2>1. PICK l : l = [go[g] EXCEPT !.pc = "token", !.cookie = row, !.base = row, !.blanked = {}]
    OBVIOUS
  <2>2. Put(g, l) /\ row \in Cookie
    BY <1>3, <2>1 DEF reread, IInv, TypeOK
  <2>3. /\ l \in Local /\ l.pc = "token" /\ l.then = go[g].then /\ l.tokenOf = go[g].tokenOf
        /\ l.header = go[g].header /\ l.base = row /\ l.cookie = row
        /\ l.token = go[g].token /\ l.page = go[g].page /\ l.healed = go[g].healed
    BY <2>1, <2>2, Typed, ZenonT(40) DEF Local, Stage
  <2>4. ~l.healed
    BY <1>1, <2>3, Typed DEF Good
  <2>5. \A p \in Parts : row.ver[p] \in Nat /\ row.ver[p] <= issued
    BY <1>3, <2>2 DEF IInv, RowIssued, Cookie
  <2>6. Good(l, issued, turn)
    BY <1>1, <2>3, <2>4, <2>5, Typed DEF Good
  <2>7. NotTheRejected'
    <3>1. go' = [go EXCEPT ![g] = l]
      BY <2>2, <2>3 DEF Put
    <3>2. go'[g] = l /\ \A h \in Goroutines \ {g} : go'[h] = go[h]
      BY <3>1 DEF IInv, TypeOK
    <3> QED
      BY <1>1, <2>3, <2>4, <3>2 DEF IInv, NotTheRejected, Heals, Still
  <2> QED
    BY <1>1, <2>2, <2>6, <2>7, LocalStep
<1> QED
  BY <1>2, <1>3

-----------------------------------------------------------------------------
(* Set-Cookie and the write-back *)

LEMMA MergeMovesForward ==
    ASSUME NEW c \in Cookie, NEW sc \in SetCookies, NEW i \in Nat,
           \A p \in Parts : c.ver[p] <= i,
           NEW m, m = mergeSetCookie(c, sc, i + 1)
    PROVE  /\ m \in Cookie
           /\ \A p \in Parts : /\ m.ver[p] \in Nat /\ m.ver[p] <= i + 1
                               /\ sc.new = {} => m.ver[p] <= i
                               /\ p \in sc.new => m.ver[p] = i + 1
                               /\ p \notin sc.new \cup sc.blank => m.ver[p] = c.ver[p]
<1>2. PICK v \in [Parts -> Nat] :
        v = [p \in Parts |-> IF p \in sc.new THEN i + 1 ELSE IF p \in sc.blank THEN 0 ELSE c.ver[p]]
  <2>1. \A p \in Parts : (IF p \in sc.new THEN i + 1 ELSE IF p \in sc.blank THEN 0 ELSE c.ver[p]) \in Nat
    BY DEF Cookie
  <2> QED
    BY <2>1
<1>3. PICK w \in {"own", "foreign"} : m = [who |-> w, ver |-> v]
  BY <1>2 DEF mergeSetCookie, Cookie
<1>4. m \in Cookie /\ m.ver = v
  BY <1>3 DEF Cookie
<1>5. \A p \in Parts : c.ver[p] \in Nat /\ c.ver[p] <= i
  BY DEF Cookie
<1>6. \A p \in Parts : /\ v[p] \in Nat /\ v[p] <= i + 1 /\ (sc.new = {} => v[p] <= i)
                       /\ p \in sc.new => v[p] = i + 1
                       /\ p \notin sc.new \cup sc.blank => v[p] = c.ver[p]
  BY <1>2, <1>5
<1> QED
  BY <1>4, <1>6

\* A merge leaves the other locals alone and the copy ahead of the row it came from, but
\* for what the response emptied.
LEMMA ReceivePreserves ==
    ASSUME IInv, NEW g \in Goroutines, NEW l, NEW sc \in SetCookies, NEW compare, NEW after,
           Good(l, issued, turn), receive(g, l, sc, compare, after),
           after \in {"done", "send", "invalidate", "post", "reread"},
           l.healed => after \notin {"post", "reread"}
    PROVE  IInv'
<1>1. l \in Local /\ l.cookie \in Cookie /\ issued \in Nat /\ turn \in Nat
  BY Typed DEF Good, Local
<1>2. PICK merged : merged = mergeSetCookie(l.cookie, sc, issued + 1)
  OBVIOUS
<1>3. \A p \in Parts : /\ l.base.ver[p] \in Nat /\ l.cookie.ver[p] \in Nat
                       /\ l.base.ver[p] <= issued /\ l.cookie.ver[p] <= issued
                       /\ p \in l.blanked \/ l.base.ver[p] <= l.cookie.ver[p]
  BY <1>1 DEF Good, Local, Cookie
<1>4. /\ merged \in Cookie
      /\ \A p \in Parts : /\ merged.ver[p] \in Nat /\ merged.ver[p] <= issued + 1
                          /\ sc.new = {} => merged.ver[p] <= issued
                          /\ p \in sc.new => merged.ver[p] = issued + 1
                          /\ p \notin sc.new \cup sc.blank => merged.ver[p] = l.cookie.ver[p]
  <2>1. PICK c : c = l.cookie
    OBVIOUS
  <2>2. \A p \in Parts : c.ver[p] <= issued
    BY <1>3, <2>1
  <2>3. merged = mergeSetCookie(c, sc, issued + 1) /\ c \in Cookie /\ issued \in Nat
    BY <1>1, <1>2, <2>1
  <2> HIDE <2>1
  <2>4. /\ merged \in Cookie
        /\ \A p \in Parts : /\ merged.ver[p] \in Nat /\ merged.ver[p] <= issued + 1
                            /\ sc.new = {} => merged.ver[p] <= issued
                            /\ p \in sc.new => merged.ver[p] = issued + 1
                            /\ p \notin sc.new \cup sc.blank => merged.ver[p] = c.ver[p]
    BY <2>2, <2>3, MergeMovesForward
  <2> QED
    BY <2>1, <2>4
<1>5. /\ issued' \in 1..MaxIssues /\ issued <= issued'
      /\ \A p \in Parts : merged.ver[p] <= issued'
  <2>1. CASE sc.new \cup sc.blank = {} /\ ~sc.swap
    <3>1. issued' = issued /\ sc.new = {}
      BY <2>1 DEF receive
    <3> QED
      BY <1>1, <1>4, <3>1 DEF IInv, TypeOK
  <2>2. CASE ~(sc.new \cup sc.blank = {} /\ ~sc.swap)
    <3>1. issued < MaxIssues /\ issued' = issued + 1
      BY <2>2 DEF receive
    <3> QED
      BY <1>1, <1>4, <3>1, RefreshBounds
  <2> QED
    BY <2>1, <2>2
<1>6. PICK stage \in {"select", after} :
        Put(g, [l EXCEPT !.pc = stage, !.then = after, !.cookie = merged,
                         !.blanked = (l.blanked \ sc.new) \cup sc.blank])
  BY <1>2 DEF receive
<1>7. PICK m : m = [l EXCEPT !.pc = stage, !.then = after, !.cookie = merged,
                             !.blanked = (l.blanked \ sc.new) \cup sc.blank]
  OBVIOUS
<1>8. stage \in Stage /\ after \in Stage /\ stage \notin {"token", "fetch", "store", "storeUpload"}
  BY <1>6 DEF Stage
<1>9. /\ m \in Local /\ m.pc = stage /\ m.then = after /\ m.tokenOf = l.tokenOf
      /\ m.header = l.header /\ m.base = l.base /\ m.cookie = merged
      /\ m.blanked = (l.blanked \ sc.new) \cup sc.blank
      /\ m.token = l.token /\ m.page = l.page /\ m.healed = l.healed /\ m.rejected = l.rejected
  <2>1. (l.blanked \ sc.new) \cup sc.blank \in SUBSET Parts
    BY <1>1 DEF SetCookies, Local
  <2> QED
    BY <1>1, <1>4, <1>7, <1>8, <2>1 DEF Local
<1>10. \A p \in Parts : /\ m.base.ver[p] <= issued' /\ m.cookie.ver[p] <= issued'
                        /\ p \in m.blanked \/ m.base.ver[p] <= m.cookie.ver[p]
  <2> TAKE p \in Parts
  <2>1. issued' \in Nat /\ m.base = l.base /\ m.cookie = merged
    BY <1>5, <1>9, RefreshBounds
  <2>2. /\ l.base.ver[p] \in Nat /\ l.base.ver[p] <= issued /\ issued \in Nat
        /\ issued <= issued' /\ merged.ver[p] <= issued'
    BY <1>1, <1>3, <1>5
  <2>3. m.base.ver[p] <= issued' /\ m.cookie.ver[p] <= issued'
    BY <2>1, <2>2
  <2>4. CASE p \in sc.new
    BY <1>1, <1>3, <1>4, <2>1, <2>3, <2>4
  <2>5. CASE p \in sc.blank
    BY <1>9, <2>3, <2>5
  <2>6. CASE p \notin sc.new \cup sc.blank
    BY <1>3, <1>4, <1>9, <2>3, <2>6
  <2> QED
    BY <2>3, <2>4, <2>5, <2>6
<1>11. UNCHANGED <<row, turn, xsrfCache>>
  BY DEF receive
<1>12. Good(m, issued', turn')
  <2>1. turn' = turn /\ stage \in {"select"} \cup {after}
    BY <1>6, <1>11
  <2> QED
    BY <1>9, <1>10, <2>1 DEF Good
<1>13. Put(g, m) /\ m.pc \notin {"token", "fetch", "store", "storeUpload"}
  BY <1>6, <1>7, <1>8, <1>9
<1>14. issued' \in Nat /\ 1 <= issued' /\ turn' \in Nat /\ turn <= turn'
  BY <1>1, <1>5, <1>11, RefreshBounds
<1>15. go' \in [Goroutines -> Local] /\ AllGood'
  BY <1>5, <1>12, <1>13, <1>14, PutGood
<1>16. NotTheRejected'
  BY <1>11, <1>13, PutElsewhere
<1>17. TypeOK' /\ CachedTurned'
  BY <1>5, <1>11, <1>15 DEF IInv, TypeOK, CachedTurned
<1>18. RowIssued'
  <2> SUFFICES ASSUME row # NoCookie, NEW p \in Parts PROVE row.ver[p] <= issued'
    BY <1>11 DEF RowIssued
  <2>1. row.ver[p] \in Nat /\ row.ver[p] <= issued
    BY DEF IInv, TypeOK, RowIssued, Cookie
  <2> QED
    BY <1>1, <1>5, <1>14, <2>1
<1> QED
  BY <1>15, <1>16, <1>17, <1>18 DEF IInv

LEMMA AnsweredPreserves ==
    ASSUME IInv, NEW g \in Goroutines, answered(g) PROVE IInv'
<1>1. PICK sc \in SetCookies : receive(g, go[g], sc, go[g].cookie, "done")
  BY DEF answered
<1>2. go[g].pc = "send"
  BY DEF answered, At
<1> QED
  BY <1>1, <1>2, Typed, ReceivePreserves

LEMMA AttemptFailsPreserves ==
    ASSUME IInv, NEW g \in Goroutines, attemptFails(g) PROVE IInv'
<1>1. go[g].pc = "send"
  BY DEF attemptFails, At
<1>2. CASE Last(go[g])
  <2>1. PICK sc \in SetCookies : receive(g, go[g], sc, go[g].cookie, "done")
    BY <1>2 DEF attemptFails
  <2> QED
    BY <1>1, <2>1, Typed, ReceivePreserves
<1>3. CASE ~Last(go[g])
  <2>1. PICK sc, l :
          /\ sc \in SetCookies /\ l = [go[g] EXCEPT !.attempts = @ + 1]
          /\ receive(g, l, sc, go[g].cookie, "send")
    BY <1>3 DEF attemptFails
  <2>2. PICK n \in 0..(RetryAttempts - 1) : l = [go[g] EXCEPT !.attempts = n]
    BY <1>3, <2>1, Typed, NextAttempt DEF Local
  <2>3. /\ l \in Local /\ l.pc = "send" /\ l.then = go[g].then /\ l.tokenOf = go[g].tokenOf
        /\ l.header = go[g].header /\ l.base = go[g].base /\ l.cookie = go[g].cookie
        /\ l.token = go[g].token /\ l.page = go[g].page /\ l.blanked = go[g].blanked
          /\ l.healed = go[g].healed /\ l.rejected = go[g].rejected
    BY <1>1, <2>2, Typed DEF Local
  <2>4. Good(l, issued, turn)
    BY <1>1, <2>3, Typed DEF Good
  <2> QED
    BY <2>1, <2>3, <2>4, ReceivePreserves
<1> QED
  BY <1>2, <1>3

LEMMA HealPreserves ==
    ASSUME IInv, NEW g \in Goroutines, heal(g) PROVE IInv'
<1>1. go[g].pc = "send" /\ go[g].token # turn /\ ~go[g].healed
  BY DEF heal, At
<1>2. PICK sc, l :
        /\ sc \in SetCookies
        /\ l = [go[g] EXCEPT !.healed = TRUE, !.rejected = go[g].token]
        /\ receive(g, l, sc, go[g].cookie, "invalidate")
  BY DEF heal
<1>3. /\ l \in Local /\ l.pc = "send" /\ l.then = go[g].then /\ l.tokenOf = go[g].tokenOf
      /\ l.header = go[g].header /\ l.base = go[g].base /\ l.cookie = go[g].cookie
      /\ l.token = go[g].token /\ l.page = go[g].page /\ l.blanked = go[g].blanked
      /\ l.rejected = go[g].token
  BY <1>1, <1>2, Typed DEF Local
<1>4. go[g].token \in Nat /\ go[g].token < turn
  BY <1>1, Typed DEF Good, Local
<1>5. Good(l, issued, turn)
  BY <1>1, <1>3, <1>4, Typed DEF Good
<1> QED
  BY <1>2, <1>3, <1>5, ReceivePreserves

LEMMA RotatePagePreserves ==
    ASSUME IInv, NEW g \in Goroutines, rotatePage(g) PROVE IInv'
<1>1. PICK sc, compare : sc \in SetCookies /\ receive(g, go[g], sc, compare, "post")
  BY DEF rotatePage
<1>2. go[g].pc = "page" /\ ~go[g].healed
  BY Typed DEF rotatePage, At, Good
<1> QED
  BY <1>1, <1>2, Typed, ReceivePreserves

LEMMA RotatePostPreserves ==
    ASSUME IInv, NEW g \in Goroutines, rotatePost(g) PROVE IInv'
<1>1. PICK sc \in SetCookies : receive(g, go[g], sc, go[g].base, afterRotation(g))
  BY DEF rotatePost
<1>2. go[g].pc = "post" /\ ~go[g].healed /\ afterRotation(g) \in {"reread", "done"}
  BY Typed DEF rotatePost, At, Good, afterRotation
<1> QED
  BY <1>1, <1>2, Typed, ReceivePreserves

LEMMA UpdateGood ==
    ASSUME NEW l, NEW i, NEW t, Good(l, i, t), i \in Nat, l.pc = "update",
           NEW m, m = [l EXCEPT !.pc = l.then, !.base = l.cookie, !.blanked = {}]
    PROVE  Good(m, i, t) /\ m.pc = l.then
<1>1. /\ m \in Local /\ m.pc = l.then /\ m.then = l.then /\ m.tokenOf = l.tokenOf
      /\ m.header = l.header /\ m.base = l.cookie /\ m.cookie = l.cookie
      /\ m.token = l.token /\ m.page = l.page /\ m.healed = l.healed /\ m.rejected = l.rejected
  BY DEF Good, Local
<1>2. \A p \in Parts : l.cookie.ver[p] \in Nat /\ l.cookie.ver[p] <= i
  BY DEF Good, Local, Cookie
<1> QED
  BY <1>1, <1>2 DEF Good

\* The row is then the copy of a goroutine, which is not ahead of the responses.
LEMMA UpdateAccountCookiePreserves ==
    ASSUME IInv, NEW g \in Goroutines, updateAccountCookie(g) PROVE IInv'
<1>1. PICK l : l = [go[g] EXCEPT !.pc = go[g].then, !.base = go[g].cookie, !.blanked = {}]
  OBVIOUS
<1>2. /\ go[g].pc = "update" /\ Put(g, l)
      /\ row' = (IF row = NoCookie THEN NoCookie ELSE go[g].cookie)
      /\ UNCHANGED <<issued, turn, xsrfCache>>
  BY <1>1 DEF updateAccountCookie, At
<1>3. Good(l, issued, turn) /\ l.pc = go[g].then
  BY <1>1, <1>2, Typed, UpdateGood, ZenonT(40)
<1>4. l.pc \notin {"token", "fetch", "store", "storeUpload"}
  BY <1>3, Typed DEF Good
<1>5. NotTheRejected'
  BY <1>2, <1>4, PutElsewhere
<1>6. go' \in [Goroutines -> Local] /\ AllGood'
  BY <1>2, <1>3, Typed, PutGood
<1>7. go[g].cookie \in Cookie /\ \A p \in Parts : go[g].cookie.ver[p] <= issued
  BY Typed DEF Good, Local
<1>8. TypeOK' /\ CachedTurned' /\ RowIssued'
  BY <1>2, <1>6, <1>7 DEF IInv, TypeOK, CachedTurned, RowIssued
<1> QED
  BY <1>5, <1>6, <1>8 DEF IInv

-----------------------------------------------------------------------------
(* Steps that change the cache *)

\* A fetched token replaces the entry of its cookie.
LEMMA StorePreserves ==
    ASSUME IInv, NEW g \in Goroutines, NEW l, go[g].pc \in {"store", "storeUpload"},
           Put(g, l), Good(l, issued, turn), l.pc \in {"done", "send", "upload"},
           xsrfCache' = Stored(g), UNCHANGED <<row, issued, turn>>
    PROVE  IInv'
<1>1. PICK new : new = [key |-> go[g].cookie, token |-> go[g].page]
  OBVIOUS
<1>2. xsrfCache' = {e \in xsrfCache : e.key # go[g].cookie} \cup {new}
  BY <1>1 DEF Stored
<1>3. go[g].page \in Nat /\ go[g].page <= turn /\ go[g].cookie \in Cookie
  BY Typed DEF Good, Local
<1>4. go' \in [Goroutines -> Local] /\ AllGood'
  BY Typed, PutGood
<1>5. new \in Entry /\ new.key = go[g].cookie /\ new.token = go[g].page
  BY <1>1, <1>3 DEF Entry
<1>6. TypeOK' /\ CachedTurned' /\ RowIssued'
  BY <1>2, <1>3, <1>4, <1>5 DEF IInv, TypeOK, CachedTurned, RowIssued
<1>7. PICK m : go' = [go EXCEPT ![g] = m] /\ m.pc \in {"done", "send", "upload"}
  <2>1. [Start("request") EXCEPT !.pc = "done"].pc = "done"
    BY DEF Start
  <2> QED
    BY <2>1 DEF Put
<1>8. go'[g].pc \in {"done", "send", "upload"} /\ \A h \in Goroutines \ {g} : go'[h] = go[h]
  BY <1>7 DEF IInv, TypeOK
<1>9. NotTheRejected'
  BY <1>2, <1>5, <1>8 DEF IInv, NotTheRejected, Heals
<1> QED
  BY <1>4, <1>6, <1>9 DEF IInv

LEMMA StoreTokenPreserves ==
    ASSUME IInv, NEW g \in Goroutines, storeToken(g) PROVE IInv'
<1>1. PICK l : l = UseToken(go[g], go[g].page)
  OBVIOUS
<1>2. /\ go[g].pc = "store" /\ Put(g, l) /\ UNCHANGED <<row, issued, turn>>
      /\ xsrfCache' = Stored(g)
  BY <1>1 DEF storeToken, At
<1>3. go[g].page \in Nat /\ go[g].page <= turn
  BY Typed DEF Good, Local
<1>4. Good(l, issued, turn) /\ l.pc \in {"done", "send", "upload"}
  BY <1>1, <1>3, Typed, UseTokenGood
<1> QED
  BY <1>2, <1>4, StorePreserves

LEMMA StoreUploadPreserves ==
    ASSUME IInv, NEW g \in Goroutines, storeUpload(g) PROVE IInv'
<1>1. PICK l : l = [go[g] EXCEPT !.pc = "upload", !.page = 0]
  OBVIOUS
<1>2. /\ go[g].pc = "storeUpload" /\ Put(g, l) /\ UNCHANGED <<row, issued, turn>>
      /\ xsrfCache' = Stored(g)
  BY <1>1 DEF storeUpload, At
<1>3. /\ l \in Local /\ l.pc = "upload" /\ l.page = 0 /\ l.token = go[g].token
      /\ l.cookie = go[g].cookie /\ l.base = go[g].base /\ l.then = go[g].then
      /\ l.tokenOf = go[g].tokenOf /\ l.header = go[g].header /\ l.blanked = go[g].blanked
      /\ l.healed = go[g].healed /\ l.rejected = go[g].rejected
  BY <1>1, Typed, ZenonT(40) DEF Local, Stage
<1>4. Good(l, issued, turn)
  BY <1>2, <1>3, Typed DEF Good
<1> QED
  BY <1>2, <1>3, <1>4, StorePreserves

\* After it the cache has no entry of the cookie, and unless another one is fetching,
\* the next one has a token of the moment.
LEMMA InvalidatePreserves ==
    ASSUME IInv, NEW g \in Goroutines, invalidateXSRF(g) PROVE IInv'
<1>1. PICK b \in BOOLEAN : b = (Fetching(g) # {})
  OBVIOUS
<1>2. PICK l : l = [go[g] EXCEPT !.pc = "token", !.overlap = b]
  OBVIOUS
<1>3. /\ go[g].pc = "invalidate" /\ Put(g, l) /\ UNCHANGED <<row, issued, turn>>
      /\ xsrfCache' = xsrfCache \ {e \in xsrfCache : e.key = go[g].cookie}
  BY <1>1, <1>2 DEF invalidateXSRF, At, Dropped, Hits
<1>4. /\ l \in Local /\ l.pc = "token" /\ l.then = go[g].then /\ l.tokenOf = go[g].tokenOf
      /\ l.header = go[g].header /\ l.base = go[g].base /\ l.cookie = go[g].cookie
      /\ l.token = go[g].token /\ l.page = go[g].page /\ l.blanked = go[g].blanked
          /\ l.healed = go[g].healed /\ l.rejected = go[g].rejected
      /\ l.overlap = b
  BY <1>2, Typed, ZenonT(40) DEF Local, Stage
<1>5. Good(l, issued, turn)
  BY <1>3, <1>4, Typed DEF Good
<1>6. go' \in [Goroutines -> Local] /\ AllGood'
  BY <1>3, <1>5, Typed, PutGood
<1>7. TypeOK' /\ CachedTurned' /\ RowIssued'
  BY <1>3, <1>6 DEF IInv, TypeOK, CachedTurned, RowIssued
<1>8. go'[g] = l /\ \A h \in Goroutines \ {g} : go'[h] = go[h]
  <2>1. go' = [go EXCEPT ![g] = l]
    BY <1>3, <1>4 DEF Put
  <2> QED
    BY <2>1 DEF IInv, TypeOK
<1>9. NotTheRejected'
  <2> DEFINE Clear(k) ==
        /\ \A e \in xsrfCache' : e.key = go'[k].cookie => e.token # go'[k].rejected
        /\ \A h \in Goroutines : go'[h].pc \in {"store", "storeUpload"} /\ go'[h].cookie = go'[k].cookie
                                     => go'[h].page # go'[k].rejected
  <2>1. Heals(go'[g]) => Clear(g)
    <3>1. ~b => \A h \in Goroutines \ {g} :
                   ~(go[h].pc \in {"store", "storeUpload"} /\ go[h].cookie = go[g].cookie)
      BY <1>1 DEF Fetching
    <3> QED
      BY <1>3, <1>4, <1>8, <3>1 DEF Heals
  <2>2. ASSUME NEW k \in Goroutines \ {g}, Heals(go'[k]) PROVE Clear(k)
    BY <1>3, <1>4, <1>8, <2>2 DEF IInv, NotTheRejected
  <2> QED
    BY <2>1, <2>2 DEF NotTheRejected
<1> QED
  BY <1>6, <1>7, <1>9 DEF IInv

LEMMA EnvironmentPreserves ==
    ASSUME IInv, accountDelete \/ upstreamTurns \/ entryExpires PROVE IInv'
<1>1. CASE accountDelete
  BY <1>1 DEF accountDelete, IInv, TypeOK, AllGood, RowIssued, CachedTurned, NotTheRejected
<1>2. CASE upstreamTurns
  <2>1. turn' = turn + 1 /\ UNCHANGED <<row, issued, xsrfCache, go>> /\ turn \in Nat /\ issued \in Nat
    BY <1>2, RefreshBounds DEF upstreamTurns, IInv, TypeOK
  <2>2. AllGood'
    BY <2>1, GoodStays DEF IInv, AllGood
  <2>3. CachedTurned'
    BY <2>1 DEF IInv, CachedTurned, TypeOK, Entry
  <2> QED
    BY <2>1, <2>2, <2>3 DEF IInv, TypeOK, RowIssued, NotTheRejected
<1>3. CASE entryExpires
  <2>1. xsrfCache' \subseteq xsrfCache /\ UNCHANGED <<row, issued, turn, go>>
    BY <1>3 DEF entryExpires
  <2> QED
    BY <2>1 DEF IInv, TypeOK, AllGood, RowIssued, CachedTurned, NotTheRejected
<1> QED
  BY <1>1, <1>2, <1>3

-----------------------------------------------------------------------------

LEMMA InitEstablishes == ASSUME Init PROVE IInv
<1>1. \A g \in Goroutines : go[g] = Start("request")
  BY DEF Init
<1>2. issued \in Nat /\ 1 <= issued /\ turn \in Nat
  BY DEF Init
<1>3. \A g \in Goroutines : Good(go[g], issued, turn)
  BY <1>1, <1>2, StartIsGood
<1>4. TypeOK
  BY <1>3, RefreshBounds, FreshIsCookie DEF Init, TypeOK, Good
<1>5. \A g \in Goroutines : go[g].pc = "idle"
  BY <1>1 DEF Start
<1> QED
  BY <1>3, <1>4, <1>5 DEF IInv, AllGood, RowIssued, CachedTurned, NotTheRejected, Heals, Init, Fresh

LEMMA StepPreserves == ASSUME IInv, [Next]_vars PROVE IInv'
<1>1. CASE UNCHANGED vars
  BY <1>1 DEF vars, IInv, TypeOK, AllGood, RowIssued, CachedTurned, NotTheRejected
<1>2. ASSUME NEW g \in Goroutines, Step(g) PROVE IInv'
  BY <1>2, BeginPreserves, TokenHitPreserves, TokenMissPreserves, FetchPreserves,
     StoreTokenPreserves, FetchFailsPreserves, InvalidatePreserves, UpdateSelectPreserves,
     UpdateAccountCookiePreserves, AnsweredPreserves, AttemptFailsPreserves, HealPreserves,
     RotatePagePreserves, RotatePostPreserves, RotateFailsPreserves, RereadPreserves,
     UploadPreserves, StoreUploadPreserves DEF Step
<1> QED
  BY <1>1, <1>2, EnvironmentPreserves DEF Next

LEMMA Invariant == Spec => []IInv
<1>1. Init => IInv
  BY InitEstablishes
<1>2. IInv /\ [Next]_vars => IInv'
  BY StepPreserves
<1> QED
  BY <1>1, <1>2, PTL DEF Spec

-----------------------------------------------------------------------------
(* One goroutine's step *)

\* A step of one goroutine leaves the locals of the others alone.
LEMMA OthersAlone ==
    ASSUME IInv, NEW h \in Goroutines, Step(h), NEW g \in Goroutines \ {h}
    PROVE  go'[g] = go[g]
<1>1. \E l : Put(h, l)
  <2>1. CASE startRequest(h) \/ checkAccountCookie(h) \/ rotateAccount(h)
    BY <2>1 DEF startRequest, checkAccountCookie, rotateAccount, begin
  <2>2. CASE tokenHit(h) \/ tokenMiss(h) \/ fetchAppTokens(h) \/ storeToken(h) \/ invalidateXSRF(h)
    BY <2>2 DEF tokenHit, tokenMiss, fetchAppTokens, storeToken, invalidateXSRF, Goto
  <2>3. CASE fetchFails(h)
    BY <2>3 DEF fetchFails, Goto
  <2>4. CASE updateSelect(h) \/ updateAccountCookie(h) \/ rotateFails(h) \/ reread(h)
    BY <2>4 DEF updateSelect, updateAccountCookie, rotateFails, reread, Goto
  <2>5. CASE answered(h) \/ attemptFails(h) \/ heal(h) \/ rotatePage(h) \/ rotatePost(h)
    BY <2>5 DEF answered, attemptFails, heal, rotatePage, rotatePost, receive
  <2>6. CASE upload(h) \/ storeUpload(h) \/ uploadPageFails(h)
    BY <2>6 DEF upload, storeUpload, uploadPageFails, Goto
  <2> QED
    BY <2>1, <2>2, <2>3, <2>4, <2>5, <2>6 DEF Step
<1> QED
  BY <1>1 DEF Put, IInv, TypeOK

\* What may happen to a goroutine at one of these three places.
LEMMA OwnStep ==
    ASSUME NEW g \in Goroutines, Step(g), go[g].pc \in {"token", "store", "update"}
    PROVE  \/ go[g].pc = "token" /\ (tokenHit(g) \/ tokenMiss(g))
           \/ go[g].pc = "store" /\ storeToken(g)
           \/ go[g].pc = "update" /\ updateAccountCookie(g)
<1>1. /\ ~(startRequest(g) \/ checkAccountCookie(g) \/ rotateAccount(g))
      /\ ~(fetchAppTokens(g) \/ fetchFails(g) \/ invalidateXSRF(g) \/ updateSelect(g))
      /\ ~(answered(g) \/ attemptFails(g) \/ heal(g))
      /\ ~(rotatePage(g) \/ rotatePost(g) \/ rotateFails(g) \/ reread(g))
      /\ ~(upload(g) \/ storeUpload(g) \/ uploadPageFails(g))
  BY DEF startRequest, checkAccountCookie, rotateAccount, begin, fetchAppTokens, fetchFails,
         invalidateXSRF, updateSelect, answered, attemptFails, heal, rotatePage, rotatePost,
         rotateFails, reread, upload, storeUpload, uploadPageFails, At
<1> QED
  BY <1>1 DEF Step, tokenHit, tokenMiss, storeToken, updateAccountCookie, At

\* A goroutine that moves made the step itself.
LEMMA Moved ==
    ASSUME IInv, [Next]_vars, NEW g \in Goroutines, go'[g] # go[g]
    PROVE  Step(g)
  BY OthersAlone DEF Next, vars, accountDelete, upstreamTurns, entryExpires

-----------------------------------------------------------------------------
(* Theorems *)

\* Every reachable state of the account's row, the token cache and the goroutines' locals
\* is well typed, and the cache has one token for a cookie (xsrf.go:25-27).
THEOREM TypeCorrect == Spec => []TypeOK
<1>1. IInv => TypeOK
  BY DEF IInv
<1> QED
  BY Invariant, <1>1, PTL

\* A token goes out with the cookie it was taken for, whatever Set-Cookie headers and
\* rotations did to the cookie in between (xsrf.go:21-22, gemini.go:524).
THEOREM TokensFit == Spec => []TokenFitsHeader
<1>1. IInv => TokenFitsHeader
  BY DEF IInv, AllGood, Good, TokenFitsHeader, At
<1> QED
  BY Invariant, <1>1, PTL

\* The token the self-healing takes is not the refused one, unless another goroutine
\* was fetching a token when the entry was dropped (xsrf.go:22-23, 70-82).
THEOREM HealingHelps == Spec => HealWorks
<1>1. ASSUME IInv, [Next]_vars, NEW g \in Goroutines,
             go[g].pc \in {"token", "store"}, At(g, "send")', go[g].healed, ~go[g].overlap
      PROVE  go'[g].token # go[g].rejected
  <2>1. go'[g] # go[g]
    BY <1>1 DEF At
  <2>2. Step(g)
    BY <1>1, <2>1, Moved
  <2>3. \A l : Put(g, l) => go'[g] = l \/ go'[g].pc = "done"
    <3>1. [Start("request") EXCEPT !.pc = "done"].pc = "done"
      BY DEF Start
    <3> QED
      BY <1>1, <3>1 DEF Put, IInv, TypeOK
  <2>4. CASE tokenHit(g)
    <3>1. PICK e \in Hits(go[g].cookie) : Put(g, UseToken(go[g], e.token))
      BY <2>4 DEF tokenHit
    <3>2. PICK l : l = UseToken(go[g], e.token)
      OBVIOUS
    <3>3. e \in xsrfCache /\ e.key = go[g].cookie
      BY <3>1 DEF Hits
    <3>4. e.token \in Nat /\ e.token <= turn
      BY <1>1, <3>3 DEF IInv, TypeOK, CachedTurned, Entry
    <3>5. l.pc = "send" => l.token = e.token
      BY <1>1, <3>2, <3>4, Typed, UseTokenGood
    <3>6. go'[g].token = e.token
      BY <1>1, <2>3, <3>1, <3>2, <3>5 DEF At
    <3> QED
      BY <1>1, <3>3, <3>6 DEF IInv, NotTheRejected, Heals
  <2>5. CASE storeToken(g)
    <3>1. PICK l : l = UseToken(go[g], go[g].page)
      OBVIOUS
    <3>2. Put(g, l) /\ go[g].pc = "store"
      BY <2>5, <3>1 DEF storeToken, At
    <3>3. go[g].page \in Nat /\ go[g].page <= turn
      BY <1>1, Typed DEF Good, Local
    <3>4. l.pc = "send" => l.token = go[g].page
      BY <1>1, <3>1, <3>3, Typed, UseTokenGood
    <3>5. go'[g].token = go[g].page
      BY <1>1, <2>3, <3>2, <3>4 DEF At
    <3> QED
      BY <1>1, <3>2, <3>5 DEF IInv, NotTheRejected, Heals
  <2>6. CASE tokenMiss(g)
    <3>1. [go[g] EXCEPT !.pc = "fetch"].pc = "fetch"
      BY <1>1, Typed DEF Local
    <3> QED
      BY <1>1, <2>3, <2>6, <3>1 DEF tokenMiss, Goto, At
  <2> QED
    BY <1>1, <2>2, <2>4, <2>5, <2>6, OwnStep
<1>2. IInv /\ [Next]_vars =>
        [\A g \in Goroutines :
            go[g].pc \in {"token", "store"} /\ At(g, "send")' /\ go[g].healed
               => go[g].overlap \/ go'[g].token # go[g].rejected]_vars
  BY <1>1
<1> QED
  BY Invariant, <1>2, PTL DEF Spec, HealWorks

\* A write puts an older value of a cookie item back, or none, only if the writer's copy
\* of the row was out of date or a response emptied the item: merging loses nothing that
\* the upstream did not delete (cookie_pool.go:557-564).
THEOREM MergingLosesNothing == Spec => LostOnlyToStaleCopies
<1>1. ASSUME IInv, [Next]_vars, NEW g \in Goroutines, NEW p \in Parts,
             At(g, "update"), ~At(g, "update")', row # NoCookie, row'.ver[p] < row.ver[p],
             p \notin go[g].blanked
      PROVE  go[g].base # row
  <2>1. Step(g)
    BY <1>1, Moved DEF At
  <2>2. updateAccountCookie(g)
    BY <1>1, <2>1, OwnStep DEF At
  <2>3. row' = go[g].cookie
    BY <1>1, <2>2 DEF updateAccountCookie
  <2>4. /\ go[g].base.ver[p] <= go[g].cookie.ver[p]
        /\ go[g].base.ver[p] \in Nat /\ go[g].cookie.ver[p] \in Nat
    BY <1>1, Typed DEF Good, Local, Cookie
  <2> QED
    BY <1>1, <2>3, <2>4
<1>2. IInv /\ [Next]_vars =>
        [\A g \in Goroutines, p \in Parts :
            At(g, "update") /\ ~At(g, "update")' /\ row # NoCookie /\ row'.ver[p] < row.ver[p]
               => go[g].base # row \/ p \in go[g].blanked]_vars
  BY <1>1
<1> QED
  BY Invariant, <1>2, PTL DEF Spec, LostOnlyToStaleCopies

LEMMA PutOut ==
    ASSUME IInv, NEW g \in Goroutines, NEW l, Put(g, l), l.pc # "update"
    PROVE  go'[g].pc # "update"
<1>1. [Start("request") EXCEPT !.pc = "done"].pc = "done"
  BY DEF Start
<1> QED
  BY <1>1 DEF Put, IInv, TypeOK

\* Only the comparison of the two sessions leads to a write.
LEMMA IntoUpdate ==
    ASSUME IInv, NEW g \in Goroutines, Step(g), go'[g].pc = "update"
    PROVE  updateSelect(g)
<1>1. \A l : Put(g, l) => l.pc = "update"
  BY PutOut
<1>2. \A stage : [go[g] EXCEPT !.pc = stage].pc = stage
  BY Typed DEF Local
<1>3. ASSUME NEW kind \in {"request", "check", "rotation"}, NEW stage \in {"token", "invalidate", "page"},
             begin(g, kind, stage)
      PROVE  FALSE
  <2>1. [Start(kind) EXCEPT !.pc = stage, !.cookie = row, !.base = row].pc = stage
    BY DEF Start
  <2> QED
    BY <1>1, <1>3, <2>1 DEF begin
<1>4. ~(startRequest(g) \/ checkAccountCookie(g) \/ rotateAccount(g))
  BY <1>3 DEF startRequest, checkAccountCookie, rotateAccount
<1>5. ASSUME NEW stage \in {"fetch", "fetchUpload", "send", "done"}, Goto(g, stage) PROVE FALSE
  <2>1. PICK l : l = [go[g] EXCEPT !.pc = stage]
    OBVIOUS
  <2>2. l.pc = stage /\ Put(g, l)
    BY <1>2, <1>5, <2>1 DEF Goto
  <2> QED
    BY <1>1, <2>2
<1>15. ~(tokenMiss(g) \/ rotateFails(g) \/ upload(g) \/ uploadPageFails(g))
  BY <1>5 DEF tokenMiss, rotateFails, upload, uploadPageFails
<1>6. ~(tokenHit(g) \/ storeToken(g))
  <2>1. \A t : UseToken(go[g], t).pc \in {"done", "send", "upload"}
    BY Typed DEF UseToken, WithToken, Local
  <2> QED
    BY <1>1, <2>1 DEF tokenHit, storeToken
<1>7. ~(fetchAppTokens(g) \/ invalidateXSRF(g) \/ storeUpload(g))
  <2>1. [go[g] EXCEPT !.pc = IF @ = "fetch" THEN "store" ELSE "storeUpload", !.page = turn].pc
          \in {"store", "storeUpload"}
    BY Typed DEF Local
  <2>3. [go[g] EXCEPT !.pc = "upload", !.page = 0].pc = "upload"
    BY Typed DEF Local
  <2>2. \A b : [go[g] EXCEPT !.pc = "token", !.overlap = b].pc = "token"
    BY Typed DEF Local
  <2> QED
    BY <1>1, <2>1, <2>2, <2>3 DEF fetchAppTokens, invalidateXSRF, storeUpload
<1>8. ~fetchFails(g)
  <2>1. \A n : [go[g] EXCEPT !.pc = "send", !.attempts = n].pc = "send"
    BY Typed DEF Local
  <2>2. [go[g] EXCEPT !.pc = "page", !.rotated = TRUE].pc = "page"
    BY Typed DEF Local
  <2> QED
    BY <1>1, <1>2, <2>1, <2>2 DEF fetchFails, Goto
<1>9. ~reread(g)
  <2>1. [go[g] EXCEPT !.pc = "token", !.cookie = row, !.base = row, !.blanked = {}].pc = "token"
    BY Typed DEF Local
  <2> QED
    BY <1>1, <1>2, <2>1 DEF reread, Goto
<1>10. ~updateAccountCookie(g)
  <2>1. [go[g] EXCEPT !.pc = go[g].then, !.base = go[g].cookie, !.blanked = {}].pc = go[g].then
    BY Typed DEF Local
  <2>2. go[g].then # "update"
    BY Typed DEF Good
  <2> QED
    BY <1>1, <2>1, <2>2 DEF updateAccountCookie
<1>11. ASSUME NEW l \in Local, NEW sc, NEW compare, NEW after, after # "update",
              receive(g, l, sc, compare, after)
       PROVE  FALSE
  <2>1. PICK stage, c, q :
          /\ stage # "update"
          /\ Put(g, [l EXCEPT !.pc = stage, !.then = after, !.cookie = c, !.blanked = q])
    BY <1>11 DEF receive
  <2>2. PICK m : m = [l EXCEPT !.pc = stage, !.then = after, !.cookie = c, !.blanked = q]
    OBVIOUS
  <2>3. m.pc = stage /\ Put(g, m)
    BY <2>1, <2>2 DEF Local
  <2> QED
    BY <1>1, <2>1, <2>3
<1>12. ~(answered(g) \/ rotatePage(g) \/ rotatePost(g))
  BY <1>11, Typed DEF answered, rotatePage, rotatePost, afterRotation
<1>13. ~attemptFails(g)
  <2>1. ~Last(go[g]) => [go[g] EXCEPT !.attempts = @ + 1] \in Local
    <3>1. \A n \in 0..(RetryAttempts - 1) : [go[g] EXCEPT !.attempts = n] \in Local
      BY Typed DEF Local
    <3> QED
      BY <3>1, Typed, NextAttempt
  <2> QED
    BY <1>11, <2>1, Typed DEF attemptFails
<1>14. ~heal(g)
  <2>1. [go[g] EXCEPT !.healed = TRUE, !.rejected = go[g].token] \in Local
    BY Typed DEF Local
  <2> QED
    BY <1>11, <2>1 DEF heal
<1> QED
  BY <1>4, <1>5, <1>6, <1>7, <1>8, <1>9, <1>10, <1>12, <1>13, <1>14, <1>15 DEF Step

\* What is about to be written is the account's own session, or goes nowhere.
Own == /\ row.who = "own"
       /\ \A g \in Goroutines : go[g].pc = "update" => row = NoCookie \/ go[g].cookie.who = "own"

\* Whatever a response sets and however the writes interleave, the row never holds
\* another account's session, as long as the SELECTs succeed (cookie_pool.go:622-627).
THEOREM SessionsStay == Spec => [](~SelectMayFail => IdentityKept)
<1>1. Init => (~SelectMayFail => Own)
  BY DEF Init, Own, Start, Fresh
<1>2. ASSUME IInv, ~SelectMayFail, Own, [Next]_vars PROVE Own'
  <2>1. CASE UNCHANGED vars \/ upstreamTurns \/ entryExpires
    BY <1>2, <2>1 DEF vars, Own, upstreamTurns, entryExpires
  <2>2. CASE accountDelete
    BY <2>2 DEF accountDelete, Own, NoCookie
  <2>3. ASSUME NEW h \in Goroutines, Step(h) PROVE Own'
    <3>1. /\ row' = row \/ (row # NoCookie /\ row'.who = "own")
          /\ row = NoCookie => row' = NoCookie
          /\ row'.who = "own"
      <4>1. CASE updateAccountCookie(h)
        BY <1>2, <4>1 DEF updateAccountCookie, At, Own
      <4>2. CASE ~updateAccountCookie(h)
        <5>1. row' = row
          BY <2>3, <4>2 DEF Step, startRequest, checkAccountCookie, rotateAccount, begin,
             tokenHit, tokenMiss, fetchAppTokens, storeToken, fetchFails, invalidateXSRF,
             updateSelect, answered, attemptFails, heal, rotatePage, rotatePost, receive,
             rotateFails, reread, upload, storeUpload, uploadPageFails
        <5> QED
          BY <1>2, <5>1 DEF Own
      <4> QED
        BY <4>1, <4>2
    <3>2. ASSUME NEW g \in Goroutines, go'[g].pc = "update"
          PROVE  row' = NoCookie \/ go'[g].cookie.who = "own"
      <4>1. CASE go'[g] = go[g]
        BY <1>2, <3>1, <3>2, <4>1 DEF Own
      <4>2. CASE go'[g] # go[g]
        <5>1. updateSelect(g)
          BY <1>2, <3>2, <4>2, Moved, IntoUpdate
        <5>2. PICK stage, l : /\ Goto(g, stage) /\ row' = row /\ l = [go[g] EXCEPT !.pc = stage]
                              /\ row = NoCookie \/ SameSession(g) \/ stage = go[g].then
          BY <1>2, <5>1 DEF updateSelect
        <5>3. l.pc = stage /\ l.cookie = go[g].cookie /\ Put(g, l)
          BY <1>2, <5>2, Typed DEF Local, Goto
        <5>4. stage = "update" /\ go'[g] = l
          <6>1. stage = "update"
            BY <1>2, <3>2, <5>3, PutOut
          <6>2. go' = [go EXCEPT ![g] = l]
            BY <5>3, <6>1 DEF Put
          <6> QED
            BY <1>2, <6>1, <6>2 DEF IInv, TypeOK
        <5>5. go[g].then # "update"
          BY <1>2, Typed DEF Good
        <5> QED
          BY <1>2, <5>2, <5>3, <5>4, <5>5 DEF Own, SameSession
      <4> QED
        BY <4>1, <4>2
    <3> QED
      BY <3>1, <3>2 DEF Own
  <2> QED
    BY <1>2, <2>1, <2>2, <2>3 DEF Next
<1>3. IInv /\ (~SelectMayFail => Own) /\ [Next]_vars => (~SelectMayFail => Own)'
  BY <1>2
<1>4. Own => IdentityKept
  BY DEF Own, IdentityKept
<1> QED
  BY Invariant, <1>1, <1>3, <1>4, PTL DEF Spec
=============================================================================
