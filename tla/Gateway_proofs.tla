-------------------------- MODULE Gateway_proofs --------------------------
(***************************************************************************)
(* Proofs about Gateway, for finite sets of requests and accounts, every    *)
(* set of proxies, every limit and every setting.                           *)
(***************************************************************************)
EXTENDS Gateway, FiniteSetTheorems, WellFoundedInduction, TLAPS

Early == {"resolve", "pick", "slot", "proxy", "direct"}   \* no exit yet
Trying == {"token", "rotate", "retoken", "blame"}         \* an account is tried
Sending == {"check", "bind", "prepare", "send", "reply", "heal", "giveup"} \* the cookie is chosen

\* The accounts a failure was counted for, and that none of them was counted twice.
Among(blames) == {blames[i] : i \in DOMAIN blames}
Once(blames) == \A i, j \in DOMAIN blames : blames[i] = blames[j] => i = j

\* Only an account that was tried is blamed; the one being tried, and the one the
\* request is sent with, are not blamed yet.
BlameAt(q, stage) ==
    /\ Once(q.blames)
    /\ Among(q.blames) \subseteq q.tried
    /\ stage = "token" => q.acct \notin q.tried
    /\ stage \in Trying \ {"token"} => q.acct \in q.tried /\ q.acct \notin Among(q.blames)
    /\ stage \in Sending =>
         \/ q.cookieID = NoAccount
         \/ q.cookieID \in q.tried /\ q.cookieID \notin Among(q.blames)

\* Every send but the one under way has used up an attempt or the healing, and
\* nothing of an answer is seen before one is there.
SendsAt(q, stage) ==
    /\ stage \notin {"send", "reply", "heal", "giveup", "release", "done"} =>
         q.sends = 0 /\ q.attempt = 0 /\ q.healed = FALSE
    /\ stage = "send" => q.sends <= q.attempt + (IF q.healed THEN 1 ELSE 0)
    /\ stage = "reply" => q.sends > 0 /\ q.sends <= q.attempt + (IF q.healed THEN 2 ELSE 1)
    /\ stage = "heal" => q.sends > 0 /\ q.sends <= q.attempt + 1 /\ q.healed
    /\ q.emitted => stage \in {"reply", "giveup", "release", "done"}
    /\ q.ok => stage \in {"release", "done"}

\* What the locals q of a request say when it is at a stage.
LocalAt(q, stage, anon) ==
    /\ stage \in Early => /\ q.exit = NoExit
                          /\ q.cookie = NoAccount /\ q.cookieID = NoAccount
                          /\ q.tried = {}
    /\ stage \notin Early \cup {"done"} => q.exit \in Exits
    /\ stage \in Trying => q.acct \in Accounts
    /\ stage \in Trying \cup {"repick", "nocookie"} => q.cookie = NoAccount
    /\ stage \in Trying \ {"token"} => q.cookieID = q.acct
    /\ q.sends > 0 => stage \in Sending \cup {"release", "done"}
    /\ stage \in Sending \/ q.sends > 0 =>
         /\ q.cookieID = q.cookie
         /\ q.tried # {} => anon \/ q.cookie # NoAccount
    /\ BlameAt(q, stage)
    /\ SendsAt(q, stage)

LocalOK(q, anon) == LocalAt(q, q.pc, anon)

LocalsOK == \A r \in Requests : LocalOK(req[r], settings.FallbackAnon)

\* A request occupies a place of exit e.
Uses(q, e) == q.exit = e /\ q.pc # "done"
Users(e) == {r \in Requests : Uses(req[r], e)}
SlotsCounted == \A e \in Exits : inflight[e] = Cardinality(Users(e))

IInv == TypeOK /\ LocalsOK /\ SlotsCounted

-----------------------------------------------------------------------------
(* Lemmas *)

LEMMA UsersFinite == ASSUME NEW e PROVE IsFiniteSet(Users(e))
<1>1. Users(e) \in SUBSET Requests
  BY DEF Users
<1> QED
  BY <1>1, RequestsFinite, FS_Subset

\* Everything but the locals of one request stays well typed.
SharedTyped ==
    /\ account \in [Accounts -> Account]
    /\ listed \in SUBSET Proxies
    /\ usable \in SUBSET listed
    /\ inflight \in [Exits -> Nat]
    /\ changes \in Nat
    /\ settings \in Switches

\* Request r gets the locals q and the rest keeps its types.
Replace(r, q) ==
    /\ req' = [req EXCEPT ![r] = q]
    /\ SharedTyped'
    /\ settings' = settings

LEMMA ReplaceKeepsLocals ==
    ASSUME IInv, NEW r \in Requests, NEW q \in Request,
           LocalOK(q, settings.FallbackAnon), Replace(r, q)
    PROVE  /\ TypeOK'
           /\ LocalsOK'
           /\ req'[r] = q
           /\ \A x \in Requests \ {r} : req'[x] = req[x]
<1>1. req \in [Requests -> Request]
  BY DEF IInv, TypeOK
<1>2. /\ req' \in [Requests -> Request]
      /\ req'[r] = q
      /\ \A x \in Requests \ {r} : req'[x] = req[x]
  BY <1>1 DEF Replace
<1>3. LocalsOK'
  BY <1>2 DEF IInv, LocalsOK, Replace
<1>4. TypeOK'
  BY <1>2 DEF TypeOK, Replace, SharedTyped
<1> QED
  BY <1>2, <1>3, <1>4

\* A step that does not change which exit the request occupies.
LEMMA SameExit ==
    ASSUME IInv, NEW r \in Requests, NEW q \in Request,
           LocalOK(q, settings.FallbackAnon), Replace(r, q),
           \A e \in Exits : Uses(q, e) <=> Uses(req[r], e),
           inflight' = inflight
    PROVE  IInv'
<1>1. /\ TypeOK' /\ LocalsOK' /\ req'[r] = q
      /\ \A x \in Requests \ {r} : req'[x] = req[x]
  BY ReplaceKeepsLocals
<1>2. ASSUME NEW e \in Exits PROVE Users(e)' = Users(e)
  BY <1>1 DEF Users
<1>3. SlotsCounted'
  BY <1>2 DEF IInv, SlotsCounted
<1> QED
  BY <1>1, <1>3 DEF IInv

\* A request that had no exit takes one.
LEMMA TakesExit ==
    ASSUME IInv, NEW r \in Requests, NEW q \in Request, NEW e \in Exits,
           LocalOK(q, settings.FallbackAnon), Replace(r, q),
           req[r].exit = NoExit, q.exit = e, q.pc # "done",
           Occupy(e)
    PROVE  IInv'
<1>1. /\ TypeOK' /\ LocalsOK' /\ req'[r] = q
      /\ \A x \in Requests \ {r} : req'[x] = req[x]
  BY ReplaceKeepsLocals
<1>2. ASSUME NEW x \in Exits PROVE inflight'[x] = Cardinality(Users(x)')
  <2>0. /\ inflight \in [Exits -> Nat] /\ inflight[x] = Cardinality(Users(x))
        /\ IsFiniteSet(Users(x))
    BY UsersFinite DEF IInv, TypeOK, SlotsCounted
  <2>1. r \notin Users(x)
    BY ExitsDistinct DEF Users, Uses, Exits
  <2>2. CASE x = e
    <3>1. Users(x)' = Users(x) \cup {r}
      BY <1>1, <2>2 DEF Users, Uses
    <3>2. inflight'[x] = inflight[x] + 1
      BY <2>0, <2>2 DEF Occupy
    <3> QED
      BY <2>0, <2>1, <3>1, <3>2, FS_AddElement, ZenonT(40)
  <2>3. CASE x # e
    <3>1. Users(x)' = Users(x)
      BY <1>1, <2>1, <2>3 DEF Users, Uses
    <3>2. inflight'[x] = inflight[x]
      BY <2>0, <2>3 DEF Occupy
    <3> QED
      BY <2>0, <3>1, <3>2
  <2> QED
    BY <2>2, <2>3
<1> QED
  BY <1>1, <1>2 DEF IInv, SlotsCounted

\* A record with a new stage is typed like the record.
LEMMA StageTyped ==
    ASSUME NEW q \in Request, NEW stage \in Stage
    PROVE  /\ [q EXCEPT !.pc = stage] \in Request
           /\ [q EXCEPT !.pc = stage].pc = stage
  BY DEF Request

LEMMA StageKeepsFields ==
    ASSUME NEW q \in Request, NEW stage \in Stage, NEW anon
    PROVE  LET n == [q EXCEPT !.pc = stage] IN
           /\ LocalOK(n, anon) <=> LocalAt(q, stage, anon)
           /\ n.exit = q.exit
  BY DEF LocalOK, LocalAt, BlameAt, SendsAt, Request

\* What is known of request r.
LEMMA ReqFacts ==
    ASSUME IInv, NEW r \in Requests
    PROVE  /\ req[r] \in Request
           /\ LocalAt(req[r], req[r].pc, settings.FallbackAnon)
  BY DEF IInv, TypeOK, LocalsOK, LocalOK

\* A step of request r that keeps its exit, or ends it before it has one.
LEMMA Moves ==
    ASSUME IInv, NEW r \in Requests, NEW new \in Request, NEW stage \in Stage,
           Go(r, new, stage),
           account' \in [Accounts -> Account],
           UNCHANGED <<listed, usable, inflight, changes, settings>>,
           LocalAt(new, stage, settings.FallbackAnon),
           new.exit = req[r].exit,
           \/ stage = "done" /\ new.exit = NoExit
           \/ stage # "done" /\ req[r].pc # "done"
    PROVE  IInv'
<1> DEFINE n == [new EXCEPT !.pc = stage]
<1>1. n \in Request /\ n.pc = stage /\ n.exit = new.exit /\ LocalOK(n, settings.FallbackAnon)
  BY StageTyped, StageKeepsFields
<1>2. Replace(r, n)
  BY DEF Replace, Go, SharedTyped, IInv, TypeOK
<1>3. \A e \in Exits : Uses(n, e) <=> Uses(req[r], e)
  BY <1>1, ExitsDistinct DEF Uses, Exits
<1> QED
  BY <1>1, <1>2, <1>3, SameExit

\* A step of request r that takes exit e.
LEMMA Enters ==
    ASSUME IInv, NEW r \in Requests, NEW e \in Exits, Leave(r, e),
           req[r].pc \in Early,
           UNCHANGED <<account, listed, usable, changes, settings>>
    PROVE  IInv'
<1> DEFINE new == [req[r] EXCEPT !.exit = e]
<1>1. PICK stage \in {"prepare", "token"} :
        /\ stage = IF req[r].acct = NoAccount THEN "prepare" ELSE "token"
        /\ Go(r, new, stage)
  BY DEF Leave
<1>2. stage \in Stage /\ stage # "done"
  BY DEF Stage
<1>3. /\ req[r] \in Request
      /\ req[r].exit = NoExit
      /\ req[r].cookie = NoAccount /\ req[r].cookieID = NoAccount /\ req[r].tried = {}
      /\ req[r].acct \in Accounts \cup {NoAccount}
      /\ BlameAt(req[r], req[r].pc) /\ SendsAt(req[r], req[r].pc)
  BY ReqFacts DEF LocalAt, Early, Request, AccountOrNone
<1>4. /\ new \in Request /\ new.exit = e /\ new.acct = req[r].acct
      /\ new.cookie = NoAccount /\ new.cookieID = NoAccount /\ new.tried = {}
      /\ new.blames = req[r].blames /\ new.sends = req[r].sends
      /\ new.attempt = req[r].attempt /\ new.healed = req[r].healed
      /\ new.emitted = req[r].emitted /\ new.ok = req[r].ok
  BY <1>3 DEF Request
<1>5. LocalAt(new, stage, settings.FallbackAnon)
  BY <1>1, <1>3, <1>4 DEF LocalAt, BlameAt, SendsAt, Early, Trying, Sending
<1> DEFINE n == [new EXCEPT !.pc = stage]
<1>6. n \in Request /\ n.pc = stage /\ n.exit = e /\ LocalOK(n, settings.FallbackAnon)
  BY <1>2, <1>4, <1>5, StageTyped, StageKeepsFields
<1>7. Occupy(e) /\ inflight' \in [Exits -> Nat]
  BY DEF Leave, Occupy, IInv, TypeOK
<1>8. Replace(r, n)
  BY <1>1, <1>7 DEF Replace, Go, SharedTyped, IInv, TypeOK
<1> QED
  BY <1>2, <1>3, <1>6, <1>7, <1>8, TakesExit

LEMMA HealthTyped ==
    ASSUME NEW acc \in Account
    PROVE  AfterSuccess(acc) \in Account /\ AfterFailure(acc) \in Account
<1>1. acc.fails \in Nat /\ acc.enabled \in BOOLEAN
  BY DEF Account
<1>2. AfterSuccess(acc) \in Account
  BY DEF AfterSuccess, Account
<1>3. ASSUME NEW n \in Nat, NEW b \in BOOLEAN
      PROVE  [acc EXCEPT !.fails = n, !.enabled = b] \in Account
  BY DEF Account
<1>4. PICK b \in BOOLEAN : b = IF acc.fails + 1 >= MaxAuthFailures THEN FALSE ELSE acc.enabled
  BY <1>1
<1>5. AfterFailure(acc) = [acc EXCEPT !.fails = acc.fails + 1, !.enabled = b]
  BY <1>4 DEF AfterFailure, Account
<1>6. acc.fails + 1 \in Nat
  BY <1>1
<1>7. [acc EXCEPT !.fails = acc.fails + 1, !.enabled = b] \in Account
  BY <1>3, <1>6
<1> QED
  BY <1>2, <1>5, <1>7, Zenon

LEMMA BlamedTyped ==
    ASSUME NEW q \in Request, NEW a \in Accounts
    PROVE  Blamed(q, a) \in Request
<1>1. q.blames \in Seq(Accounts)
  BY DEF Request
<1>2. Append(q.blames, a) \in Seq(Accounts)
  BY <1>1
<1>3. Blamed(q, a) = [q EXCEPT !.blames = Append(q.blames, a)]
  BY DEF Blamed
<1>4. ASSUME NEW s \in Seq(Accounts) PROVE [q EXCEPT !.blames = s] \in Request
  BY DEF Request
<1> QED
  BY <1>2, <1>3, <1>4

-----------------------------------------------------------------------------
(* The invariant is inductive: one lemma per action *)

LEMMA InitEstablishes == Init => IInv
<1> SUFFICES ASSUME Init PROVE IInv
  OBVIOUS
<1>1. Start \in Request
  <2>1. <<>> \in Seq(Accounts)
    OBVIOUS
  <2> QED
    BY <2>1 DEF Start, Request, Stage, Cause, AccountOrNone, Exits
<1>2. account \in [Accounts -> Account]
  BY StartIsPossible DEF Init, Account, Exits
<1>3. TypeOK
  BY <1>1, <1>2, StartIsPossible, SettingsAreSwitches DEF Init, TypeOK
<1>4. LocalsOK
  BY DEF Init, LocalsOK, LocalOK, LocalAt, BlameAt, SendsAt, Once, Among, Start, Early, Trying, Sending
<1>5. SlotsCounted
  <2> SUFFICES ASSUME NEW e \in Exits PROVE inflight[e] = Cardinality(Users(e))
    BY DEF SlotsCounted
  <2>1. Users(e) = {}
    BY ExitsDistinct DEF Init, Start, Users, Uses, Exits
  <2> QED
    BY <2>1, FS_EmptySet DEF Init
<1> QED
  BY <1>3, <1>4, <1>5 DEF IInv

LEMMA resolveModelPreserves ==
    ASSUME IInv, NEW r \in Requests, NEW login \in BOOLEAN, resolveModel(r, login)
    PROVE  IInv'
<1>1. req[r] \in Request /\ LocalAt(req[r], "resolve", settings.FallbackAnon)
  BY ReqFacts DEF resolveModel, At
<1>2. account' \in [Accounts -> Account] /\ req[r].pc = "resolve"
  BY DEF resolveModel, At, IInv, TypeOK
<1>3. CASE login /\ Enabled = {}
  <2>1. Go(r, req[r], "done")
    BY <1>3 DEF resolveModel
  <2>2. LocalAt(req[r], "done", settings.FallbackAnon) /\ req[r].exit = NoExit
    BY <1>1 DEF LocalAt, BlameAt, SendsAt, Early, Sending, Trying
  <2> QED
    BY <1>1, <1>2, <2>1, <2>2, Moves DEF Stage, resolveModel
<1>4. CASE ~(login /\ Enabled = {})
  <2>1. Go(r, req[r], "pick")
    BY <1>4 DEF resolveModel
  <2>2. LocalAt(req[r], "pick", settings.FallbackAnon)
    BY <1>1 DEF LocalAt, BlameAt, SendsAt, Early, Sending, Trying
  <2> QED
    BY <1>1, <1>2, <2>1, <2>2, Moves DEF Stage, resolveModel
<1> QED
  BY <1>3, <1>4

\* PickAccount moves request r on with another account, or with none.
Picked(r, stage, otherwise) ==
    \E a \in AccountOrNone, e \in Exits, to \in {stage, otherwise} :
        /\ a = NoAccount => to = otherwise
        /\ a \notin req[r].tried
        /\ Go(r, [req[r] EXCEPT !.acct = a, !.seen = e], to)

LEMMA PickCases ==
    ASSUME IInv, NEW r \in Requests, NEW stage, NEW otherwise,
           PickAccount(r, req[r], stage, otherwise)
    PROVE  Picked(r, stage, otherwise)
<1>1. req[r] \in Request /\ req[r].seen \in Exits /\ NoAccount \notin req[r].tried
  BY ReqFacts, ValidAreAccounts DEF Request
<1>2. ASSUME NEW a \in Candidates(req[r].tried),
             Go(r, [req[r] EXCEPT !.acct = a, !.seen = account[a].bound], stage)
      PROVE  a \in Accounts \ req[r].tried /\ account[a].bound \in Exits
  BY DEF Candidates, Enabled, IInv, TypeOK, Account
<1>3. ASSUME Go(r, [req[r] EXCEPT !.acct = NoAccount], otherwise)
      PROVE  Go(r, [req[r] EXCEPT !.acct = NoAccount, !.seen = req[r].seen], otherwise)
  <2>1. [req[r] EXCEPT !.acct = NoAccount] = [req[r] EXCEPT !.acct = NoAccount, !.seen = req[r].seen]
    BY <1>1 DEF Request
  <2> QED
    BY <1>3, <2>1
<1> QED
  BY <1>1, <1>2, <1>3, ValidAreAccounts DEF PickAccount, Picked, AccountOrNone

LEMMA pickCookieAccountPreserves ==
    ASSUME IInv, NEW r \in Requests, pickCookieAccount(r) PROVE IInv'
<1>1. req[r] \in Request /\ LocalAt(req[r], "pick", settings.FallbackAnon)
  BY ReqFacts DEF pickCookieAccount, At
<1>2. account' \in [Accounts -> Account] /\ req[r].pc = "pick"
  BY DEF pickCookieAccount, At, IInv, TypeOK
<1>3. PICK a \in AccountOrNone, e \in Exits :
        Go(r, [req[r] EXCEPT !.acct = a, !.seen = e], "slot")
  <2>1. PickAccount(r, req[r], "slot", "slot")
    BY DEF pickCookieAccount
  <2>2. Picked(r, "slot", "slot")
    BY <2>1, PickCases
  <2> QED
    BY <2>2 DEF Picked
<1> DEFINE new == [req[r] EXCEPT !.acct = a, !.seen = e]
<1>4. /\ new \in Request /\ new.exit = req[r].exit
      /\ LocalAt(new, "slot", settings.FallbackAnon)
  BY <1>1 DEF LocalAt, BlameAt, SendsAt, Early, Sending, Trying, Request
<1> QED
  BY <1>2, <1>3, <1>4, Moves DEF Stage, pickCookieAccount

LEMMA acquireSlotPreserves ==
    ASSUME IInv, NEW r \in Requests, acquireSlot(r) PROVE IInv'
<1>1. req[r] \in Request /\ LocalAt(req[r], "slot", settings.FallbackAnon)
  BY ReqFacts DEF acquireSlot, At
<1>2. account' \in [Accounts -> Account] /\ req[r].pc = "slot"
  BY DEF acquireSlot, At, IInv, TypeOK
<1>3. PICK to \in {"proxy", "direct"} : Go(r, req[r], to)
  BY DEF acquireSlot
<1>4. LocalAt(req[r], to, settings.FallbackAnon)
  BY <1>1 DEF LocalAt, BlameAt, SendsAt, Early, Sending, Trying
<1> QED
  BY <1>1, <1>2, <1>3, <1>4, Moves DEF Stage, acquireSlot

LEMMA pickProxyPreferringPreserves ==
    ASSUME IInv, NEW r \in Requests, pickProxyPreferring(r) PROVE IInv'
<1>1. req[r] \in Request /\ LocalAt(req[r], "proxy", settings.FallbackAnon)
  BY ReqFacts DEF pickProxyPreferring, At
<1>2. account' \in [Accounts -> Account] /\ req[r].pc = "proxy"
  BY DEF pickProxyPreferring, At, IInv, TypeOK
<1>3. ASSUME NEW p \in usable, Leave(r, p) PROVE IInv'
  <2>1. p \in Exits
    BY DEF IInv, TypeOK, Exits
  <2> QED
    BY <1>2, <1>3, <2>1, Enters DEF pickProxyPreferring, Early
<1>4. ASSUME NEW to \in {"direct", "done"}, Go(r, req[r], to), UNCHANGED inflight PROVE IInv'
  <2>1. LocalAt(req[r], to, settings.FallbackAnon) /\ req[r].exit = NoExit
    BY <1>1 DEF LocalAt, BlameAt, SendsAt, Early, Sending, Trying
  <2> QED
    BY <1>1, <1>2, <1>4, <2>1, Moves DEF Stage, pickProxyPreferring
<1> QED
  BY <1>3, <1>4 DEF pickProxyPreferring

LEMMA acquireDirectPreserves ==
    ASSUME IInv, NEW r \in Requests, acquireDirect(r) PROVE IInv'
<1>1. req[r] \in Request /\ LocalAt(req[r], "direct", settings.FallbackAnon)
  BY ReqFacts DEF acquireDirect, At
<1>2. account' \in [Accounts -> Account] /\ req[r].pc = "direct"
  BY DEF acquireDirect, At, IInv, TypeOK
<1>3. CASE Leave(r, Direct)
  BY <1>2, <1>3, Enters DEF acquireDirect, Early, Exits
<1>4. CASE Go(r, req[r], "done") /\ UNCHANGED inflight
  <2>1. LocalAt(req[r], "done", settings.FallbackAnon) /\ req[r].exit = NoExit
    BY <1>1 DEF LocalAt, BlameAt, SendsAt, Early, Sending, Trying
  <2> QED
    BY <1>1, <1>2, <1>4, <2>1, Moves DEF Stage, acquireDirect
<1> QED
  BY <1>3, <1>4 DEF acquireDirect

\* An account whose token works serves the request.
LEMMA TokenWorksMoves ==
    ASSUME IInv, NEW r \in Requests, NEW q \in Request, TokenWorks(r, q),
           LocalAt(q, "rotate", settings.FallbackAnon), q.exit = req[r].exit, req[r].pc # "done",
           UNCHANGED <<account, listed, usable, inflight, changes, settings>>
    PROVE  IInv'
<1> DEFINE new == [q EXCEPT !.cookie = q.acct]
<1>1. PICK stage \in {"check", "bind"} : Go(r, new, stage)
  BY DEF TokenWorks
<1>2. /\ new \in Request /\ new.exit = req[r].exit
      /\ LocalAt(new, stage, settings.FallbackAnon)
  BY ValidAreAccounts DEF LocalAt, BlameAt, SendsAt, Early, Sending, Trying, Request, AccountOrNone
<1> QED
  BY <1>1, <1>2, Moves DEF IInv, TypeOK, Stage

LEMMA getXSRFPreserves ==
    ASSUME IInv, NEW r \in Requests, getXSRF(r) PROVE IInv'
<1>1. req[r] \in Request /\ LocalAt(req[r], "token", settings.FallbackAnon)
  BY ReqFacts DEF getXSRF, At
<1>2. account \in [Accounts -> Account] /\ req[r].pc = "token"
  BY DEF getXSRF, At, IInv, TypeOK
<1> DEFINE q == [req[r] EXCEPT !.tried = @ \cup {req[r].acct}, !.cookieID = req[r].acct]
<1>3. /\ req[r].acct \in Accounts /\ req[r].exit \in Exits /\ ~(req[r].sends > 0)
      /\ req[r].cookie = NoAccount
      /\ BlameAt(req[r], "token") /\ SendsAt(req[r], "token")
  BY <1>1 DEF LocalAt, Early, Sending, Trying
<1>4. /\ q \in Request /\ q.acct = req[r].acct /\ q.cookieID = req[r].acct
      /\ q.exit = req[r].exit /\ q.sends = req[r].sends /\ q.cookie = req[r].cookie
      /\ q.tried = req[r].tried \cup {req[r].acct} /\ q.blames = req[r].blames
      /\ q.attempt = req[r].attempt /\ q.healed = req[r].healed
      /\ q.emitted = req[r].emitted /\ q.ok = req[r].ok
  BY <1>1, <1>3 DEF Request, AccountOrNone
<1>5. LocalAt(q, "rotate", settings.FallbackAnon)
  <2>1. BlameAt(q, "rotate") /\ SendsAt(q, "rotate")
    BY <1>3, <1>4 DEF BlameAt, SendsAt, Sending, Trying
  <2> QED
    BY <1>3, <1>4, <2>1 DEF LocalAt, Early, Sending, Trying
<1>6. CASE TokenWorks(r, q)
  BY <1>2, <1>4, <1>5, <1>6, TokenWorksMoves DEF getXSRF
<1>7. CASE Go(r, q, "rotate")
  BY <1>2, <1>4, <1>5, <1>7, Moves DEF getXSRF, Stage
<1> QED
  BY <1>6, <1>7 DEF getXSRF

LEMMA rotateAccountPreserves ==
    ASSUME IInv, NEW r \in Requests, rotateAccount(r) PROVE IInv'
<1>1. req[r] \in Request /\ LocalAt(req[r], "rotate", settings.FallbackAnon)
  BY ReqFacts DEF rotateAccount, At
<1>2. account \in [Accounts -> Account] /\ req[r].pc = "rotate"
  BY DEF rotateAccount, At, IInv, TypeOK
<1> DEFINE new == [req[r] EXCEPT !.seen = account[req[r].acct].bound]
<1>3. req[r].acct \in Accounts /\ account[req[r].acct].bound \in Exits
  BY <1>1, <1>2 DEF LocalAt, BlameAt, SendsAt, Early, Sending, Trying, Account
<1>4. CASE Go(r, new, "retoken")
  <2>1. /\ new \in Request /\ new.exit = req[r].exit
        /\ LocalAt(new, "retoken", settings.FallbackAnon)
    BY <1>1, <1>3 DEF LocalAt, BlameAt, SendsAt, Early, Sending, Trying, Request
  <2> QED
    BY <1>2, <1>4, <2>1, Moves DEF rotateAccount, Stage
<1>5. CASE Go(r, req[r], "blame")
  <2>1. LocalAt(req[r], "blame", settings.FallbackAnon)
    BY <1>1 DEF LocalAt, BlameAt, SendsAt, Early, Sending, Trying
  <2> QED
    BY <1>1, <1>2, <1>5, <2>1, Moves DEF rotateAccount, Stage
<1> QED
  BY <1>4, <1>5 DEF rotateAccount

LEMMA getXSRFAgainPreserves ==
    ASSUME IInv, NEW r \in Requests, getXSRFAgain(r) PROVE IInv'
<1>1. req[r] \in Request /\ LocalAt(req[r], "retoken", settings.FallbackAnon)
  BY ReqFacts DEF getXSRFAgain, At
<1>2. account \in [Accounts -> Account] /\ req[r].pc = "retoken"
  BY DEF getXSRFAgain, At, IInv, TypeOK
<1>3. LocalAt(req[r], "rotate", settings.FallbackAnon)
  BY <1>1 DEF LocalAt, BlameAt, SendsAt, Early, Sending, Trying
<1>4. CASE TokenWorks(r, req[r])
  BY <1>1, <1>2, <1>3, <1>4, TokenWorksMoves DEF getXSRFAgain
<1>5. CASE Go(r, req[r], "blame")
  <2>1. LocalAt(req[r], "blame", settings.FallbackAnon)
    BY <1>1 DEF LocalAt, BlameAt, SendsAt, Early, Sending, Trying
  <2> QED
    BY <1>1, <1>2, <1>5, <2>1, Moves DEF getXSRFAgain, Stage
<1> QED
  BY <1>4, <1>5 DEF getXSRFAgain

LEMMA proxyUsableByIDPreserves ==
    ASSUME IInv, NEW r \in Requests, proxyUsableByID(r) PROVE IInv'
<1>1. req[r] \in Request /\ LocalAt(req[r], "check", settings.FallbackAnon)
  BY ReqFacts DEF proxyUsableByID, At
<1>2. account' \in [Accounts -> Account] /\ req[r].pc = "check"
  BY DEF proxyUsableByID, At, IInv, TypeOK
<1>3. PICK stage \in {"prepare", "bind"} : Go(r, req[r], stage)
  BY DEF proxyUsableByID
<1>4. LocalAt(req[r], stage, settings.FallbackAnon)
  BY <1>1 DEF LocalAt, BlameAt, SendsAt, Early, Sending, Trying
<1> QED
  BY <1>1, <1>2, <1>3, <1>4, Moves DEF proxyUsableByID, Stage

LEMMA bindAccountProxyPreserves ==
    ASSUME IInv, NEW r \in Requests, bindAccountProxy(r) PROVE IInv'
<1>1. req[r] \in Request /\ LocalAt(req[r], "bind", settings.FallbackAnon)
  BY ReqFacts DEF bindAccountProxy, At
<1>2. account \in [Accounts -> Account] /\ req[r].pc = "bind"
  BY DEF bindAccountProxy, At, IInv, TypeOK
<1>3. req[r].exit \in Exits
  BY <1>1 DEF LocalAt, Early
<1>4. \A a \in Accounts : [account[a] EXCEPT !.bound = req[r].exit] \in Account
  BY <1>2, <1>3 DEF Account
<1>5. account' \in [Accounts -> Account]
  BY <1>2, <1>4 DEF bindAccountProxy
<1>6. LocalAt(req[r], "prepare", settings.FallbackAnon)
  BY <1>1 DEF LocalAt, BlameAt, SendsAt, Early, Sending, Trying
<1> QED
  BY <1>1, <1>2, <1>5, <1>6, Moves DEF bindAccountProxy, Stage

\* One more failure, of an account that had none.
LEMMA BlamesOneMore ==
    ASSUME NEW blames \in Seq(Accounts), NEW a \in Accounts, Once(blames), a \notin Among(blames)
    PROVE  /\ Once(Append(blames, a))
           /\ Among(Append(blames, a)) = Among(blames) \cup {a}
<1> DEFINE more == Append(blames, a)
<1>1. PICK n \in Nat : n = Len(blames)
  OBVIOUS
<1>2. /\ DOMAIN blames = 1..n /\ DOMAIN more = 1..n+1
      /\ \A i \in 1..n : more[i] = blames[i]
      /\ more[n + 1] = a
  BY <1>1
<1>3. 1..n+1 = (1..n) \cup {n + 1} /\ n + 1 \notin 1..n
  OBVIOUS
<1>4. Among(more) = Among(blames) \cup {a}
  BY <1>2, <1>3 DEF Among
<1>5. ASSUME NEW i \in DOMAIN more, NEW j \in DOMAIN more, more[i] = more[j] PROVE i = j
  BY <1>2, <1>3, <1>5 DEF Once, Among
<1> QED
  BY <1>4, <1>5 DEF Once

\* Blaming an account that was tried, for the first time, changes nothing else.
LEMMA BlamedFields ==
    ASSUME NEW q \in Request, NEW a \in q.tried, NEW stage \in {"repick", "release"}, NEW anon,
           a \notin Among(q.blames), LocalAt(q, stage, anon)
    PROVE  Blamed(q, a).exit = q.exit /\ LocalAt(Blamed(q, a), stage, anon)
<1>1. q.blames \in Seq(Accounts) /\ a \in Accounts
  BY DEF Request
<1>2. /\ Once(q.blames) /\ Among(q.blames) \subseteq q.tried
  BY DEF LocalAt, BlameAt
<1>3. /\ Once(Append(q.blames, a))
      /\ Among(Append(q.blames, a)) \subseteq q.tried
  BY <1>1, <1>2, BlamesOneMore
<1> QED
  BY <1>3 DEF Blamed, LocalAt, BlameAt, SendsAt, Early, Trying, Sending, Request

LEMMA markCookieBadPreserves ==
    ASSUME IInv, NEW r \in Requests, markCookieBad(r) PROVE IInv'
<1>1. req[r] \in Request /\ LocalAt(req[r], "blame", settings.FallbackAnon)
  BY ReqFacts DEF markCookieBad, At
<1>2. account \in [Accounts -> Account] /\ req[r].pc = "blame"
  BY DEF markCookieBad, At, IInv, TypeOK
<1>3. req[r].acct \in Accounts
  BY <1>1 DEF LocalAt, BlameAt, SendsAt, Early, Sending, Trying
<1>4. account' \in [Accounts -> Account]
  BY <1>2, <1>3, HealthTyped DEF markCookieBad
<1> DEFINE new == Blamed(req[r], req[r].acct)
<1>5. /\ LocalAt(req[r], "repick", settings.FallbackAnon)
      /\ req[r].acct \in req[r].tried /\ req[r].acct \notin Among(req[r].blames)
  BY <1>1 DEF LocalAt, BlameAt, SendsAt, Early, Sending, Trying
<1>6. /\ new \in Request /\ new.exit = req[r].exit
      /\ LocalAt(new, "repick", settings.FallbackAnon)
  BY <1>1, <1>3, <1>5, BlamedTyped, BlamedFields
<1> QED
  BY <1>2, <1>4, <1>6, Moves DEF markCookieBad, Stage

LEMMA pickCookieAccountExceptPreserves ==
    ASSUME IInv, NEW r \in Requests, pickCookieAccountExcept(r) PROVE IInv'
<1>1. req[r] \in Request /\ LocalAt(req[r], "repick", settings.FallbackAnon)
  BY ReqFacts DEF pickCookieAccountExcept, At
<1>2. account \in [Accounts -> Account] /\ req[r].pc = "repick"
  BY DEF pickCookieAccountExcept, At, IInv, TypeOK
<1>3. PICK stage \in {"token", "nocookie"} : PickAccount(r, req[r], stage, "nocookie")
  BY DEF pickCookieAccountExcept
<1>4. PICK a \in AccountOrNone, e \in Exits, to \in {stage, "nocookie"} :
        /\ a = NoAccount => to = "nocookie"
        /\ a \notin req[r].tried
        /\ Go(r, [req[r] EXCEPT !.acct = a, !.seen = e], to)
  <2>1. Picked(r, stage, "nocookie")
    BY <1>3, PickCases
  <2> QED
    BY <2>1 DEF Picked
<1> DEFINE new == [req[r] EXCEPT !.acct = a, !.seen = e]
<1>5. to \in {"token", "nocookie"} /\ (to = "token" => a \in Accounts \ req[r].tried)
  BY <1>3, <1>4 DEF AccountOrNone
<1>6. /\ new \in Request /\ new.exit = req[r].exit
      /\ LocalAt(new, to, settings.FallbackAnon)
  BY <1>1, <1>5 DEF LocalAt, BlameAt, SendsAt, Early, Sending, Trying, Request
<1> QED
  BY <1>2, <1>4, <1>5, <1>6, Moves DEF Stage, pickCookieAccountExcept

LEMMA noCookiePreserves ==
    ASSUME IInv, NEW r \in Requests, noCookie(r) PROVE IInv'
<1>1. req[r] \in Request /\ LocalAt(req[r], "nocookie", settings.FallbackAnon)
  BY ReqFacts DEF noCookie, At
<1>2. account \in [Accounts -> Account] /\ req[r].pc = "nocookie"
  BY DEF noCookie, At, IInv, TypeOK
<1>3. CASE settings.FallbackAnon
  <2> DEFINE new == [req[r] EXCEPT !.cookieID = NoAccount]
  <2>1. /\ new \in Request /\ new.exit = req[r].exit
        /\ LocalAt(new, "prepare", settings.FallbackAnon)
    BY <1>1, <1>3 DEF LocalAt, BlameAt, SendsAt, Early, Sending, Trying, Request, AccountOrNone
  <2> QED
    BY <1>2, <1>3, <2>1, Moves DEF noCookie, Stage
<1>4. CASE ~settings.FallbackAnon
  <2>1. LocalAt(req[r], "release", settings.FallbackAnon)
    BY <1>1 DEF LocalAt, BlameAt, SendsAt, Early, Sending, Trying
  <2> QED
    BY <1>1, <1>2, <1>4, <2>1, Moves DEF noCookie, Stage
<1> QED
  BY <1>3, <1>4

LEMMA preparePreserves ==
    ASSUME IInv, NEW r \in Requests, prepare(r) PROVE IInv'
<1>1. req[r] \in Request /\ LocalAt(req[r], "prepare", settings.FallbackAnon)
  BY ReqFacts DEF prepare, At
<1>2. account \in [Accounts -> Account] /\ req[r].pc = "prepare"
  BY DEF prepare, At, IInv, TypeOK
<1>3. PICK to \in {"send", "release"} : Go(r, req[r], to)
  BY DEF prepare
<1>4. LocalAt(req[r], to, settings.FallbackAnon)
  BY <1>1 DEF LocalAt, BlameAt, SendsAt, Early, Sending, Trying
<1> QED
  BY <1>1, <1>2, <1>3, <1>4, Moves DEF prepare, Stage

LEMMA sendPreserves ==
    ASSUME IInv, NEW r \in Requests, send(r) PROVE IInv'
<1>1. req[r] \in Request /\ LocalAt(req[r], "send", settings.FallbackAnon)
  BY ReqFacts DEF send, At
<1>2. account \in [Accounts -> Account] /\ req[r].pc = "send"
  BY DEF send, At, IInv, TypeOK
<1>3. CASE req[r].attempt < RetryAttempts
  <2> DEFINE new == [req[r] EXCEPT !.sends = @ + 1]
  <2>1. req[r].sends \in Nat
    BY <1>1 DEF Request
  <2>2. new \in Request
    BY <1>1, <2>1 DEF Request
  <2>3. new.exit = req[r].exit /\ LocalAt(new, "reply", settings.FallbackAnon)
    BY <1>1 DEF LocalAt, BlameAt, SendsAt, Early, Sending, Trying, Request
  <2> QED
    BY <1>2, <1>3, <2>2, <2>3, Moves DEF send, Stage
<1>4. CASE ~(req[r].attempt < RetryAttempts)
  <2>1. LocalAt(req[r], "giveup", settings.FallbackAnon)
    BY <1>1 DEF LocalAt, BlameAt, SendsAt, Early, Sending, Trying
  <2> QED
    BY <1>1, <1>2, <1>4, <2>1, Moves DEF send, Stage
<1> QED
  BY <1>3, <1>4

LEMMA emitPreserves ==
    ASSUME IInv, NEW r \in Requests, emit(r) PROVE IInv'
<1>1. req[r] \in Request /\ LocalAt(req[r], "reply", settings.FallbackAnon)
  BY ReqFacts DEF emit, At
<1>2. account \in [Accounts -> Account] /\ req[r].pc = "reply"
  BY DEF emit, At, IInv, TypeOK
<1> DEFINE new == [req[r] EXCEPT !.emitted = TRUE]
<1>3. /\ new \in Request /\ new.exit = req[r].exit
      /\ LocalAt(new, "reply", settings.FallbackAnon)
  BY <1>1 DEF LocalAt, BlameAt, SendsAt, Early, Sending, Trying, Request
<1> QED
  BY <1>2, <1>3, Moves DEF emit, Stage

\* A failed attempt, at whichever stage it is noticed.
LEMMA AttemptFails ==
    ASSUME IInv, NEW r \in Requests, NEW cause \in Cause, attemptFails(r, cause),
           req[r].pc \in {"reply", "heal"},
           UNCHANGED <<listed, usable, inflight, changes, settings>>
    PROVE  IInv'
<1>1. req[r] \in Request /\ LocalAt(req[r], req[r].pc, settings.FallbackAnon)
  BY ReqFacts
<1> DEFINE new == [req[r] EXCEPT !.attempt = @ + 1, !.cause = cause]
<1>2. PICK to \in {"giveup", "send"} : (to = "send" => ~req[r].emitted) /\ Go(r, new, to)
  BY DEF attemptFails
<1>3. req[r].attempt + 1 \in Nat
  BY <1>1 DEF Request
<1>4. new \in Request
  BY <1>1, <1>3 DEF Request
<1>5. new.exit = req[r].exit /\ LocalAt(new, to, settings.FallbackAnon)
  BY <1>1, <1>2 DEF LocalAt, BlameAt, SendsAt, Early, Sending, Trying, Request
<1>6. account' \in [Accounts -> Account]
  BY DEF attemptFails, IInv, TypeOK
<1> QED
  BY <1>2, <1>4, <1>5, <1>6, Moves DEF Stage

LEMMA repliedPreserves ==
    ASSUME IInv, NEW r \in Requests, replied(r) PROVE IInv'
<1>1. req[r] \in Request /\ LocalAt(req[r], "reply", settings.FallbackAnon)
  BY ReqFacts DEF replied, At
<1>2. account \in [Accounts -> Account] /\ req[r].pc = "reply"
  BY DEF replied, At, IInv, TypeOK
<1>3. ASSUME NEW cause \in Cause, attemptFails(r, cause) PROVE IInv'
  BY <1>2, <1>3, AttemptFails DEF replied
<1>4. CASE /\ ~req[r].emitted /\ ~req[r].healed
           /\ Go(r, [req[r] EXCEPT !.healed = TRUE], "heal") /\ UNCHANGED account
  <2> DEFINE new == [req[r] EXCEPT !.healed = TRUE]
  <2>1. /\ new \in Request /\ new.exit = req[r].exit
        /\ LocalAt(new, "heal", settings.FallbackAnon)
    BY <1>1, <1>4 DEF LocalAt, BlameAt, SendsAt, Early, Sending, Trying, Request
  <2> QED
    BY <1>2, <1>4, <2>1, Moves DEF replied, Stage
<1>5. ASSUME Go(r, [req[r] EXCEPT !.ok = TRUE], "release"),
             IF req[r].cookieID = NoAccount THEN UNCHANGED account
             ELSE account' = [account EXCEPT ![req[r].cookieID] = AfterSuccess(@)]
      PROVE  IInv'
  <2> DEFINE new == [req[r] EXCEPT !.ok = TRUE]
  <2>1. /\ new \in Request /\ new.exit = req[r].exit
        /\ LocalAt(new, "release", settings.FallbackAnon)
    BY <1>1 DEF LocalAt, BlameAt, SendsAt, Early, Sending, Trying, Request
  <2>2. req[r].cookieID \in Accounts \cup {NoAccount}
    BY <1>1 DEF Request, AccountOrNone
  <2>3. account' \in [Accounts -> Account]
    BY <1>2, <1>5, <2>2, HealthTyped
  <2> QED
    BY <1>2, <1>5, <2>1, <2>3, Moves DEF replied, Stage
<1>6. req[r].cause \in Cause /\ "none" \in Cause /\ "rejected" \in Cause
  BY <1>1 DEF Request, Cause
<1> QED
  BY <1>3, <1>4, <1>5, <1>6 DEF replied

LEMMA healPreserves ==
    ASSUME IInv, NEW r \in Requests, heal(r) PROVE IInv'
<1>1. req[r] \in Request /\ LocalAt(req[r], "heal", settings.FallbackAnon)
  BY ReqFacts DEF heal, At
<1>2. account \in [Accounts -> Account] /\ req[r].pc = "heal"
  BY DEF heal, At, IInv, TypeOK
<1>3. CASE Go(r, req[r], "send") /\ UNCHANGED account
  <2>1. LocalAt(req[r], "send", settings.FallbackAnon)
    BY <1>1 DEF LocalAt, BlameAt, SendsAt, Early, Sending, Trying
  <2> QED
    BY <1>1, <1>2, <1>3, <2>1, Moves DEF heal, Stage
<1>4. CASE attemptFails(r, "none")
  BY <1>2, <1>4, AttemptFails DEF heal, Cause
<1> QED
  BY <1>3, <1>4 DEF heal

LEMMA giveUpPreserves ==
    ASSUME IInv, NEW r \in Requests, giveUp(r) PROVE IInv'
<1>1. req[r] \in Request /\ LocalAt(req[r], "giveup", settings.FallbackAnon)
  BY ReqFacts DEF giveUp, At
<1>2. account \in [Accounts -> Account] /\ req[r].pc = "giveup"
  BY DEF giveUp, At, IInv, TypeOK
<1>3. LocalAt(req[r], "release", settings.FallbackAnon)
  BY <1>1 DEF LocalAt, BlameAt, SendsAt, Early, Sending, Trying
<1>4. CASE req[r].cause = "rejected" /\ req[r].cookieID # NoAccount
  <2> DEFINE new == Blamed(req[r], req[r].cookieID)
  <2>1. /\ req[r].cookieID \in Accounts
        /\ req[r].cookieID \in req[r].tried /\ req[r].cookieID \notin Among(req[r].blames)
    BY <1>1, <1>4 DEF Request, AccountOrNone, LocalAt, BlameAt, Sending
  <2>2. account' \in [Accounts -> Account]
    BY <1>2, <1>4, <2>1, HealthTyped DEF giveUp
  <2>3. /\ new \in Request /\ new.exit = req[r].exit
        /\ LocalAt(new, "release", settings.FallbackAnon)
    BY <1>1, <1>3, <2>1, BlamedTyped, BlamedFields
  <2> QED
    BY <1>2, <1>4, <2>2, <2>3, Moves DEF giveUp, Stage
<1>5. CASE ~(req[r].cause = "rejected" /\ req[r].cookieID # NoAccount)
  BY <1>1, <1>2, <1>3, <1>5, Moves DEF giveUp, Stage
<1> QED
  BY <1>4, <1>5

\* The deferred release gives back the place that the request occupied, and the
\* floor at zero is never needed.
LEMMA releaseSlotPreserves ==
    ASSUME IInv, NEW r \in Requests, releaseSlot(r) PROVE IInv'
<1>1. req[r] \in Request /\ LocalAt(req[r], "release", settings.FallbackAnon)
  BY ReqFacts DEF releaseSlot, At
<1>2. account \in [Accounts -> Account] /\ req[r].pc = "release"
  BY DEF releaseSlot, At, IInv, TypeOK
<1> DEFINE n == [req[r] EXCEPT !.pc = "done"]
<1>3. PICK e \in Exits : e = req[r].exit
  BY <1>1 DEF LocalAt, BlameAt, SendsAt, Early, Sending, Trying
<1>4. LocalAt(req[r], "done", settings.FallbackAnon) /\ "done" \in Stage
  BY <1>1 DEF LocalAt, BlameAt, SendsAt, Early, Sending, Trying, Stage
<1>5. n \in Request /\ n.pc = "done" /\ n.exit = e /\ LocalOK(n, settings.FallbackAnon)
  BY <1>1, <1>3, <1>4, StageTyped, StageKeepsFields
<1>6. inflight \in [Exits -> Nat] /\ \A x \in Exits : inflight[x] = Cardinality(Users(x))
  BY DEF IInv, TypeOK, SlotsCounted
<1>7. /\ inflight' = [inflight EXCEPT ![e] = IF @ > 0 THEN @ - 1 ELSE @]
      /\ inflight' \in [Exits -> Nat]
  BY <1>3, <1>6 DEF releaseSlot
<1>8. Replace(r, n)
  BY <1>7 DEF releaseSlot, Replace, Go, SharedTyped, IInv, TypeOK
<1>9. /\ TypeOK' /\ LocalsOK' /\ req'[r] = n
      /\ \A x \in Requests \ {r} : req'[x] = req[x]
  BY <1>5, <1>8, ReplaceKeepsLocals
<1>10. ASSUME NEW x \in Exits PROVE inflight'[x] = Cardinality(Users(x)')
  <2>1. CASE x = e
    <3>1. r \in Users(x) /\ IsFiniteSet(Users(x))
      BY <1>2, <1>3, <2>1, UsersFinite DEF Users, Uses
    <3>2. Users(x)' = Users(x) \ {r}
      BY <1>5, <1>9 DEF Users, Uses
    <3>3. Cardinality(Users(x)') = Cardinality(Users(x)) - 1
      BY <3>1, <3>2, FS_RemoveElement
    <3>4. Cardinality(Users(x)) > 0
      BY <3>1, FS_EmptySet, FS_CardinalityType
    <3> QED
      BY <1>6, <1>7, <2>1, <3>3, <3>4
  <2>2. CASE x # e
    <3>1. Users(x)' = Users(x)
      BY <1>3, <1>5, <1>9, <2>2 DEF Users, Uses
    <3> QED
      BY <1>6, <1>7, <2>2, <3>1
  <2> QED
    BY <2>1, <2>2
<1> QED
  BY <1>9, <1>10 DEF IInv, SlotsCounted

LEMMA NextPreserves == IInv /\ [Next]_vars => IInv'
<1> SUFFICES ASSUME IInv, [Next]_vars PROVE IInv'
  OBVIOUS
<1>1. ASSUME NEW r \in Requests, RequestStep(r) PROVE IInv'
  BY <1>1, resolveModelPreserves, pickCookieAccountPreserves, acquireSlotPreserves,
     pickProxyPreferringPreserves, acquireDirectPreserves, getXSRFPreserves,
     rotateAccountPreserves, getXSRFAgainPreserves, proxyUsableByIDPreserves,
     bindAccountProxyPreserves, markCookieBadPreserves,
     pickCookieAccountExceptPreserves, noCookiePreserves, preparePreserves, sendPreserves,
     emitPreserves, repliedPreserves, healPreserves, giveUpPreserves, releaseSlotPreserves
     DEF RequestStep
<1>2. ASSUME req' = req, inflight' = inflight, settings' = settings, SharedTyped' PROVE IInv'
  BY <1>2 DEF IInv, TypeOK, LocalsOK, SlotsCounted, Users, SharedTyped
<1>3. CASE PoolChanges
  BY <1>2, <1>3 DEF PoolChanges, Change, SharedTyped, IInv, TypeOK
<1>4. ASSUME NEW a \in Accounts, accountSetStatus(a) PROVE IInv'
  <2>1. [account[a] EXCEPT !.enabled = ~@] \in Account
    BY DEF IInv, TypeOK, Account
  <2>2. account' \in [Accounts -> Account]
    BY <1>4, <2>1 DEF accountSetStatus, IInv, TypeOK
  <2> QED
    BY <1>2, <1>4, <2>2 DEF accountSetStatus, Change, SharedTyped, IInv, TypeOK
<1>5. CASE UNCHANGED vars
  BY <1>2, <1>5 DEF vars, SharedTyped, IInv, TypeOK
<1> QED
  BY <1>1, <1>3, <1>4, <1>5 DEF Next

-----------------------------------------------------------------------------

\* Every reachable state of the gateway is well typed.
THEOREM TypeCorrect == Spec => []TypeOK
<1>1. IInv => TypeOK
  BY DEF IInv
<1> QED
  BY <1>1, InitEstablishes, NextPreserves, PTL DEF Spec

\* Whatever way requests end, the counter of an exit is the number of requests that
\* use it: no return of streamGenerateWithFiles leaks a slot or frees one twice.
THEOREM SlotsAlwaysFollow == Spec => []SlotsFollowRequests
<1>1. IInv => SlotsFollowRequests
  <2> SUFFICES ASSUME IInv, NEW e \in Exits
               PROVE  inflight[e] = Cardinality({r \in Requests : req[r].exit = e /\ ~At(r, "done")})
    BY DEF SlotsFollowRequests
  <2>1. Users(e) = {r \in Requests : req[r].exit = e /\ ~At(r, "done")}
    BY DEF Users, Uses, At
  <2> QED
    BY <2>1 DEF IInv, SlotsCounted
<1> QED
  BY <1>1, InitEstablishes, NextPreserves, PTL DEF Spec

\* A request that was sent is put down to the account whose cookie was sent.
THEOREM AttributionAlwaysHonest == Spec => []AttributionHonest
<1>1. IInv => AttributionHonest
  BY DEF IInv, LocalsOK, LocalOK, LocalAt, AttributionHonest
<1> QED
  BY <1>1, InitEstablishes, NextPreserves, PTL DEF Spec

\* A request that tried accounts is never sent anonymously unless the panel says so.
THEOREM NeverSilentlyDowngraded == Spec => []NoSilentDowngrade
<1>1. IInv => NoSilentDowngrade
  BY DEF IInv, LocalsOK, LocalOK, LocalAt, NoSilentDowngrade
<1> QED
  BY <1>1, InitEstablishes, NextPreserves, PTL DEF Spec

\* However accounts are tried, rescued and used, and whatever other requests do to them
\* meanwhile, one request counts at most one failure against an account: what
\* maxCookieAuthFailures counts is requests, never the retries of one.
THEOREM NeverBlamedTwice == Spec => []BlamedOnce
<1>1. IInv => BlamedOnce
  BY DEF IInv, LocalsOK, LocalOK, LocalAt, BlameAt, Once, BlamedOnce
<1> QED
  BY <1>1, InitEstablishes, NextPreserves, PTL DEF Spec

-----------------------------------------------------------------------------
(* Dead cookies, while nothing else goes wrong *)

Calm == ~settings.outages /\ changes = 0

\* Then an account that fails is a dead one: it is rotated and blamed, refuses a
\* prompt, and is all that a request has tried while it looks for another.
CalmAt(q) ==
    /\ q.pc \in {"rotate", "retoken", "blame"} => q.acct \notin Valid
    /\ q.pc \notin Sending \cup {"release", "done"} => q.cause = "none" /\ q.tried \cap Valid = {}
    /\ q.pc \in Sending /\ q.cause = "rejected" => q.cookie \notin Valid
    /\ q.pc = "nocookie" => Valid = {} \/ Cardinality(Accounts \ Valid) >= MaxCookieTries

ValidEnabled == \A a \in Valid : account[a].enabled
CalmInv == Calm => ValidEnabled /\ \A r \in Requests : CalmAt(req[r])

\* An account is found as long as one is left.
LEMMA HealthiestExists ==
    ASSUME IInv, NEW skip, Enabled \ skip # {}
    PROVE  Candidates(skip) # {}
<1> DEFINE left == Enabled \ skip
           counts == {account[a].fails : a \in left}
           Less == {p \in Nat \X Nat : p[1] < p[2]}
<1>1. \A a \in left : account[a].fails \in Nat
  BY DEF Enabled, IInv, TypeOK, Account
<1>2. counts \subseteq Nat /\ counts # {}
  BY <1>1
<1>3. IsWellFoundedOn(Less, Nat)
  BY NatLessThanWellFounded DEF OpToRel
<1>4. \E n \in counts : \A m \in counts : ~(<<m, n>> \in Less)
  <2> HIDE DEF counts, Less
  <2> QED
    BY <1>2, <1>3, WFMin
<1>5. PICK n \in counts : \A m \in counts : ~(m < n)
  BY <1>2, <1>4
<1>6. PICK a \in left : account[a].fails = n
  BY <1>5
<1>7. a \in Candidates(skip)
  BY <1>1, <1>5, <1>6 DEF Candidates
<1> QED
  BY <1>7

\* The locals of a request after it went on.
LEMMA GoesOn ==
    ASSUME IInv, NEW r \in Requests, NEW new, NEW stage, Go(r, new, stage),
           DOMAIN new = DOMAIN req[r]
    PROVE  /\ \A x \in Requests \ {r} : req'[x] = req[x]
           /\ req'[r].pc = stage /\ req'[r].acct = new.acct /\ req'[r].tried = new.tried
           /\ req'[r].cause = new.cause /\ req'[r].cookie = new.cookie
  BY DEF IInv, TypeOK, Request, Go

\* What a step of request r does to a calm system.
CalmKept(r) ==
    /\ CalmAt(req'[r]) /\ \A x \in Requests \ {r} : req'[x] = req[x]
    /\ \A a \in Valid : account[a].enabled => account'[a].enabled

LEMMA CalmBefore ==
    ASSUME IInv, Calm, ValidEnabled, NEW r \in Requests, CalmAt(req[r]),
           \/ \E login \in BOOLEAN : resolveModel(r, login)
           \/ pickCookieAccount(r) \/ acquireSlot(r) \/ pickProxyPreferring(r)
           \/ acquireDirect(r)
    PROVE  CalmKept(r)
<1> USE GoesOn DEF At, CalmAt, CalmKept, Sending
<1>1. req[r] \in Request /\ UNCHANGED account
  BY ReqFacts DEF resolveModel, pickCookieAccount, acquireSlot, pickProxyPreferring, acquireDirect
<1>2. ASSUME NEW new, NEW stage \in {"pick", "slot", "proxy", "direct", "token", "prepare", "done"},
             Go(r, new, stage), DOMAIN new = DOMAIN req[r], new.cause = req[r].cause,
             new.tried = req[r].tried, req[r].pc \in Early
      PROVE  CalmKept(r)
  BY <1>1, <1>2 DEF Early
<1> USE <1>1, <1>2 DEF Early, Request
<1>3. ASSUME NEW login \in BOOLEAN, resolveModel(r, login) PROVE CalmKept(r)
  BY <1>3 DEF resolveModel
<1>4. CASE pickCookieAccount(r)
  BY <1>4 DEF pickCookieAccount, PickAccount
<1>5. CASE acquireSlot(r)
  BY <1>5 DEF acquireSlot
<1>6. CASE pickProxyPreferring(r)
  BY <1>6 DEF pickProxyPreferring, Leave
<1>7. CASE acquireDirect(r)
  BY <1>7 DEF acquireDirect, Leave
<1> QED
  BY <1>3, <1>4, <1>5, <1>6, <1>7

\* Accounts are blamed and cleared without a signed-in one being disabled.
LEMMA StaysEnabled ==
    ASSUME IInv, NEW a \in Valid
    PROVE  /\ \A b \in Accounts \ Valid :
                account' = [account EXCEPT ![b] = AfterFailure(@)] /\ account[a].enabled
                  => account'[a].enabled
           /\ \A b \in Accounts :
                account' = [account EXCEPT ![b] = AfterSuccess(@)] /\ account[a].enabled
                  => account'[a].enabled
<1>1. account \in [Accounts -> Account] /\ a \in Accounts
  BY ValidAreAccounts DEF IInv, TypeOK
<1> QED
  BY <1>1 DEF AfterFailure, AfterSuccess, Account

LEMMA CalmToken ==
    ASSUME IInv, Calm, ValidEnabled, NEW r \in Requests, CalmAt(req[r]),
           \/ getXSRF(r) \/ rotateAccount(r) \/ getXSRFAgain(r) \/ markCookieBad(r)
    PROVE  CalmKept(r)
<1>1. /\ req[r] \in Request
      /\ req[r].pc \in Trying => req[r].acct \in Accounts
      /\ req[r].pc \in Trying => req[r].cause = "none"
      /\ req[r].pc \in Trying => req[r].tried \cap Valid = {}
  BY ReqFacts DEF LocalAt, CalmAt, Trying, Sending
<1>2. ASSUME NEW new, NEW stage \in {"rotate", "retoken", "blame", "repick"},
             Go(r, new, stage), DOMAIN new = DOMAIN req[r], new.cause = "none",
             new.acct \notin Valid, new.tried \cap Valid = {},
             \A a \in Valid : account[a].enabled => account'[a].enabled
      PROVE  CalmKept(r)
  BY <1>2, GoesOn DEF CalmAt, CalmKept, Sending
<1>3. ASSUME NEW new, DOMAIN new = DOMAIN req[r], TokenWorks(r, new), new.cause = "none",
             UNCHANGED account
      PROVE  CalmKept(r)
  <2>1. PICK n : /\ \E stage \in {"check", "bind"} : Go(r, n, stage)
                 /\ DOMAIN n = DOMAIN req[r] /\ n.cause = "none"
    <3> DEFINE n == [new EXCEPT !.cookie = new.acct]
    <3>1. PICK stage \in {"check", "bind"} : Go(r, n, stage)
      BY <1>3 DEF TokenWorks
    <3>2. DOMAIN n = DOMAIN req[r] /\ n.cause = "none"
      BY <1>1, <1>3 DEF Request
    <3> HIDE DEF n
    <3> QED
      BY <3>1, <3>2
  <2> QED
    BY <1>3, <2>1, GoesOn DEF CalmAt, CalmKept, Sending
<1>4. CASE getXSRF(r)
  <2> DEFINE q == [req[r] EXCEPT !.tried = @ \cup {req[r].acct}, !.cookieID = req[r].acct]
  <2>1. /\ DOMAIN q = DOMAIN req[r] /\ q.cause = req[r].cause /\ q.acct = req[r].acct
        /\ q.tried = req[r].tried \cup {req[r].acct}
        /\ req[r].pc \in Trying
    BY <1>1, <1>4 DEF Request, getXSRF, At, Trying
  <2>2. CASE TokenWorks(r, q)
    <3> HIDE DEF q
    <3> QED
      BY <1>1, <1>3, <1>4, <2>1, <2>2 DEF getXSRF
  <2>3. CASE MayFail(q.acct) /\ Go(r, q, "rotate")
    <3>1. req[r].acct \notin Valid
      BY <2>1, <2>3 DEF MayFail, Calm
    <3> HIDE DEF q
    <3> QED
      BY <1>1, <1>2, <1>4, <2>1, <2>3, <3>1 DEF getXSRF
  <2> QED
    BY <1>4, <2>2, <2>3 DEF getXSRF
<1>5. CASE rotateAccount(r)
  <2>1. req[r].acct \notin Valid /\ req[r].pc \in Trying
    BY <1>5 DEF rotateAccount, At, CalmAt, Trying
  <2> QED
    BY <1>1, <1>2, <1>5, <2>1 DEF rotateAccount, Request
<1>6. CASE getXSRFAgain(r)
  <2>1. req[r].acct \notin Valid /\ req[r].pc \in Trying
    BY <1>6 DEF getXSRFAgain, At, CalmAt, Trying
  <2> QED
    BY <1>1, <1>2, <1>3, <1>6, <2>1 DEF getXSRFAgain
<1>7. CASE markCookieBad(r)
  <2>1. req[r].acct \notin Valid /\ req[r].pc \in Trying
    BY <1>7 DEF markCookieBad, At, CalmAt, Trying
  <2>2. \A a \in Valid : account[a].enabled => account'[a].enabled
    BY <1>1, <1>7, <2>1, StaysEnabled DEF markCookieBad
  <2> QED
    BY <1>1, <1>2, <1>7, <2>1, <2>2 DEF markCookieBad, Blamed, Request
<1> QED
  BY <1>4, <1>5, <1>6, <1>7

LEMMA CalmRepick ==
    ASSUME IInv, Calm, ValidEnabled, NEW r \in Requests, CalmAt(req[r]),
           pickCookieAccountExcept(r) \/ noCookie(r)
    PROVE  CalmKept(r)
<1>1. /\ req[r] \in Request /\ UNCHANGED account
      /\ req[r].cause = "none" /\ req[r].tried \cap Valid = {}
  BY ReqFacts DEF pickCookieAccountExcept, noCookie, At, CalmAt, Sending
<1>2. CASE noCookie(r)
  BY <1>1, <1>2, GoesOn DEF noCookie, CalmAt, CalmKept, Sending, Request
<1>3. CASE pickCookieAccountExcept(r)
  <2> DEFINE to == IF Cardinality(req[r].tried) < MaxCookieTries THEN "token" ELSE "nocookie"
  <2>1. PickAccount(r, req[r], to, "nocookie")
    BY <1>3 DEF pickCookieAccountExcept
  <2>2. PICK new : \E stage \in {"token", "nocookie"} :
          /\ Go(r, new, stage) /\ DOMAIN new = DOMAIN req[r]
          /\ new.cause = "none" /\ new.tried = req[r].tried
          /\ stage = "nocookie" => to = "nocookie" \/ Candidates(req[r].tried) = {}
    <3>1. ASSUME NEW a \in Candidates(req[r].tried), NEW e,
                 Go(r, [req[r] EXCEPT !.acct = a, !.seen = e], to)
          PROVE  \E new : \E stage \in {"token", "nocookie"} :
                   /\ Go(r, new, stage) /\ DOMAIN new = DOMAIN req[r]
                   /\ new.cause = "none" /\ new.tried = req[r].tried
                   /\ stage = "nocookie" => to = "nocookie"
      <4> DEFINE n == [req[r] EXCEPT !.acct = a, !.seen = e]
      <4>1. DOMAIN n = DOMAIN req[r] /\ n.cause = "none" /\ n.tried = req[r].tried
        BY <1>1 DEF Request
      <4>2. Go(r, n, to) /\ to \in {"token", "nocookie"}
        BY <3>1
      <4> HIDE DEF n, to
      <4> QED
        BY <4>1, <4>2
    <3>2. ASSUME Candidates(req[r].tried) = {},
                 Go(r, [req[r] EXCEPT !.acct = NoAccount], "nocookie")
          PROVE  \E new : \E stage \in {"token", "nocookie"} :
                   /\ Go(r, new, stage) /\ DOMAIN new = DOMAIN req[r]
                   /\ new.cause = "none" /\ new.tried = req[r].tried
      <4> DEFINE n == [req[r] EXCEPT !.acct = NoAccount]
      <4>1. DOMAIN n = DOMAIN req[r] /\ n.cause = "none" /\ n.tried = req[r].tried
        BY <1>1 DEF Request
      <4>2. Go(r, n, "nocookie")
        BY <3>2
      <4> HIDE DEF n
      <4> QED
        BY <4>1, <4>2
    <3> QED
      BY <2>1, <3>1, <3>2 DEF PickAccount, Calm
  <2>3. PICK stage \in {"token", "nocookie"} :
          /\ Go(r, new, stage) /\ DOMAIN new = DOMAIN req[r]
          /\ new.cause = "none" /\ new.tried = req[r].tried
          /\ stage = "nocookie" => to = "nocookie" \/ Candidates(req[r].tried) = {}
    BY <2>2
  <2>4. CASE stage = "token"
    BY <1>1, <2>3, <2>4, GoesOn DEF CalmAt, CalmKept, Sending
  <2>5. ASSUME to = "nocookie" PROVE Cardinality(Accounts \ Valid) >= MaxCookieTries
    <3>1. req[r].tried \in SUBSET (Accounts \ Valid)
      BY <1>1 DEF Request
    <3>2. IsFiniteSet(Accounts \ Valid)
      BY AccountsFinite, FS_Difference
    <3>3. /\ Cardinality(req[r].tried) \in Nat /\ Cardinality(Accounts \ Valid) \in Nat
          /\ Cardinality(req[r].tried) <= Cardinality(Accounts \ Valid)
      BY <3>1, <3>2, FS_Subset, FS_CardinalityType
    <3> QED
      BY <2>5, <3>3, BoundsArePositive
  <2>6. ASSUME Candidates(req[r].tried) = {} PROVE Valid = {}
    <3>1. Enabled \ req[r].tried = {}
      BY <2>6, HealthiestExists
    <3> QED
      BY <1>1, <3>1, ValidAreAccounts DEF ValidEnabled, Enabled
  <2>7. CASE stage = "nocookie"
    BY <1>1, <2>3, <2>5, <2>6, <2>7, GoesOn DEF CalmAt, CalmKept, Sending
  <2> QED
    BY <2>3, <2>4, <2>7
<1> QED
  BY <1>2, <1>3

LEMMA CalmSending ==
    ASSUME IInv, Calm, ValidEnabled, NEW r \in Requests, CalmAt(req[r]),
           \/ proxyUsableByID(r) \/ bindAccountProxy(r) \/ prepare(r) \/ send(r) \/ emit(r)
           \/ replied(r) \/ heal(r) \/ giveUp(r) \/ releaseSlot(r)
    PROVE  CalmKept(r)
<1>1. /\ req[r] \in Request
      /\ req[r].pc \in Sending => req[r].cookieID = req[r].cookie
      /\ req[r].pc \in Sending /\ req[r].cause = "rejected" => req[r].cookie \notin Valid
  BY ReqFacts DEF LocalAt, CalmAt
<1>2. ASSUME NEW new, NEW stage \in Sending \cup {"release", "done"},
             Go(r, new, stage), DOMAIN new = DOMAIN req[r],
             stage \in Sending /\ new.cause = "rejected" => new.cookie \notin Valid,
             \A a \in Valid : account[a].enabled => account'[a].enabled
      PROVE  CalmKept(r)
  BY <1>2, GoesOn DEF CalmAt, CalmKept, Sending
<1>3. ASSUME NEW cause, attemptFails(r, cause), req[r].pc \in Sending,
             cause = "rejected" => req[r].cookie \notin Valid
      PROVE  CalmKept(r)
  <2> DEFINE new == [req[r] EXCEPT !.attempt = @ + 1, !.cause = cause]
  <2>1. DOMAIN new = DOMAIN req[r] /\ new.cause = cause /\ new.cookie = req[r].cookie
    BY <1>1 DEF Request
  <2>2. PICK stage \in {"giveup", "send"} : Go(r, new, stage)
    BY <1>3 DEF attemptFails
  <2>3. UNCHANGED account
    BY <1>3 DEF attemptFails
  <2> HIDE DEF new
  <2> QED
    BY <1>2, <1>3, <2>1, <2>2, <2>3 DEF Sending
<1>4. CASE prepare(r)
  BY <1>1, <1>2, <1>4 DEF prepare, At, Sending
<1>5. CASE send(r)
  BY <1>1, <1>2, <1>5 DEF send, At, Sending, Request
<1>6. CASE emit(r)
  BY <1>1, <1>2, <1>6 DEF emit, At, Sending, Request
<1>7. CASE replied(r)
  <2>1. req[r].pc \in Sending
    BY <1>7 DEF replied, At, Sending
  <2>2. CASE attemptFails(r, req[r].cause)
    BY <1>1, <1>3, <2>1, <2>2
  <2>3. ASSUME NEW cause, cause = "rejected" => MayFail(req[r].cookie), attemptFails(r, cause)
        PROVE  CalmKept(r)
    BY <1>3, <2>1, <2>3 DEF MayFail, Calm
  <2>4. CASE Go(r, [req[r] EXCEPT !.healed = TRUE], "heal") /\ UNCHANGED account
    BY <1>1, <1>2, <2>1, <2>4 DEF Sending, Request
  <2>5. CASE /\ Go(r, [req[r] EXCEPT !.ok = TRUE], "release")
             /\ IF req[r].cookieID = NoAccount THEN UNCHANGED account
                ELSE account' = [account EXCEPT ![req[r].cookieID] = AfterSuccess(@)]
    <3>1. req[r].cookieID \in Accounts \cup {NoAccount}
      BY <1>1 DEF Request, AccountOrNone
    <3>2. \A a \in Valid : account[a].enabled => account'[a].enabled
      BY <2>5, <3>1, StaysEnabled
    <3> QED
      BY <1>1, <1>2, <2>5, <3>2 DEF Sending, Request
  <2> QED
    BY <1>7, <2>2, <2>3, <2>4, <2>5 DEF replied
<1>8. CASE heal(r)
  BY <1>1, <1>2, <1>3, <1>8 DEF heal, At, Sending
<1>9. CASE giveUp(r)
  <2>1. req[r].pc \in Sending
    BY <1>9 DEF giveUp, At, Sending
  <2>2. \A a \in Valid : account[a].enabled => account'[a].enabled
    <3>1. CASE req[r].cause = "rejected" /\ req[r].cookieID # NoAccount
      <4>1. req[r].cookieID \in Accounts \ Valid
        BY <1>1, <2>1, <3>1 DEF Request, AccountOrNone
      <4> QED
        BY <1>9, <3>1, <4>1, StaysEnabled DEF giveUp
    <3>2. CASE ~(req[r].cause = "rejected" /\ req[r].cookieID # NoAccount)
      BY <1>9, <3>2 DEF giveUp
    <3> QED
      BY <3>1, <3>2
  <2>3. PICK new : Go(r, new, "release") /\ DOMAIN new = DOMAIN req[r]
    <3>1. DOMAIN Blamed(req[r], req[r].cookieID) = DOMAIN req[r]
      BY <1>1 DEF Blamed, Request
    <3> QED
      BY <1>9, <3>1 DEF giveUp
  <2> QED
    BY <1>2, <2>2, <2>3 DEF Sending
<1>10. CASE releaseSlot(r)
  BY <1>1, <1>2, <1>10 DEF releaseSlot, Sending
<1>11. CASE proxyUsableByID(r)
  BY <1>1, <1>2, <1>11 DEF proxyUsableByID, At, Sending
<1>12. CASE bindAccountProxy(r)
  <2>1. req[r].cookie \in Accounts \cup {NoAccount} /\ req[r].exit \in Exits
    BY <1>1, <1>12, ReqFacts DEF bindAccountProxy, At, LocalAt, Early, Request, AccountOrNone
  <2>2. \A a \in Valid : account[a].enabled => account'[a].enabled
    BY <1>12, ValidAreAccounts DEF bindAccountProxy, IInv, TypeOK, Account
  <2> QED
    BY <1>1, <1>2, <1>12, <2>2 DEF bindAccountProxy, At, Sending
<1> QED
  BY <1>4, <1>5, <1>6, <1>7, <1>8, <1>9, <1>10, <1>11, <1>12

LEMMA CalmPreserves == IInv /\ CalmInv /\ [Next]_vars => CalmInv'
<1> SUFFICES ASSUME IInv, CalmInv, [Next]_vars, Calm' PROVE (ValidEnabled /\ \A r \in Requests : CalmAt(req[r]))'
  BY DEF CalmInv
<1>1. ASSUME Calm, UNCHANGED <<req, account>> PROVE (ValidEnabled /\ \A r \in Requests : CalmAt(req[r]))'
  BY <1>1 DEF CalmInv, ValidEnabled, CalmAt
<1>2. ASSUME NEW r \in Requests, RequestStep(r)
      PROVE  (ValidEnabled /\ \A x \in Requests : CalmAt(req[x]))'
  <2>1. UNCHANGED <<changes, settings>>
    BY <1>2 DEF RequestStep, resolveModel, pickCookieAccount, acquireSlot, pickProxyPreferring,
       acquireDirect, getXSRF, rotateAccount, getXSRFAgain, proxyUsableByID, bindAccountProxy,
       markCookieBad,
       pickCookieAccountExcept, noCookie, prepare, send, emit, replied, heal, giveUp, releaseSlot
  <2>2. Calm /\ ValidEnabled /\ \A x \in Requests : CalmAt(req[x])
    BY <2>1 DEF Calm, CalmInv
  <2>3. CalmKept(r)
    BY <1>2, <2>2, CalmBefore, CalmToken, CalmRepick, CalmSending DEF RequestStep
  <2> QED
    BY <2>2, <2>3 DEF CalmKept, ValidEnabled, CalmAt
<1>3. ASSUME Change PROVE FALSE
  BY <1>3 DEF Change, Calm, IInv, TypeOK
<1>4. CASE PoolChanges
  BY <1>3, <1>4 DEF PoolChanges
<1>5. ASSUME NEW a \in Accounts, accountSetStatus(a) PROVE FALSE
  BY <1>3, <1>5 DEF accountSetStatus
<1>6. CASE UNCHANGED vars
  BY <1>1, <1>6 DEF vars, Calm
<1> QED
  BY <1>2, <1>4, <1>5, <1>6 DEF Next

\* Without outages, and with the panel at rest, the token loop settles on an account as
\* long as one is signed in and there are fewer dead ones than a request may try, however
\* many requests run and disable accounts for one another.
THEOREM LoopAlwaysFinds == Spec => []LoopFindsAccount
<1>1. Init => CalmInv
  BY ValidAreAccounts DEF Init, Start, CalmInv, ValidEnabled, CalmAt, Sending
<1>2. CalmInv => LoopFindsAccount
  BY DEF CalmInv, Calm, CalmAt, LoopFindsAccount, At
<1> QED
  BY <1>1, <1>2, InitEstablishes, NextPreserves, CalmPreserves, PTL DEF Spec

-----------------------------------------------------------------------------
(* The refinement: every step of a request is one of RequestContract, or none *)

\* A step of request r that its caller sees nothing of, unless it ends there.
Quiet(r) ==
    /\ \A x \in Requests \ {r} : req'[x] = req[x]
    /\ req'[r].ok = req[r].ok
    /\ req'[r].emitted = req[r].emitted
    /\ req'[r].sends = req[r].sends
    /\ req[r].pc \notin {"resolve", "done"} /\ req'[r].pc # "resolve"

LEMMA QuietSteps ==
    ASSUME IInv, NEW r \in Requests,
           \/ pickCookieAccount(r) \/ acquireSlot(r) \/ pickProxyPreferring(r)
           \/ acquireDirect(r) \/ getXSRF(r) \/ rotateAccount(r) \/ getXSRFAgain(r)
           \/ proxyUsableByID(r) \/ bindAccountProxy(r)
           \/ markCookieBad(r) \/ pickCookieAccountExcept(r) \/ noCookie(r)
           \/ prepare(r) \/ heal(r) \/ giveUp(r) \/ releaseSlot(r)
    PROVE  Quiet(r)
<1>1. req \in [Requests -> Request]
  BY DEF IInv, TypeOK
<1>2. ASSUME NEW new, NEW stage, Go(r, new, stage), DOMAIN new = DOMAIN req[r],
             new.ok = req[r].ok, new.emitted = req[r].emitted, new.sends = req[r].sends,
             req[r].pc \notin {"resolve", "done"}, stage # "resolve"
      PROVE  Quiet(r)
  BY <1>1, <1>2 DEF Quiet, Go, Request
<1> USE <1>1, <1>2 DEF At, Request
<1>3. CASE pickCookieAccount(r)
  BY <1>3 DEF pickCookieAccount, PickAccount
<1>4. CASE acquireSlot(r)
  BY <1>4 DEF acquireSlot
<1>5. CASE pickProxyPreferring(r)
  BY <1>5 DEF pickProxyPreferring, Leave
<1>6. CASE acquireDirect(r)
  BY <1>6 DEF acquireDirect, Leave
<1>7. CASE getXSRF(r)
  BY <1>7 DEF getXSRF, TokenWorks
<1>8. CASE rotateAccount(r)
  BY <1>8 DEF rotateAccount
<1>9. CASE getXSRFAgain(r)
  BY <1>9 DEF getXSRFAgain, TokenWorks
<1>10. CASE markCookieBad(r)
  BY <1>10 DEF markCookieBad, Blamed
<1>11. CASE pickCookieAccountExcept(r)
  BY <1>11 DEF pickCookieAccountExcept, PickAccount
<1>12. CASE noCookie(r)
  BY <1>12 DEF noCookie
<1>13. CASE prepare(r)
  BY <1>13 DEF prepare
<1>14. CASE heal(r)
  BY <1>14 DEF heal, attemptFails
<1>15. CASE giveUp(r)
  BY <1>15 DEF giveUp, Blamed
<1>16. CASE releaseSlot(r)
  BY <1>16 DEF releaseSlot
<1>17. CASE proxyUsableByID(r)
  BY <1>17 DEF proxyUsableByID
<1>18. CASE bindAccountProxy(r)
  BY <1>18 DEF bindAccountProxy
<1> QED
  BY <1>3, <1>4, <1>5, <1>6, <1>7, <1>8, <1>9, <1>10, <1>11, <1>12, <1>13, <1>14, <1>15, <1>16,
     <1>17, <1>18

Phases == [r \in Requests |-> PhaseOf(req[r])]
Sends == [r \in Requests |-> req[r].sends]

\* A step that changes the locals of request r alone, seen from its caller.
LEMMA SeenByCaller ==
    ASSUME IInv, IInv', NEW r \in Requests, \A x \in Requests \ {r} : req'[x] = req[x]
    PROVE  /\ Phases[r] = PhaseOf(req[r]) /\ Phases' = [Phases EXCEPT ![r] = PhaseOf(req'[r])]
           /\ Sends[r] = req[r].sends /\ Sends' = [Sends EXCEPT ![r] = req'[r].sends]
<1>1. PhaseOf(req[r])' = PhaseOf(req'[r])
  BY DEF PhaseOf
<1>2. ASSUME NEW x \in Requests \ {r} PROVE PhaseOf(req[x])' = PhaseOf(req[x])
  BY <1>2 DEF PhaseOf
<1> QED
  BY <1>1, <1>2 DEF Phases, Sends

\* What a step of request r may do to the phase and the sends that its caller counts.
Advance(r) ==
    LET from == PhaseOf(req[r])  to == PhaseOf(req'[r]) IN
    \/ /\ req'[r].sends = req[r].sends
       /\ \/ to = from
          \/ from = "new" /\ to \in {"failed", "working"}
          \/ from \in {"working", "streaming"} /\ to = "failed"
          \/ req[r].sends > 0 /\ from = "working" /\ to = "streaming"
          \/ req[r].sends > 0 /\ from \in {"working", "streaming"} /\ to = "answered"
    \/ /\ req'[r].sends = req[r].sends + 1 /\ req[r].sends < RetryAttempts + 1
       /\ from = "working" /\ to = "working"

LEMMA StepRefines == IInv /\ IInv' /\ [Next]_vars => [Contract!Next]_(Contract!vars)
<1> SUFFICES ASSUME IInv, IInv', [Next]_vars PROVE [Contract!Next]_(Contract!vars)
  OBVIOUS
<1>1. ASSUME UNCHANGED req PROVE [Contract!Next]_(Contract!vars)
  BY <1>1 DEF Contract!vars, PhaseOf
<1>2. ASSUME NEW r \in Requests, RequestStep(r) PROVE [Contract!Next]_(Contract!vars)
  <2>1. /\ LocalAt(req[r], req[r].pc, settings.FallbackAnon) /\ req[r] \in Request
        /\ SendsAt(req[r], req[r].pc) /\ req \in [Requests -> Request]
    BY ReqFacts DEF LocalAt, IInv, TypeOK
  <2>2. ASSUME \A x \in Requests \ {r} : req'[x] = req[x], Advance(r)
        PROVE  [Contract!Next]_(Contract!vars)
    <3>1. /\ Phases[r] = PhaseOf(req[r]) /\ Phases' = [Phases EXCEPT ![r] = PhaseOf(req'[r])]
          /\ Sends[r] = req[r].sends /\ Sends' = [Sends EXCEPT ![r] = req'[r].sends]
      BY <2>2, SeenByCaller
    <3>2. ASSUME UNCHANGED <<Phases, Sends>> PROVE [Contract!Next]_(Contract!vars)
      BY <3>2 DEF Contract!vars, Phases, Sends
    <3>3. ASSUME Contract!Step(r) PROVE [Contract!Next]_(Contract!vars)
      BY <3>3 DEF Contract!Next
    <3>4. CASE req'[r].sends = req[r].sends
      <4>1. UNCHANGED Sends
        BY <3>1, <3>4 DEF Sends
      <4>2. CASE PhaseOf(req'[r]) = PhaseOf(req[r])
        <5>1. UNCHANGED Phases
          BY <3>1, <4>2 DEF Phases
        <5> QED
          BY <3>2, <4>1, <5>1
      <4>3. CASE PhaseOf(req[r]) = "new" /\ PhaseOf(req'[r]) \in {"failed", "working"}
        <5>1. Contract!Reject(r) \/ Contract!Accept(r)
          BY <3>1, <4>1, <4>3 DEF Contract!Reject, Contract!Accept, Contract!Move, Phases, Sends
        <5> QED
          BY <3>3, <5>1 DEF Contract!Step
      <4>4. CASE PhaseOf(req[r]) \in {"working", "streaming"} /\ PhaseOf(req'[r]) = "failed"
        <5>1. Contract!Fail(r)
          BY <3>1, <4>1, <4>4 DEF Contract!Fail, Contract!Move, Phases, Sends
        <5> QED
          BY <3>3, <5>1 DEF Contract!Step
      <4>5. CASE /\ req[r].sends > 0
                 /\ PhaseOf(req[r]) = "working" /\ PhaseOf(req'[r]) = "streaming"
        <5>1. Contract!Stream(r)
          BY <3>1, <4>1, <4>5 DEF Contract!Stream, Contract!Move, Phases, Sends
        <5> QED
          BY <3>3, <5>1 DEF Contract!Step
      <4>6. CASE /\ req[r].sends > 0
                 /\ PhaseOf(req[r]) \in {"working", "streaming"} /\ PhaseOf(req'[r]) = "answered"
        <5>1. Contract!Answer(r)
          BY <3>1, <4>1, <4>6 DEF Contract!Answer, Contract!Move, Phases, Sends
        <5> QED
          BY <3>3, <5>1 DEF Contract!Step
      <4> QED
        BY <2>1, <2>2, <3>4, <4>2, <4>3, <4>4, <4>5, <4>6 DEF Advance, Request
    <3>5. CASE req'[r].sends # req[r].sends
      <4>1. UNCHANGED Phases
        BY <2>2, <3>1, <3>5 DEF Advance, Phases
      <4>2. Contract!Send(r)
        BY <2>2, <3>1, <3>5, <4>1 DEF Advance, Contract!Send, Phases, Sends
      <4> QED
        BY <3>3, <4>2 DEF Contract!Step
    <3> QED
      BY <3>4, <3>5
  <2>3. ASSUME NEW new \in Request, NEW stage, Go(r, new, stage)
        PROVE  /\ \A x \in Requests \ {r} : req'[x] = req[x]
               /\ req'[r].pc = stage /\ req'[r].ok = new.ok
               /\ req'[r].emitted = new.emitted /\ req'[r].sends = new.sends
    BY <2>1, <2>3 DEF Go, Request
  <2>4. CASE Quiet(r)
    BY <2>1, <2>2, <2>4 DEF Quiet, PhaseOf, SendsAt, Advance
  <2>5. ASSUME NEW login \in BOOLEAN, resolveModel(r, login) PROVE [Contract!Next]_(Contract!vars)
    <3>1. PICK stage \in {"done", "pick"} : Go(r, req[r], stage)
      BY <2>5 DEF resolveModel
    <3>2. ~req[r].ok /\ ~req[r].emitted /\ req[r].pc = "resolve"
      BY <2>1, <2>5 DEF resolveModel, At, SendsAt
    <3> QED
      BY <2>1, <2>2, <2>3, <3>1, <3>2 DEF PhaseOf, Advance
  <2>6. CASE send(r)
    <3>1. ~req[r].ok /\ ~req[r].emitted /\ req[r].pc = "send"
      BY <2>1, <2>6 DEF send, At, SendsAt
    <3>2. CASE req[r].attempt < RetryAttempts
      <4> DEFINE new == [req[r] EXCEPT !.sends = @ + 1]
      <4>1. req[r].sends < RetryAttempts + 1
        BY <2>1, <3>1, <3>2, BoundsArePositive DEF SendsAt, Request
      <4>2. /\ new \in Request /\ new.sends = req[r].sends + 1
            /\ ~new.ok /\ ~new.emitted
        <5>1. req[r] \in Request /\ req[r].sends + 1 \in Nat
          BY <2>1 DEF Request
        <5>2. new \in Request
          BY <5>1 DEF Request
        <5>3. new.sends = req[r].sends + 1
          BY <2>1 DEF Request
        <5> QED
          BY <2>1, <3>1, <5>2, <5>3 DEF Request
      <4>3. Go(r, new, "reply")
        BY <2>6, <3>2 DEF send
      <4>4. /\ \A x \in Requests \ {r} : req'[x] = req[x]
            /\ req'[r].pc = "reply" /\ ~req'[r].ok /\ ~req'[r].emitted
            /\ req'[r].sends = req[r].sends + 1
        BY <2>3, <4>2, <4>3
      <4> QED
        BY <2>2, <3>1, <4>1, <4>4 DEF PhaseOf, Advance
    <3>3. CASE ~(req[r].attempt < RetryAttempts)
      <4>1. Go(r, req[r], "giveup")
        BY <2>6, <3>3 DEF send
      <4> QED
        BY <2>1, <2>2, <2>3, <3>1, <4>1 DEF PhaseOf, Advance
    <3> QED
      BY <3>2, <3>3
  <2>7. CASE emit(r)
    <3> DEFINE new == [req[r] EXCEPT !.emitted = TRUE]
    <3>1. ~req[r].ok /\ ~req[r].emitted /\ req[r].pc = "reply" /\ req[r].sends > 0
      BY <2>1, <2>7 DEF emit, At, SendsAt
    <3>2. new \in Request /\ new.sends = req[r].sends /\ new.ok = req[r].ok /\ new.emitted
      BY <2>1 DEF Request
    <3>3. Go(r, new, "reply")
      BY <2>7 DEF emit
    <3> QED
      BY <2>2, <2>3, <3>1, <3>2, <3>3 DEF PhaseOf, Advance
  <2>8. CASE replied(r)
    <3>1. ~req[r].ok /\ req[r].pc = "reply" /\ req[r].sends > 0 /\ req[r].attempt + 1 \in Nat
      BY <2>1, <2>8 DEF replied, At, SendsAt, Request
    <3>2. ASSUME NEW new \in Request, NEW stage \in {"heal", "send", "giveup"}, Go(r, new, stage),
                 new.ok = req[r].ok, new.emitted = req[r].emitted, new.sends = req[r].sends
          PROVE  [Contract!Next]_(Contract!vars)
      BY <2>2, <2>3, <3>1, <3>2 DEF PhaseOf, Advance
    <3>3. ASSUME NEW cause \in Cause, attemptFails(r, cause) PROVE [Contract!Next]_(Contract!vars)
      <4> DEFINE new == [req[r] EXCEPT !.attempt = @ + 1, !.cause = cause]
      <4>1. /\ new \in Request /\ new.ok = req[r].ok
            /\ new.emitted = req[r].emitted /\ new.sends = req[r].sends
        BY <2>1, <3>1 DEF Request
      <4>2. PICK stage \in {"send", "giveup"} : Go(r, new, stage)
        BY <3>3 DEF attemptFails
      <4> QED
        BY <3>2, <4>1, <4>2
    <3>4. CASE Go(r, [req[r] EXCEPT !.healed = TRUE], "heal")
      <4> DEFINE new == [req[r] EXCEPT !.healed = TRUE]
      <4>1. /\ new \in Request /\ new.ok = req[r].ok
            /\ new.emitted = req[r].emitted /\ new.sends = req[r].sends
        BY <2>1 DEF Request
      <4> QED
        BY <3>2, <3>4, <4>1
    <3>5. CASE Go(r, [req[r] EXCEPT !.ok = TRUE], "release")
      <4> DEFINE new == [req[r] EXCEPT !.ok = TRUE]
      <4>1. new \in Request /\ new.ok /\ new.sends = req[r].sends
        BY <2>1 DEF Request
      <4> QED
        BY <2>2, <2>3, <3>1, <3>5, <4>1 DEF PhaseOf, Advance
    <3>6. req[r].cause \in Cause /\ "none" \in Cause /\ "rejected" \in Cause
      BY <2>1 DEF Request, Cause
    <3> QED
      BY <2>8, <3>3, <3>4, <3>5, <3>6 DEF replied
  <2> QED
    BY <1>2, <2>4, <2>5, <2>6, <2>7, <2>8, QuietSteps DEF RequestStep
<1>3. CASE PoolChanges
  BY <1>1, <1>3 DEF PoolChanges
<1>4. ASSUME NEW a \in Accounts, accountSetStatus(a) PROVE [Contract!Next]_(Contract!vars)
  BY <1>1, <1>4 DEF accountSetStatus
<1> QED
  BY <1>1, <1>2, <1>3, <1>4 DEF Next, vars

\* streamGenerateWithFiles keeps its contract for every limit: at most RetryAttempts + 1
\* prompts are sent for a call, none after a part of an answer was seen, and an answered
\* or failed call does nothing more.
THEOREM KeepsContract == Spec => Contract!Spec
<1>1. Init => Contract!Init
  BY DEF Init, Start, PhaseOf, Contract!Init
<1> QED
  BY <1>1, InitEstablishes, NextPreserves, StepRefines, PTL DEF Spec, Contract!Spec
=============================================================================
