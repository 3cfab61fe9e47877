# TLA+ models of gemini-web2api-go-PostgreSQL

The program is an HTTP gateway that speaks the OpenAI API (chat completions and
responses) on one side and the Gemini web application on the other. It keeps a pool
of Google accounts (cookies) and a pool of proxies in PostgreSQL, sends every request
with one account through one exit, and writes back how it went. This directory holds
models of it, the configurations that check them with TLC, and proofs for TLAPS.

Paths below are relative to `src/internal/app/` unless they start with `src/` or
name the repository's `README.md`.

## 1. Inventory

| Component | State it keeps | Operations | Correct when |
|---|---|---|---|
| Per-IP rate limiter, `ratelimit.go` | per exit: in-flight counter, minute and hour windows, a mutex | `trySlotAcquire`, `slotRelease`, `slotUsage`, `allSlotUsage` | the counter is the number of holders; no grant above a limit; no refusal without a full limit |
| Proxy pool, `proxy.go` | table `proxies`, its copy `proxyCache`, a cursor | `pickProxyPreferring`, `recordProxyResult`, `loadProxies`, create/update/delete/reset, migration and seeding | a resident proxy never leaves the pool; cache and table come to agree; the startup parameter is followed and the panel respected |
| Request gateway, `gemini.go` | locals of the goroutine | `resolveModel`, `acquireSlot`, `streamGenerateWithFiles`, `releaseSlot`, `probeGemini` | every slot is given back once; a request is put down to the account that served it; no answer starts twice; no silent downgrade |
| Account pool, `cookie_pool.go` | table `accounts` | pick, mark, auto-disable, toggle, bind an exit, import, merge and write back Set-Cookie, migration and seeding | a dead account leaves the rotation, a live one does not; the binding is sticky; a row keeps its account's session |
| Session rotation, `rotate.go` | the rows; no mutex per account | `fetchRotateParams`, `rotateAccount`, `rotateAllAccounts` | the cookie written back is the account's |
| XSRF tokens, `xsrf.go` | cache of token by cookie, with a TTL, one mutex | `getXSRF`, `getUploadTokens`, `invalidateXSRF` | a token goes with the cookie it was taken for; a refused one is not served again |
| Build label, `bl.go` | label, time, single-flight flag, one RWMutex | `currentBL`, `refreshBL` | one refresh at a time, which ends; no label older than before |
| Streaming, `sse.go`, `messages.go`, `gemini.go:208-227`, `server.go` | `deltaTracker`, `toolFenceGate`, what was sent | `lineCB`, `Push`, `Sent`, `remainingOf`, the ends of both handlers | the client gets each part of the answer once, and no half of a tool fence; a stream has one beginning and one end |
| Scheduler and statistics, `scheduler.go`, `server.go:148-177` | tables `requests`, hourly and daily buckets | `recordRequest`, both catch-ups, `aggregateBucket`, `percentiles`, the retention sweep, the minute reload, the rotation tick | what is stored for an hour is what the rows said, counts each request once, and is final |
| Runtime configuration, `runtime.go` | `rtCfg()` in memory, a kv row | `initRuntimeConfig`, `saveRuntimeConfig` | memory and table agree |
| API key, sessions, `apikey.go`, `admin.go` | key in memory and kv, `sessions` | init, rotate, set, login | the key in force is the flag's or the stored one |
| Boot, `app.go`, `proxy.go:110-245`, `cookie_pool.go:170-330` | kv notes of what seeding created | `Run`: migration, seeding, key | a value enters a pool once, wherever a boot ends |
| Database, `db.go` | at most eight connections | `kvGet`, `kvSet`, every statement above | no statement waits for ever; no error is taken for "no value" |
| Admin panel, `admin.go`, `admin_cookies.go` | none of its own | toggles, checks, rotations, CRUD | an operator's change takes effect |
| HTTP clients, uploads, images, context file, tokenizer, MCP, search | cached clients | calls to the upstream | outcomes reach the gateway as errors |

Interaction: a handler (`server.go`) calls the gateway and forwards what its
callbacks deliver; the gateway reads and writes the account pool and the proxy pool
through SQL and through `proxyCache`, takes a slot from the limiter, and calls the
token cache and the rotation. The handler then records the request, in a goroutine of
its own. The panel changes the same tables. The scheduler, one goroutine, reloads the
proxies every minute, rotates sessions and aggregates. There are no transactions
around several statements except in `aggregateBucket`: what holds between goroutines
is the mutex of a slot, `proxyMu`, `xsrfMu`, `blMu`, `apiKeyMu`, and the atomicity of a
single SQL statement.

What is hard: requests are concurrent goroutines that read a row, call the
upstream for seconds, and write the row back; a request has about a dozen ways
to end after it took a slot; retries, re-fetched tokens, a second account and
anonymous fallback nest; the cache of the proxies is replaced from a snapshot
that may be old; the upstream repeats its text in every frame and may change its
mind about what was already forwarded; rows of requests arrive after their hour was
aggregated; a boot may end between the statement that adds a row and the one that
notes it. `PROJECT.json` lists each such place under `hazards`, with the property
that covers it or the reason why none does.

## 2. Modules

| Module | Models | Used by |
|---|---|---|
| `SlotLimiter` | `ratelimit.go` and the replacement of its limits | `MCSlotLimiter`, `SlotLimiter_proofs` |
| `ExitSemaphore` | abstract: one counting semaphore per exit | `SlotLimiter` (refinement) |
| `ProxyPool` | `proxy.go`: table, cache, loads, panel | `MCProxyPool`, `Caches_proofs` |
| `Gateway` | `gemini.go` with what it calls | `MCGateway`, `Gateway_proofs` |
| `RequestContract` | abstract: what a call promises its caller | `Gateway` (refinement) |
| `AccountHealth` | the account rows, statement by statement | `MCAccountHealth`, `AccountHealth_proofs` |
| `CookieRefresh` | one row's cookie, its tokens, rotations | `MCCookieRefresh`, `CookieRefresh_proofs` |
| `BuildLabel` | `bl.go` | `MCBuildLabel`, `Caches_proofs` |
| `ReplyText` | the functions on reply texts | `Streaming` |
| `Streaming` | the two handlers from request to last event | `MCStreaming`, `Streaming_proofs` |
| `Statistics` | `recordRequest`, `scheduler.go` | `MCStatistics`, `Statistics_proofs` |
| `Boot` | migration, seeding, the API key, restarts | `MCBoot`, `Boot_proofs` |

### SlotLimiter
`now`, `limits`, `inflight`, `minuteWin`, `hourWin` are the clock, `rtCfg()` and
the fields of `ipSlot`. `holding` is the deferred `releaseSlot` of a caller and
`verdict` the answer it got; `grants` is history. `Acquire` and `Refuse` are the
two outcomes of `trySlotAcquire`, `Release` is `slotRelease`, `slotUsage` the
panel's read (which prunes), `SaveLimits` the panel's save, `Tick` the clock. Each
is one action because each runs under the slot's mutex. A window is the set of
grants whose timestamps it holds, which is what an append-only list with a dropped
prefix is while the clock does not run backwards. The reads of `rtCfg()` in one
`trySlotAcquire` are one snapshot.

### ProxyPool
`table` and `cache` are the two copies; a row keeps `enabled` and `fail_count`.
`recordProxyResult` is two actions (`RecordInTable`, `RecordInCache`), since the
mutex is taken after the statement; `loadProxies` is two (`LoadQuery`,
`LoadStore`) or ends in `LoadFails`; the toggle is two (`ToggleRead`,
`proxyUpdate`). Create, delete and reset write the row and go on to a load, as the
handlers do. The breaker's cooldown is left out: an open breaker may have cooled
down at any time, so `Pick` accepts every enabled entry. A PATCH that sets
`enabled` explicitly, weights, names and URLs are not modelled.

### Gateway
`req[r]` is the record of the locals of `streamGenerateWithFiles`: `pc` names the
call it is about to make, `seen` is the copy of `acct.ProxyID` made when the
account was picked or read again after its rescue, `cookie` is whose cookie and token go upstream, `cookieID` who
the request is recorded under. The shared state is the accounts table, the pool
(`listed`, `usable`) and `inflight`. Each action is one statement on shared state
or one call to the upstream. A request that has its token looks at the binding in two
steps, as the code does: `proxyUsableByID` under `proxyMu`, then the UPDATE of
`bindAccountProxy`, which may come after a change of the pool. A cookie that is no longer
signed in (outside `Valid`) may still get a token, because `getXSRF` serves a cached one
for twenty minutes, or because its rotation helps; what is sent with it may be refused.
Abstractions:
- a slot is a place in a semaphore, as `SlotLimiter` implements it; a full rolling
  window may refuse any slot at any time;
- `PoolChanges` is no translation but a stand-in: one step to any other pool, for what
  the breaker, the reloads and the panel do in `ProxyPool`;
- counting a result in an account's row is one step here and three in
  `AccountHealth`;
- the settings are fixed for a behaviour;
- content frames arrive with status 200 only; which frames is `Streaming`'s subject,
  here only that the client has seen some (`emitted`);
- what a response sets is `CookieRefresh`'s subject;
- `outages` says whether calls may fail for reasons that are not the cookie's; a
  pick that fails because the database does, the import and the deletion of
  accounts are not modelled.

### AccountHealth
The row has `enabled`, `fail_count` and `last_used_at`. A pick is a SELECT
(`pickSelect`, whose ORDER BY is `Before`) and an UPDATE (`pickTouch`); a failure
is an UPDATE (`markFailure`), the SELECT of `autoDisableIfDead`
(`autoDisableJudge`) and its UPDATE (`autoDisableWrite`); a toggle is a read and a
write. Any statement may fail, `MaxErrors` times in all. `Update` is one whose error the
code ignores; a failing SELECT of `autoDisableIfDead` ends the look at the account, and
so does a failing UPDATE, since neither is retried. `fresh` (put back by the panel, no
failure counted since) and `overlooked` (a statement of the last look failed) are
history. A pick whose SELECT fails finds no account, like one that is not made.

### CookieRefresh
One account. `row` is its cookie in the table, `xsrfCache` the map of `xsrf.go`,
`turn` the token the upstream accepts at the moment, `issued` a version number for
what responses set (one more with every response that changes a cookie). `go[g]` holds the locals of a goroutine, which is a request, a
check (`checkAccountCookie`) or a rotation: `cookie` is its copy, `header` the Cookie
header its attempts send, `token` and `tokenOf` the token and the cookie it was taken
for; `base`, `blanked`, `rejected` and `overlap` are history. A cookie is a session
(`who`) and a version of each refreshed item (`ver`, 0 for an empty value), which is what
`mergeSetCookie` and `cookieIdentity` tell apart. A response may set items, delete one,
or name another session. Of the deletions `mergeSetCookie` leaves out those in one form
only (`gone`: an empty value and `expires=thu, 01 jan 1970`); any other (`blank`:
Max-Age=0, another past date) is merged as an empty value, here as in the code.
`getXSRF` is `tokenHit`, or `tokenMiss`, `fetchAppTokens` and `storeToken`, because the
page is fetched outside the lock; `upload` and `storeUpload` are `getUploadTokens`, the
second reader and writer of the same cache, once per file between the token and the first
attempt; `invalidateXSRF` drops the entry of the current cookie; `answered`, `attemptFails` and `heal` are the three outcomes of an attempt,
each of which merges the response's headers (`receive`) and goes through
`updateSelect` and `updateAccountCookie` if the cookie changed. `rotatePage`,
`rotatePost`, `rotateFails` are a rotation, `reread` what a rescued request does after
it. The panel deletes the account (`accountDelete`), the upstream changes its token,
an entry expires.
The attempts of one request follow each other; that the first of them needs a slot and
an exit, and that others try other accounts, is in `Gateway`.

### BuildLabel
`blFetched`, `blStale` (for `blFetchAt` and the TTL) and `blFetching` are the three
variables; labels are numbered in the order the upstream publishes them. `currentBL`
reads under the read lock and goes on to `kick`, the second check under the write
lock, which starts a refresh: `fetchPage`, `storeLabel` (if the page had a well-formed
label) and `endRefresh`, the deferred function. The panel switches `auto`, the TTL
runs out, the upstream publishes. The specification's own names begin with `BL`
(`BLSpec`, `BLNext`, `BLTypeOK`), because one module of proofs extends this module and
`ProxyPool`.

### ReplyText and Streaming
A text is a sequence of tokens: three backticks, the word `tool_call`, line break,
space, a piece of JSON, the opening of a code artifact, or a word. A cut inside a
token behaves like a cut before it, since half of a token is held back or trimmed in
the same way. `ReplyText` has `cleanGeminiText`, `deltaOf` (`deltaTracker.Push`),
`gatePush` (`toolFenceGate.Push`: `pushLoop` is its loop, `passMark` a turn that finds
a mark, `holdBack` the last one), the regular expression of tool calls, `toolCalls`,
`textOf` and `remainingOf`. What the code does by loops is written as recursive
functions, which can be reasoned about.
`Streaming` follows one request. `mode` is the API, whether it is streamed, whether it
has tools; `answer` is what the upstream has to say and `pos` how much of it its last
frame showed; `raw` are the frames of this attempt; `emitted`, `emittedReasoning` and
`gate` the trackers; `wire` is what the client has got, event by event, and `rows` the
statuses recorded. `line` is a frame with all the callback does; `attemptFails` ends an
attempt at any point; `replied` is the end of `streamGenerate` with the handler's
rest: remaining reasoning, remaining text, calls, finish (`chatEnd`) or one event per
output (`responsesEnd`). `upstreamWrites` lets a frame continue the answer or replace
it, at most `MaxRewrites` times.
`Pieces` puts the events of one kind together, as a client does. `Cumulative`, the
hypothesis of `AnswerDelivered`, says that each frame continues the one before after
cleaning, and for the reasoning also as it came: `extractReasoning` takes the longest
raw reasoning, and TLC shows a frame whose raw reasoning is longer and whose cleaned
one is not. `EachWordOnce` is a device of the model: no answer has a word twice, so a
word that is twice on the wire was sent twice.
Abstractions: a line holds one text; what one `Push` sends in several pieces is one
event; content frames come with status 200 only; usage numbers, ids and layout are left
out.

### Statistics
`requests`, `hourly` and `daily` are the tables (of one model and one proxy); `stamped`
are the rows whose insert goroutine still runs. An aggregate is the set of the rows it
counts, of which the code stores the number: the set tells which rows those are, and
since no two hours share a row (`HoursShareNoRow`, proved) the number of a day's union
is the sum the code computes. The scheduler's single goroutine has `todo`, the jobs of its boot
sequence or of one tick, and `walk`, the buckets the current catch-up has still to do.
`aggregateHour` and `aggregateDay` read and store one bucket. `aggregateFails` stores any
part of it: nothing when the query, the INSERT or the commit fails, some of the rows when
a Scan fails or the read breaks off, because such rows are skipped, `rows.Err()` is never
asked and what was read is committed. Either way the loop goes on with the next bucket.
`retentionSweep` deletes old rows, or fails to. `failed`, `broken`, `upTo` and `dayOver`
are history: which hours and days an aggregation failed for, which hour was the last one
stored when a day was put together, and whether the hourly job had begun after that
day. `crash` loses the rows still to be inserted, `startScheduler` runs the boot
sequence. `clock` is held back by `MaxLag`: the hourly ticker fires every five minutes,
and what else that goroutine does (rotations) delays it for a bounded time only. The
bound matters: `StatisticsBounds` asks that the delay and one hour together are no longer
than the retention (which is counted in days), for otherwise the sweep deletes rows of an
hour that no catch-up has had as closed; TLC shows it for hours of three ticks, a day of
one hour and a delay of two. The percentiles are a function of a sample, compared with their definition on short and
long samples by TLC and on all samples by a proof.

### Boot
A behaviour follows one of the two pools (`kind`); their seedings are built alike. `pc`
is the next statement of `Run`: the migration of what an older version left in kv
(`legacyDecide`, `legacyMark`), the startup parameter (`syncRead`, `drop`, `enter`,
`noteVal`, `noteID`) and the key (`initAPIKey`). `stop` may come between any two, and
`Run` starts again with other parameters. When the process is up, the panel adds, edits
and deletes rows, responses refresh a cookie (`refresh`), and panel requests change the
key in two steps (`writeAPIKey`, `storeAPIKey`). `Get` and `Set` are `kvGet`, `kvSet`
and the lists: under `KvMayFail` a failing read is an empty value and a failing write
changes nothing, as the code has it; a generated key is used even if it was not stored.
`hist` remembers migrations, values the panel touched, and whether a boot ended half-way
(`disturbed`, `torn`).
A cookie and the file it came from are one value; a cookie file that cannot be read and
a proxy URL that is refused are `Bad`.

## 3. Runs

| Run | Question | Result |
|---|---|---|
| `slot_limiter` | are slots conserved, grants within the limits and refusals justified, and is it a semaphore? | holds |
| `proxy_pool` | is a resident proxy ever lost from the pool, and do the copies converge? | holds |
| `gateway` | two concurrent requests: slots, attribution, blame, downgrade | holds |
| `gateway_alone` | one request, a changing pool and panel: does it keep its contract, and does the token loop get past dead cookies? | holds |
| `account_health` | failing statements, interleaved goroutines: is a dead account overlooked, does it leave the rotation? | holds |
| `cookie_refresh` | two goroutines on one row: whose session is stored, do tokens fit, does healing heal, what does a merge lose? | holds |
| `build_label` | one refresh per expiry, no older label, no flag left up? | holds |
| `streaming` | is what the client has at the end the answer, once, however it was cut? | holds |
| `streaming_tail` | do the pieces of a stream always make up the final text? (`messages.go:210-211`, `gemini_test.go:176`) | violated |
| `statistics` | late rows, failures, interrupted reads, restarts, sweeps: are the aggregates right, final, and complete in the end? | holds |
| `boot` | three boots that may end anywhere, panel changes between them: is each value adopted once, followed, and the panel respected? | holds |
| `boot_cookie_file` | does the row of the previous `--cookie-file` always go? (`cookie_pool.go:232-234`) | violated |

`PROJECT.json` quotes the comments that the two violated runs contradict:

- `streaming_tail`: a streamed reply with tools begins with a call and ends with three
  backticks. The gate has sent the line break behind the call's fence and holds the
  backticks back; the final text is trimmed, so `remainingOf` (`server.go:386`) finds
  that it does not begin with what was sent and sends nothing more: the client misses
  the tail. A code artifact that is closed after its beginning was forwarded, or an
  upstream that rewrites, has the same effect.
- `boot_cookie_file`: `dropSeededCookie` (`cookie_pool.go:295`) recognises its row by
  the cookie of the file, which the first response with Set-Cookie has changed. With
  the next file a second row is added and the old one stays.

The ten `pass` runs have a mutant for every property: a plausible bug that makes the
property fail under the same bounds. Mutants are defined beside the definition
they replace and are used by no specification.

A type invariant is a property of a run only for `Streaming` and `Statistics`; it is
proved for every module with actions (section 4).

### Bounds
- `slot_limiter`: three callers on two exits, two configurations (one with a limit
  switched off), windows of 1 and 3 ticks, clock to 4, four grants. Three callers
  meet a limit of two; four ticks let an entry leave the hour window; four grants
  fill both windows of an exit and leave one over.
- `proxy_pool`: one resident and one id to create, one request, two handlers with
  two operations between them, the reloader. Two handlers and the reloader are
  three loads in flight, so a stale one can be stored last. The breaker's threshold is
  not read by the code modelled here.
- `gateway`: two requests, two accounts of which one is signed in, one proxy with
  one place, two tries, one attempt, one change by the panel or the pool; outages,
  with the strict defaults and with every fallback. `gateway_alone`: one request, two
  proxies, two attempts, accounts that may already be bound, strict or lax settings
  with and without outages, one change at any moment. Retries concern one request
  only, which is why the second attempt is in the second run.
- `account_health`: two accounts, one request, one check, one toggle, a threshold
  of two and three failures, so that the threshold is reached, passed and reached
  after a toggle; one failing statement, at any place. The clock has two values: equal and different `last_used_at`.
- `cookie_refresh`: two goroutines of any kind, one refreshed item, two attempts, two
  responses that change a cookie (`MaxIssues` 3: the first version and two more) among any
  number that do not, one new token of the upstream, any number of uploads. Two writes from two
  copies are the least that loses an update; a refused token needs one change.
- `build_label`: four requests, two releases, two expiries: three requests pass the
  first check together and a fourth comes after the refresh.
- `streaming`: eight answers of at most nine tokens (white space at both ends, a call
  in the middle, first, cut short and with backticks in its arguments, a code block
  that ends like a fence, a code artifact, reasoning only), three frames, so two cuts
  at any token, one frame that replaces the text by another answer, two attempts.
  `streaming_tail` needs one attempt and no replacement.
- `statistics`: days of two hours of two ticks, rows kept for one day, seven ticks
  (Start 4 to 10), two requests, one failing aggregation, one restart, an hourly job
  put off by two ticks at most. The failing aggregation stores any part of its bucket. So an hour is swept after it was stored, a day is closed
  and stored, and a row may arrive late. Samples of percentiles: all of length up to 4
  over three values, and one each of length 5 to 45, past the point (20) where p95 is
  no longer the maximum.
- `boot`: two values, two keys of which one may be a flag, three boots, two changes.
  Three boots are a value, another, and the first again. `boot_cookie_file`: two boots,
  one change.

`CHECK_DEADLOCK FALSE` is set for all but `SlotLimiter` and `ProxyPool`: requests,
refreshes and boots happen a bounded number of times there and the system then stops.
Symmetry is used only in runs without liveness properties.

### Fairness
- `ProxyPool`: goroutines run on, the minute ticker keeps firing, and the
  scheduler's SELECT succeeds infinitely often if it is tried infinitely often
  (strong fairness: single outages are allowed, a permanent one is not). Nobody
  has to use the panel or send a request.
- `Gateway`: a handler runs to its end. Every upstream call goes through a client
  with a timeout (`client.go`), so each call returns.
- `AccountHealth`: a goroutine that has counted a failure runs to the end of
  `autoDisableIfDead`. Requests and the panel need not act.
- `BuildLabel`: a refresh under way goes on, since the clients of the page request have
  timeouts (`client.go:71, 124`). Nobody has to send a request.
- `Statistics`: the scheduler's goroutine goes on with its work; its hourly ticker is
  served again and again although other tickers compete with it in the `select` (strong
  fairness); a service that ended is started again. Requests need not come, rows need
  not be inserted.
- `Streaming`, `CookieRefresh`, `Boot` and `SlotLimiter` state safety only and assume no
  fairness.

## 4. Proofs

All assumptions on constants are those named in the modules; TLC evaluates them too.

`SlotLimiter_proofs` proves, for every finite set of callers, every set of exits,
every choice of limits and spans:
- `TypeCorrect`, `SlotsConserved`, `WindowsNeverForget` (invariants) and
  `LimitsRespected`, `NoSpuriousRefusal` (action properties);
- `LimiterIsSemaphore`: if every configuration limits the concurrency, the limiter
  implements `ExitSemaphore`.

The invariant is `IInv`: types; `limits` is one that may be saved; the grants are
finite, none lies in the future and ids are below their number (so a new grant is
new, and counting it adds one); counters equal holders; windows are complete.
From completeness, the pruned windows are exactly the recent grants
(`PrunedWindowsAreRecent`), so the lengths the code compares are the true numbers,
and the action properties follow from the guard of `Acquire` and `Refuse`.

`Caches_proofs` is about the two copies of something kept elsewhere, the pool and the
build label. For `ProxyPool` it proves `TypeCorrect` and `ResidentsNeverLost` for any
proxies, requests, handlers and failing statements. The property is not inductive: a
list read earlier may be stored at any time. The strengthening (`ResidentsInSnapshots`)
says that a list in flight has every resident still in the table; it is preserved
because a row that was there at boot can only leave the table, never come back.
`StepKeepsResidents` states once what a step must do for that, and every action is
shown to do it.
For `BuildLabel` it proves `LabelTypeCorrect`, `OneFlight` and `LabelsNeverGoBack` for
any set of goroutines. `SingleFlight` says that the flag is up exactly while one
goroutine has a refresh; `FirstOfExpiry` that none has begun while the label is expired
and the flag is down, so the one that begins is the first; `LabelsAscend` that a label
about to be stored is not older than the one in use, which needs that nobody else
stores.

`Gateway_proofs` proves, for any finite sets of requests and accounts and any proxies,
limits and settings:
- `TypeCorrect`, `SlotsAlwaysFollow`, `AttributionAlwaysHonest`,
  `NeverSilentlyDowngraded`. The properties speak of requests that are sent or done, so
  the invariant says what the locals are at every stage (`LocalAt`): no exit and no
  cookie before a slot is taken; an exit from then to the release; no cookie while
  accounts are tried; `cookieID = cookie` from `prepare` on. `Moves`, `Enters` and
  `releaseSlotPreserves` then account for the counters in the three ways a step can
  touch them: not at all, a place taken, a place given back. One lemma per action
  follows;
- `NeverBlamedTwice`: `BlameAt` says which stages come after the only one that blames,
  and `Once` that the list of the blamed has no account twice;
- `LoopAlwaysFinds`, from a second invariant (`CalmInv`), for any number of concurrent
  requests: without outages and changes by the panel an account that fails is a dead one
  (`CalmAt`), so no signed-in account is skipped, and none is ever disabled by another
  request (`StaysEnabled`, `ValidEnabled`); hence the loop ends without an account only
  when none is signed in or all its tries went to dead ones. That an account is found as
  long as one is left is `HealthiestExists`: a finite set of accounts has a healthiest
  one, by well-founded induction on its count. The theorem is about the token loop only:
  section 5 says what becomes of a dead cookie with a cached token;
- `KeepsContract`: `Contract!Spec`, the part of `RequestContract` without fairness.
  `StepRefines` has one case per action: it is a step of the contract or leaves the
  caller's view (`SeenByCaller`) as it is.

`AccountHealth_proofs` proves `TypeCorrect` and `DeadAlwaysNoticed` for any number of
goroutines, any threshold and statements that fail at will. `DeadIsNoticed` is inductive
with the types and the fact that a busy goroutine has an account. `UpdateWrites` says what
a statement does whether it fails or not, `OthersStayNoticed` that a step for one account
leaves the others noticed; each action then shows for its own account that the goroutine
which counts a failure is the one about to look, and that a look which ends without a
verdict leaves the account in `overlooked`.

`CookieRefresh_proofs` proves, for any goroutines, items and attempts:
- `TokensFit`: headers and token belong together whenever something is sent, because
  both are set together and nothing else touches them (`Good`: `tokenOf = header`
  outside `store`);
- `HealingHelps`: from an invalidation nobody was fetching at, neither the cache nor a
  fetched token has the refused one for this cookie (`NotTheRejected`). A goroutine
  that begins to fetch later gets the token of the moment, which is newer than a
  refused one (`Good`: `rejected < turn`);
- `MergingLosesNothing`: an item of a copy is never older than in the row the copy was
  made from, unless a response emptied it since (`Good`: `p \in blanked` or
  `base.ver[p] <= cookie.ver[p]`), so a write that puts an item back was made from
  another row than the present one or passes a deletion on;
- `SessionsStay`: `~SelectMayFail => IdentityKept`. Not inductive: a goroutine past the
  SELECT writes what it has. `Own` adds that this is the account's own session, or the
  row is gone.

`Boot_proofs` proves `TypeCorrect` with failing statements, and under `~KvMayFail`, for
any values, keys, changes and boots:
- `KeysStayTogether`: while a request changes the key it is the only one and the stored
  key is its (`KeyInv`);
- `MigratedOnce`: between the adoption and its mark the row is in the pool, so a second
  boot finds it instead of adopting again (`LegacyInv`);
- `PanelIsRespected`: the row with the noted id was created by seeding with the noted
  value, but between the two notes (`NoteInv`); hence `drop` deletes only such a row
  that still has that value;
- `ParameterFollowed`: `FollowInv` says at every statement of the boot which rows that
  seeding created can be left and where the noted value is.

These four do not hold when statements may fail: section 5 says how.

`Statistics_proofs` proves `TypeCorrect` with every statement failing at will, and under
`~SelectMayFail` (the SELECT of the last bucket answers), for any clock, retention and
bounds, `HoursAlwaysCounted`, `DaysAlwaysFromHours`, `AggregatesStayFinal` and
`HoursShareNoRow`. The argument is about the hours the hourly job has had, those before
the `Frontier`: the next bucket while it walks, afterwards the hour it began in.
- `Settled` is an hour that needs no more rows: an aggregation of it failed, with nothing
  or a part of it stored, or it or a later one is stored. `Passed`: an hour before the
  frontier is settled or had no row in time. A catch-up that begins with the oldest row or behind the last stored
  bucket skips no other hour (`HourlyCatchupPreserves`);
- `Kept`: the rows of all other hours are still there. The sweep respects it because a row
  that has expired belongs to an hour before the frontier (`ExpiredIsPassed`), which is
  where the assumption about the delay comes in, and because the sweep never runs while
  the hourly job is due (`Shape`: the boot sequence has it last);
- `WalksBeyond`: a catch-up stores only buckets beyond the last one, so nothing stored is
  touched, and `Closed`: only closed hours are stored, so a row that comes in later is
  late by definition. A day put together after an hourly job that began when the day was
  over (`dayOver`) so has every hour that did not fail: `Passed` is about them all.
That the number of hours and ticks is a quotient is used through four lemmas on `\div`
(`Quotient` to `QuotientAtLeast`), and MAX(bucket) through the existence of a greatest
element of a bounded set (`MaxIsGreatest`).
`PercentileOfAnySample` is about the function alone: of any latencies, ties and short
samples included. `InOrder` says what sorting does without doing it, by how many precede
a latency (`Preceding`). Of two latencies one precedes the other, so no two are preceded
by equally many (`PrecedingIs`), and by the pigeonhole principle there is one for each
place (`InOrderIs`). `PercentilesAlwaysRight` is the case TLC evaluates.

`Streaming_proofs` proves, for any words, any answers with no word twice, and any number
of frames, rewrites and attempts, `TypeCorrect`, `CutsMakeNoDifference`, `StreamsInOrder`,
`WholeAnswerArrives` and `NothingArrivesTwice`. None of them is inductive: what the client
has at the end depends on three copies of the answer made on the way (tracker, gate,
wire). `IInv` ties them to each other:
- `Traced`: what a tracker has let through is a cleaned frame of this attempt; so the
  client never has more than one frame's text, which is why nothing comes twice even if
  the upstream rewrites. It survives a retry because only a silent attempt is repeated
  (`Control`);
- `GateFollows`: the gate is what one push of all that was let through makes of a new
  gate. Each frame needs that a push of two texts is two pushes (`PushInTwo`,
  `PushMore`), for every state of the gate and every cut;
- `WireText`: the client has what the gate or the tracker says was sent;
- `Latest`: of frames that continue each other, the tracker is at the last one, so that
  `remainingOf` finds a prefix. With tools the gate's text has to be compared with the
  parsed one: `GateParses` and `RestOfGate` show that on a well-fenced text gate and
  parser take out the same blocks, and `AnswerComplete` that delta and remainder are the
  text;
- `Exhausted`: no frame of the past has reasoning left to give, hence none is sent at
  the end after text (`StreamsInOrder`, for an upstream that thinks first);
- `WireLined` and `AtTheEnd` carry the order of the events and the results.

The recursive functions need their defining equation first. `Recursion` proves that a
recursion whose argument gets smaller by some rank has a solution, with the parts of the
recursion given as functions and sets, so that no operator has to be passed to a library
theorem; `SizeInduction` is induction over the rank. `WithoutIs`, `PushLoopIs` and
`PiecesAre` are its three uses, and about forty lemmas say what the operators on texts
do: `SplitAt`, `PrefixSplit`, `FromOfConcat` about pieces; `TrimIs`, `DeltaIs`,
`MarksAre`, `CallIs`; and the family of `Thinner` (a text has no more copies of a word
than another) for everything that cuts a text.

The invariants and action properties of the passing runs are proved, those of `boot`,
`IdentityKept` and all but `TypeOK` and `PercentilesRight` of `statistics` under the assumption their runs make too
(`KvMayFail` or `SelectMayFail` is FALSE). Only model-checked:
- all liveness (`PoolConverges`, `DriftHeals`, `DeadLeavesRotation`, `RefreshEnds`,
  `HoursSettle`) and `ImplementsContract`, of which the safety part is proved
  (`KeepsContract`) and the rest is liveness.

## 5. Observed, without a run of their own

Requests and the gateway:
- A failing page fetch, network errors included, counts against the cookie
  (`gemini.go:354`), although `cookie_pool.go:415-417` says it must not.
- The rescue rotation goes through the account's own exit or directly
  (`rotate.go:53`), also where `gemini.go:181-182` keeps the host's address hidden.
- A dead cookie passes the token loop while its token is cached (`xsrf.go:71-73`, twenty
  minutes). What is sent with it is refused, every attempt keeps the account, and the request fails with a good account
  left, although `gemini.go:303-305` says that one dead cookie must not fail a request.
- Two requests that picked the same unbound account bind it twice (`gemini.go:326`):
  the second replaces a usable binding, which `gemini.go:320` means to keep. A reload
  between `proxyUsableByID` and the UPDATE (`gemini.go:326-327`) that brings the bound
  exit back has the same effect with one request.
- The model gate looks for an enabled account before one is picked (`gemini.go:112`);
  if it is gone by then, a login-only model is asked for anonymously.
- `lastStatus` keeps a 401 of an earlier attempt when later attempts fail in the
  network (`gemini.go:487-488`); `Gateway` models this in `cause`.

Proxies and accounts:
- A load that read the table before a proxy was created and stores after the
  creator's own load removes the new proxy from the pool until the next minute.
  `PoolConverges` says the damage is transient.
- A reload between the two halves of `recordProxyResult` makes the cached breaker
  count a failure twice (`proxy.go:302` and the comment at `proxy.go:70`);
  `DriftHeals` says that the next reload repairs it.
- The comment at `proxy.go:39` says `recordProxyResult` calls `loadProxies`; it does
  not.
- `autoDisableIfDead` acts on the count its SELECT read (`cookie_pool.go:470`): an
  account may be disabled after a success between the SELECT and the UPDATE has cleared
  the count, although `cookie_pool.go:453` speaks of failures in a row, or after the
  panel has put it back, since the UPDATE asks for the status alone.
- A failing SELECT or UPDATE of `autoDisableIfDead` (`cookie_pool.go:471-479`) is neither
  retried nor logged: the account stays in rotation until its next failure is looked at
  (`overlooked` in `DeadIsNoticed` and `DeadLeavesRotation`).
- Enabling an account leaves `fail_count` at the threshold: one more failure
  disables it again, though `cookie_pool.go:455-457` says one failure must not.
- `checkAccountCookie` counts every error of `getXSRF`, an exit's rate limit
  included, although `explainCookieFailure` says that is not the cookie's problem.
- The repository's `README.md:597` says accounts are not disabled automatically;
  `autoDisableIfDead` does.
- Two picks within a second tie on `last_used_at` and choose the same account.
- `pickCookieAccountExcept` executes its UPDATE while its rows hold a connection
  (`cookie_pool.go:403`); eight picks at once take all eight (`db.go:146`) and wait for
  ever.

Cookies and tokens:
- A deletion in any form but one (`cookie_pool.go:578`) is merged as an empty value: the
  item then is sent and stored as `NAME=`, although the comment above
  (`cookie_pool.go:577`) says that a deletion must not be written as a new value.
- After a merge the next attempt still sends the old Cookie header and token; only the
  self-healing builds them again.
- Two goroutines that merge into copies of the same row: the later write puts the
  earlier one's items back to their old version (`LostOnlyToStaleCopies` says that this
  is the only way, but for deletions).
- The token cache is keyed by the cookie, which nearly every response changes, and
  nothing but `invalidateXSRF` removes an entry: it misses often and only grows.
- A token that was being fetched while the entry was dropped is stored after it and
  serves the refused value (`HealWorks` has this exception).
- If the SELECT of `updateAccountCookie` fails, the comparison of sessions is skipped
  and a foreign session may be stored (`SelectMayFail`).
- A request whose response swapped the session goes on with it, although it is not
  stored.

Streaming:
- A failed call is recorded as a 502 even when the client was told 400 or 429.
- A tool call with malformed JSON is removed from the text and yields no call: a reply
  of nothing else is a 200 without content.
- The remaining reasoning is taken from the longest raw reasoning of all frames and
  cleaned afterwards (`gemini.go:815-830`). If a code artifact is completed in a later
  frame, the longest raw text need not be the longest cleaned one: what was streamed and
  what the same reply says in one piece then differ.
- Arguments of a tool call that contain three backticks end the gate's fence early; the
  rest of them reaches the client as text (`WellFenced` excludes this).

Statistics:
- A read that breaks off or a row whose Scan fails leaves a part of a bucket, which is
  committed without a word (`scheduler.go:135-159`, `167-196`) and, like every stored
  bucket, is final.
- A bucket that failed is not visited again once a later one is stored
  (`scheduler.go:51-69`), and rows that arrive after their hour was aggregated are never
  counted.
- If the daily tick after midnight comes before the hourly one, the day lacks its last
  hour for good (`DaysFromHours` asks for all hours only under `dayOver`).
- A failing SELECT of the last bucket starts the catch-up at the oldest row; hours whose
  rows are partly swept get lower counts, although `db.go:58` keeps them for ever
  (`SelectMayFail`).

Boot and settings:
- A failing `kvGet` of the key is taken for the first boot and replaces it
  (`apikey.go:54`); one of the older version's values marks it as migrated without
  migrating it (`KvMayFail`).
- A generated key whose `kvSet` fails is used all the same (`apikey.go:58`); the next
  boot finds none and generates another, and the clients' key is no longer valid.
- If a boot ends after the old row was dropped and before the new value is noted, and
  the next one has the old value again, the pool is left without it. A mistyped
  `--proxy` that is then put right has the same effect. If it ends after the new row
  was added and before its value is noted, the next boot finds the value in the pool and
  notes no id, so no later one drops that row; if it ends between the two notes, the
  noted id is that of the row before (`torn`).
- A cached HTTP client keeps the timeout it was built with: a new
  `request_timeout_sec` is not used by exits that have one (`client.go:59-71`,
  `client.go:109`), although `runtime.go:134` says a save takes effect at once. A save
  of another fingerprint while one is being built files the client under the new name
  (`client.go:72-80`).
- `saveRuntimeConfig` writes kv before it takes the mutex (`runtime.go:143`): two saves
  may end in one order in the table and in the other in memory.

## 6. Plan

1. A composition of `Gateway` and `ProxyPool`, so that `PoolChanges` is the pool's own
   behaviour.
2. Login sessions (`admin.go`), import and normalisation of cookies, `probeGemini`.
3. Uploads: which files are sent inline, as a file, or refused.

## 7. Not modelled

- Pages and queries of the panel, request parsing and response layout, token
  estimates, search and MCP wrapping: functions of one request or one query without
  state of their own.
- HTTP clients and uploads: their outcomes are choices of `Gateway`; how a cached
  client lags behind the settings is in section 5.
- The eight database connections: that eight picks at once block each other follows from
  the two lines quoted in section 5, and a model would repeat them.
- Login sessions: rows that are inserted, looked up and deleted in single statements.
- Flag parsing, listening, the tokenizer's files, wording and logging.
