-------------------------------- MODULE Boot --------------------------------
(***************************************************************************)
(* The boot of src/internal/app (app.go): values of an older version and of *)
(* the startup parameters enter the proxy pool and the cookie pool, and the *)
(* API key is taken from the parameters or the kv table.  Every statement   *)
(* is a step, and the process may end between two of them.                  *)
(*                                                                          *)
(* The seedings of the two pools are built alike and share nothing, so a    *)
(* behaviour follows one of them, its kind.                                 *)
(***************************************************************************)
EXTENDS Naturals, FiniteSets

CONSTANTS
    Values,      \* proxy URLs, or cookies
    None,        \* the empty string
    Bad,         \* a value proxyCreate refuses, a file normalizeCookie cannot read
    Keys,        \* API keys
    FlagKeys,    \* those --api-key or API_KEY may give
    KvMayFail,   \* whether statements fail, which kvGet reads as "no value"
    MaxChanges,  \* bound on what the panel and the responses change
    MaxBoots     \* bound on the starts

ASSUME BootBounds ==
    /\ KvMayFail \in BOOLEAN
    /\ {MaxChanges, MaxBoots} \subseteq Nat
    /\ FlagKeys \subseteq Keys
    /\ None \notin Values \cup Keys /\ Bad \notin Values \cup {None}

VARIABLES
    kind,    \* which pool
    pool,    \* its rows
    nextID,  \* the BIGSERIAL of the table
    legacy,  \* what the older version left in kv: runtime_config.proxy, google_cookie
    kv,      \* what seeding has noted in kv
    pc,      \* the next statement of the boot
    flag,    \* --proxy or the file of --cookie-file
    loc,     \* the locals of the seeding: prev, and the id of the row it created
    key,     \* the API key: the flag's, the one in kv, and the one in memory
    setting, \* the keys that panel requests have written and not yet stored
    hist,    \* history
    changes, boots

vars == <<kind, pool, nextID, legacy, kv, pc, flag, loc, key, setting, hist, changes, boots>>
seeding == <<pool, nextID, kv, loc, hist>>
keys == <<key, setting>>
bounds == <<changes, boots>>

Value == Values \cup {None, Bad}
Row == [id : Nat, val : Values,
        refreshed : BOOLEAN,  \* Set-Cookie headers have been merged into it
        by : {"legacy", "seed", "panel"},
        first : Values]       \* history: the value it was created with

TypeOK ==
    /\ kind \in {"proxy", "cookie"}
    /\ pool \subseteq Row
    /\ \A r, s \in pool : r.id = s.id => r = s
    /\ \A r \in pool : r.id < nextID
    /\ nextID \in Nat \ {0}
    /\ legacy \in Value
    /\ kv \in [done : BOOLEAN, val : Values \cup {None}, id : Nat]
    /\ pc \in {"down", "legacy", "mark", "sync", "drop", "enter", "val", "id", "key", "up"}
    /\ flag \in Value
    /\ loc \in [prev : Values \cup {None}, id : Nat]
    /\ key \in [flag : Keys \cup {None}, kv : Keys \cup {None}, mem : Keys \cup {None}]
    /\ setting \subseteq Keys
    /\ hist \in [migrated : Nat, touched : SUBSET Values,
                 refreshed : BOOLEAN, disturbed : BOOLEAN, torn : BOOLEAN]
    /\ changes \in 0..MaxChanges /\ boots \in 0..MaxBoots

Init ==
    /\ kind \in {"proxy", "cookie"}
    /\ pool = {} /\ nextID = 1
    /\ legacy \in Value
    /\ kv = [done |-> FALSE, val |-> None, id |-> 0]
    /\ pc = "down" /\ flag = None
    /\ loc = [prev |-> None, id |-> 0]
    /\ key = [flag |-> None, kv |-> None, mem |-> None] /\ setting = {}
    /\ hist = [migrated |-> 0, touched |-> {}, refreshed |-> FALSE,
             disturbed |-> FALSE, torn |-> FALSE]
    /\ changes = 0 /\ boots = 0

-----------------------------------------------------------------------------
(* Statements *)

\* kvGet or a list: what it returns, and what kvSet leaves.
Get(value, empty) == {value} \cup (IF KvMayFail THEN {empty} ELSE {})
Set(old, new) == {new} \cup (IF KvMayFail THEN {old} ELSE {})

Is(r, value) == r.val = value /\ ~r.refreshed

\* validateProxyURL, or a failing normalizeCookie.
Refused(value) == value = Bad

\* Mutant: the pool is not searched.
HasNothing(rows, value) == FALSE

\* poolHasProxyURL, poolHasCookie.
Has(rows, value) == \E r \in rows : Is(r, value)

\* proxyCreate, accountAdopt.
Adopt(value, by) ==
    /\ nextID' = nextID + 1
    /\ pool' = pool \cup {[id |-> nextID, val |-> value, refreshed |-> FALSE, by |-> by,
                           first |-> value]}

At(step) == pc = step
Goto(step) == pc' = step

-----------------------------------------------------------------------------
(* Seeding *)

\* migrateLegacyStaticProxy, migrateLegacyCookie: done, nothing to do, a value that is
\* refused and stays for the next boot, one that is there already, ...
legacyDecide ==
    /\ At("legacy")
    /\ \E done \in Get(kv.done, FALSE), v \in Get(legacy, None), rows \in Get(pool, {}) :
          \/ done /\ Goto("sync") /\ UNCHANGED <<pool, nextID, hist>>
          \/ ~done /\ (Refused(v) \/ KvMayFail) /\ Goto("sync") /\ UNCHANGED <<pool, nextID, hist>>
          \/ /\ ~done /\ (v = None \/ Has(rows, v))
             /\ Goto("mark")
             /\ UNCHANGED <<pool, nextID, hist>>
          \/ /\ ~done /\ v # None /\ ~Refused(v) /\ ~Has(rows, v)
             /\ Adopt(v, "legacy")
             /\ Goto("mark")
             /\ hist' = [hist EXCEPT !.migrated = @ + 1]
    /\ UNCHANGED <<kind, legacy, kv, flag, loc, keys, bounds>>

legacyMark ==
    /\ At("mark")
    /\ Goto("sync")
    /\ \E done \in Set(kv.done, TRUE) : kv' = [kv EXCEPT !.done = done]
    /\ UNCHANGED <<kind, pool, nextID, legacy, flag, loc, keys, hist, bounds>>

\* A cookie file that cannot be read leaves everything as it is.
Unreadable == kind = "cookie" /\ flag = Bad

\* Mutant: no value means that there is nothing to follow.
UnchangedOrNone(prev) == flag \in {prev, None}

\* The value is the one of the last boot.
Unchanged(prev) == flag = prev

\* syncSeededProxy, syncSeededCookieFile: an unchanged value touches nothing.
syncRead ==
    /\ At("sync")
    /\ \E prev \in Get(kv.val, None) :
           /\ Goto(IF Unreadable \/ Unchanged(prev) THEN "key" ELSE "drop")
           /\ loc' = [prev |-> prev, id |-> 0]
    /\ UNCHANGED <<kind, pool, nextID, legacy, kv, flag, keys, hist, bounds>>

\* Mutant: whoever has the row now, it goes.
OwnAnyValue(r, id, prev) == r.id = id /\ prev # None

\* The row of the previous value, unless it has been taken over since.
Own(r, id, prev) == r.id = id /\ prev # None /\ Is(r, prev)

\* dropSeededProxy, dropSeededCookie.
drop ==
    /\ At("drop")
    /\ Goto("enter")
    /\ \E id \in Get(kv.id, 0), rows \in Get(pool, {}) :
           pool' \in Set(pool, pool \ {r \in rows : Own(r, id, loc.prev)})
    /\ UNCHANGED <<kind, nextID, legacy, kv, flag, loc, keys, hist, bounds>>

\* The new value: refused, none or there already, or a row of its own.
enter ==
    /\ At("enter")
    /\ \E rows \in Get(pool, {}) :
          \/ (Refused(flag) \/ KvMayFail) /\ Goto("key") /\ UNCHANGED <<pool, nextID, loc>>
          \/ (flag = None \/ Has(rows, flag)) /\ Goto("val") /\ UNCHANGED <<pool, nextID, loc>>
          \/ /\ flag # None /\ ~Refused(flag) /\ ~Has(rows, flag)
             /\ Adopt(flag, "seed")
             /\ Goto("val")
             /\ loc' = [loc EXCEPT !.id = nextID]
    /\ UNCHANGED <<kind, legacy, kv, flag, keys, hist, bounds>>

noteVal ==
    /\ At("val")
    /\ Goto("id")
    /\ \E v \in Set(kv.val, flag) : kv' = [kv EXCEPT !.val = v]
    /\ UNCHANGED <<kind, pool, nextID, legacy, flag, loc, keys, hist, bounds>>

noteID ==
    /\ At("id")
    /\ Goto("key")
    /\ \E id \in Set(kv.id, loc.id) : kv' = [kv EXCEPT !.id = id]
    /\ UNCHANGED <<kind, pool, nextID, legacy, flag, loc, keys, hist, bounds>>

-----------------------------------------------------------------------------
(* The API key *)

\* "First boot ever."
FirstBoot(stored) == stored = None

\* The flag's key, the stored one, or a new one, which is used even if it cannot be stored.
initAPIKey ==
    /\ At("key")
    /\ Goto("up")
    /\ \/ /\ key.flag # None
          /\ key' = [key EXCEPT !.mem = key.flag]
       \/ /\ key.flag = None
          /\ \E stored \in Get(key.kv, None) :
                IF FirstBoot(stored)
                THEN \E new \in Keys \ {key.kv} : \E kept \in Set(key.kv, new) :
                        key' = [key EXCEPT !.kv = kept, !.mem = new]
                ELSE key' = [key EXCEPT !.mem = stored]
    /\ UNCHANGED <<kind, seeding, legacy, flag, setting, bounds>>

\* Mutant: apiKeyMu does not keep two requests apart.
MayWriteAlways == TRUE

\* No other request holds apiKeyMu.
MayWrite == setting = {}

\* setAPIKey and rotateAPIKey: the key is written to kv ...
writeAPIKey(k) ==
    /\ At("up") /\ key.flag = None /\ MayWrite
    /\ changes < MaxChanges /\ changes' = changes + 1
    /\ key' = [key EXCEPT !.kv = k]
    /\ setting' = setting \cup {k}
    /\ UNCHANGED <<kind, seeding, legacy, pc, flag, boots>>

\* ... and then takes effect.
storeAPIKey ==
    /\ \E k \in setting : key' = [key EXCEPT !.mem = k] /\ setting' = setting \ {k}
    /\ UNCHANGED <<kind, seeding, legacy, pc, flag, bounds>>

-----------------------------------------------------------------------------
(* The panel and the responses change the pool *)

change(rows, touched) ==
    /\ At("up")
    /\ changes < MaxChanges /\ changes' = changes + 1
    /\ pool' = rows
    /\ hist' = [hist EXCEPT !.touched = @ \cup touched]
    /\ UNCHANGED <<kind, legacy, kv, pc, flag, loc, keys, boots>>

panelDelete(r) == change(pool \ {r}, {r.val}) /\ UNCHANGED nextID

\* proxyUpdate; the panel does not edit a cookie.
panelEdit(r, v) ==
    /\ kind = "proxy"
    /\ change((pool \ {r}) \cup {[r EXCEPT !.val = v]}, {r.val})
    /\ UNCHANGED nextID

panelAdd(v) ==
    /\ At("up")
    /\ changes < MaxChanges /\ changes' = changes + 1
    /\ Adopt(v, "panel")
    /\ UNCHANGED <<kind, legacy, kv, pc, flag, loc, keys, hist, boots>>

\* updateAccountCookie after a response with Set-Cookie.
refresh(r) ==
    /\ At("up") /\ kind = "cookie" /\ ~r.refreshed
    /\ changes < MaxChanges /\ changes' = changes + 1
    /\ pool' = (pool \ {r}) \cup {[r EXCEPT !.refreshed = TRUE]}
    /\ hist' = [hist EXCEPT !.refreshed = TRUE]
    /\ UNCHANGED <<kind, nextID, legacy, kv, pc, flag, loc, keys, boots>>

-----------------------------------------------------------------------------
(* The process *)

\* Run, with some parameters.
Run(v, k) ==
    /\ At("down")
    /\ boots < MaxBoots /\ boots' = boots + 1
    /\ Goto("legacy")
    /\ flag' = v
    /\ key' = [key EXCEPT !.flag = k]
    /\ hist' = [hist EXCEPT !.disturbed = @ \/ (v = Bad /\ kind = "proxy")]
    /\ UNCHANGED <<kind, pool, nextID, legacy, kv, loc, setting, changes>>

\* It ends, wherever it is.
stop ==
    /\ ~At("down")
    /\ Goto("down")
    /\ loc' = [prev |-> None, id |-> 0]
    /\ key' = [key EXCEPT !.flag = None, !.mem = None]
    /\ setting' = {}
    /\ hist' = [hist EXCEPT !.disturbed = @ \/ ~At("up"), !.torn = @ \/ At("id")]
    /\ UNCHANGED <<kind, pool, nextID, legacy, kv, flag, bounds>>

BootStep == legacyDecide \/ legacyMark \/ syncRead \/ drop \/ enter \/ noteVal \/ noteID
                \/ initAPIKey

Next ==
    \/ \E v \in Value, k \in FlagKeys \cup {None} : Run(v, k)
    \/ BootStep
    \/ \E k \in Keys : writeAPIKey(k)
    \/ storeAPIKey
    \/ \E r \in pool : panelDelete(r) \/ refresh(r) \/ \E v \in Values \ {r.val} : panelEdit(r, v)
    \/ \E v \in Values : panelAdd(v)
    \/ stop

Spec == Init /\ [][Next]_vars

-----------------------------------------------------------------------------
(* Properties *)

\* The older version's value is migrated once, even if the boot ends between the
\* adoption and the mark, and never marked as migrated without it (proxy.go:114-122).
LegacyOnce ==
    /\ hist.migrated <= 1
    /\ kv.done /\ legacy \in Values /\ hist.migrated = 0 => legacy \in hist.touched \/
          \E r \in pool : r.val = legacy

\* No boot deletes a row that was added in the panel or has another value since,
\* unless one ended between the two notes (proxy.go:194-196).
PanelRespected ==
    [][pc # "up" /\ ~hist.torn =>
          \A r \in pool \ pool' : r.by # "panel" /\ r.val = r.first]_vars

\* The startup parameter is declarative: after the boot the pool has its value, and no
\* row an earlier value created, but for what the panel changed (proxy.go:160-164,
\* cookie_pool.go:230-235).
FollowsFlag ==
    pc = "up" /\ flag # Bad =>
        /\ flag \in Values => flag \in hist.touched \/ \E r \in pool : r.val = flag
        /\ \A r \in pool : r.by = "seed" /\ r.val = r.first /\ r.val \notin hist.touched => r.val = flag

\* It is followed through any sequence of values and panel changes, as long as no boot
\* ends half-way, no proxy is refused and no cookie is refreshed.
FollowsUndisturbed == ~hist.disturbed /\ ~hist.refreshed => FollowsFlag

\* The claim of syncSeededCookieFile's comment (cookie_pool.go:232-234), for boots that
\* all end: the row of the old file goes, instead of dead cookies piling up.
CookieFileFollowed == ~hist.disturbed /\ flag # None => FollowsFlag

\* The key the process accepts is the stored one, or the flag's, whatever happened to
\* the process and however the panel's requests interleave (apikey.go:40-101).
KeysAgree ==
    pc = "up" /\ setting = {} =>
        /\ key.mem # None
        /\ key.mem = (IF key.flag # None THEN key.flag ELSE key.kv)
=============================================================================
