--------------------------- MODULE AccountHealth ---------------------------
(***************************************************************************)
(* The health of the accounts in src/internal/app/cookie_pool.go, one SQL   *)
(* statement at a time.                                                     *)
(*                                                                          *)
(* Choosing an account is a SELECT and then an UPDATE of last_used_at.      *)
(* Counting a failure is an UPDATE, then autoDisableIfDead's SELECT, then   *)
(* perhaps a second UPDATE; nothing holds the row between them.  The        *)
(* goroutines of requests and of the panel's check button run these steps   *)
(* side by side, and the panel switches accounts on and off.  Any of these   *)
(* statements may fail; the code ignores the error and goes on, or returns. *)
(***************************************************************************)
EXTENDS Naturals, FiniteSets

CONSTANTS
    Accounts,
    Order,           \* the id of each account, which breaks ties
    NoAccount,
    Requests,        \* goroutines serving a request
    Checkers,        \* goroutines serving the check button
    Admins,          \* goroutines serving the toggle button
    MaxAuthFailures, \* maxCookieAuthFailures
    MaxTime,         \* bound on the clock, in seconds
    MaxFailures,     \* bound on the failures of an account
    MaxToggles,      \* bound on the panel's toggles
    MaxErrors        \* bound on the statements that fail

ASSUME OrderIsInjective ==
    /\ Order \in [Accounts -> Nat]
    /\ \A a, b \in Accounts : Order[a] = Order[b] => a = b
ASSUME NoAccountIsNoAccount == NoAccount \notin Accounts
ASSUME GoroutinesDisjoint ==
    /\ Requests \cap Checkers = {}
    /\ Admins \cap (Requests \cup Checkers) = {}
ASSUME BoundsAreNat ==
    /\ MaxAuthFailures \in Nat \ {0}
    /\ {MaxTime, MaxFailures, MaxToggles, MaxErrors} \subseteq Nat

Workers == Requests \cup Checkers
Threads == Workers \cup Admins

VARIABLES
    row,       \* the accounts table: enabled, fail_count, last_used_at
    now,       \* time.Now().Unix()
    pc,        \* where each goroutine is
    acct,      \* the account it works on
    toEnable,  \* the status a toggle is about to write
    toggles,   \* how many toggles have started
    errors,    \* how many statements have failed
    fresh,     \* history: put back by the panel, no failure counted since
    overlooked \* history: the last look of autoDisableIfDead at the account failed

vars == <<row, now, pc, acct, toEnable, toggles, errors, fresh, overlooked>>
panel == <<toEnable, toggles>>
history == <<fresh, overlooked>>

Row == [enabled : BOOLEAN, fails : Nat, used : Nat]
Stage == {"idle", "touch", "using", "judge", "disable", "toggle"}

TypeOK ==
    /\ row \in [Accounts -> Row]
    /\ now \in Nat
    /\ pc \in [Threads -> Stage]
    /\ acct \in [Threads -> Accounts \cup {NoAccount}]
    /\ toEnable \in [Admins -> BOOLEAN]
    /\ toggles \in Nat
    /\ errors \in Nat
    /\ fresh \in SUBSET Accounts
    /\ overlooked \in SUBSET Accounts

Init ==
    /\ row = [a \in Accounts |-> [enabled |-> TRUE, fails |-> 0, used |-> 0]]
    /\ now = 1
    /\ pc = [t \in Threads |-> "idle"]
    /\ acct = [t \in Threads |-> NoAccount]
    /\ toEnable = [t \in Admins |-> FALSE]
    /\ toggles = 0
    /\ errors = 0
    /\ fresh = {} /\ overlooked = {}

Goto(t, from, to) ==
    /\ pc[t] = from
    /\ pc' = [pc EXCEPT ![t] = to]

Work(t, a) == acct' = [acct EXCEPT ![t] = a]

Answers == UNCHANGED errors
Errs == errors < MaxErrors /\ errors' = errors + 1

\* An UPDATE of an account's row whose error is ignored.
Update(a, new) ==
    \/ Answers /\ row' = [row EXCEPT ![a] = new]
    \/ Errs /\ UNCHANGED row

-----------------------------------------------------------------------------
(* Choosing an account *)

\* ORDER BY fail_count, last_used_at, id
Before(a, b) ==
    \/ row[a].fails < row[b].fails
    \/ row[a].fails = row[b].fails /\ row[a].used < row[b].used
    \/ row[a].fails = row[b].fails /\ row[a].used = row[b].used /\ Order[a] < Order[b]

Enabled == {a \in Accounts : row[a].enabled}
First(a) == a \in Enabled /\ \A b \in Enabled \ {a} : Before(a, b)

\* pickCookieAccountExcept, the SELECT; one that fails finds no account ...
pickSelect(t, a) ==
    /\ t \in Requests
    /\ Goto(t, "idle", "touch")
    /\ First(a)
    /\ Work(t, a)
    /\ UNCHANGED <<row, now, panel, errors, history>>

\* ... and the UPDATE of last_used_at.
pickTouch(t) ==
    /\ Goto(t, "touch", "using")
    /\ Update(acct[t], [row[acct[t]] EXCEPT !.used = now])
    /\ UNCHANGED <<now, acct, panel, history>>

\* The check button works on the account it was pressed for, enabled or not.
checkStart(t, a) ==
    /\ t \in Checkers
    /\ Goto(t, "idle", "using")
    /\ Work(t, a)
    /\ UNCHANGED <<row, now, panel, errors, history>>

-----------------------------------------------------------------------------
(* Writing the result back *)

\* markAccountResult(id, true, ""): 200, or the check found a login.
markSuccess(t) ==
    /\ Goto(t, "using", "idle")
    /\ Work(t, NoAccount)
    /\ Update(acct[t], [row[acct[t]] EXCEPT !.fails = 0])
    /\ UNCHANGED <<now, panel, history>>

\* markCookieByStatus with a status that is not the cookie's fault: nothing.
markOther(t) ==
    /\ t \in Requests
    /\ Goto(t, "using", "idle")
    /\ Work(t, NoAccount)
    /\ UNCHANGED <<row, now, panel, errors, history>>

\* markAccountResult(id, false, ...), the UPDATE.  A request comes here on 401 and
\* 403 only; the check button on every error of getXSRF.  Counted or not, the
\* account is looked at.
markFailure(t) ==
    LET a == acct[t] IN
    /\ Goto(t, "using", "judge")
    /\ row[a].fails < MaxFailures
    /\ Update(a, [row[a] EXCEPT !.fails = @ + 1])
    /\ fresh' = IF Answers THEN fresh \ {a} ELSE fresh
    /\ UNCHANGED <<now, acct, panel, overlooked>>

\* Mutant: the account is spared one failure more.
deadOffByOne(a) == row[a].enabled /\ row[a].fails > MaxAuthFailures

\* autoDisableIfDead's condition.
Dead(a) == row[a].enabled /\ row[a].fails >= MaxAuthFailures

\* autoDisableIfDead, the SELECT; one that fails is taken for an account in order ...
autoDisableJudge(t) ==
    LET a == acct[t] IN
    \/ /\ Goto(t, "judge", IF Dead(a) THEN "disable" ELSE "idle")
       /\ Work(t, IF Dead(a) THEN a ELSE NoAccount)
       /\ Answers
       /\ overlooked' = overlooked \ {a}
       /\ UNCHANGED <<row, now, panel, fresh>>
    \/ /\ Goto(t, "judge", "idle")
       /\ Work(t, NoAccount)
       /\ Errs
       /\ overlooked' = overlooked \cup {a}
       /\ UNCHANGED <<row, now, panel, fresh>>

\* ... and the UPDATE, whose WHERE asks for the status again but not for the count;
\* when it fails nothing is logged and the account stays.
autoDisableWrite(t) ==
    LET a == acct[t] IN
    /\ Goto(t, "disable", "idle")
    /\ Work(t, NoAccount)
    /\ Update(a, [row[a] EXCEPT !.enabled = FALSE])
    /\ overlooked' = IF Answers THEN overlooked ELSE overlooked \cup {a}
    /\ UNCHANGED <<now, panel, fresh>>

-----------------------------------------------------------------------------
(* The panel and the clock *)

\* POST .../toggle reads the status (admin_cookies.go:153-162) ...
toggleRead(t, a) ==
    /\ t \in Admins
    /\ Goto(t, "idle", "toggle")
    /\ toggles < MaxToggles
    /\ toggles' = toggles + 1
    /\ Work(t, a)
    /\ toEnable' = [toEnable EXCEPT ![t] = ~row[a].enabled]
    /\ UNCHANGED <<row, now, errors, history>>

\* ... and writes the opposite with accountSetStatus; fail_count stays.  An error is
\* shown on the panel.
accountSetStatus(t) ==
    LET a == acct[t] IN
    /\ Goto(t, "toggle", "idle")
    /\ Work(t, NoAccount)
    /\ Update(a, [row[a] EXCEPT !.enabled = toEnable[t]])
    /\ fresh' = IF Answers /\ toEnable[t] THEN fresh \cup {a} ELSE fresh
    /\ toEnable' = [toEnable EXCEPT ![t] = FALSE]
    /\ UNCHANGED <<now, toggles, overlooked>>

Tick ==
    /\ now < MaxTime
    /\ now' = now + 1
    /\ UNCHANGED <<row, pc, acct, panel, errors, history>>

WorkerStep(t) ==
    \/ \E a \in Accounts : pickSelect(t, a) \/ checkStart(t, a)
    \/ pickTouch(t)
    \/ markSuccess(t)
    \/ markOther(t)
    \/ markFailure(t)
    \/ autoDisableJudge(t)
    \/ autoDisableWrite(t)

AdminStep(t) ==
    \/ \E a \in Accounts : toggleRead(t, a)
    \/ accountSetStatus(t)

Next ==
    \/ \E t \in Workers : WorkerStep(t)
    \/ \E t \in Admins : AdminStep(t)
    \/ Tick

Spec == Init /\ [][Next]_vars

\* A goroutine that has counted a failure runs to the end of autoDisableIfDead.
Fairness ==
    \A t \in Workers : WF_vars(autoDisableJudge(t)) /\ WF_vars(autoDisableWrite(t))

FairSpec == Spec /\ Fairness

-----------------------------------------------------------------------------
(* Properties *)

AtThreshold(a) == row[a].enabled /\ row[a].fails >= MaxAuthFailures

\* An enabled account at the threshold has a goroutine about to look at it or to
\* switch it off, however many goroutines and the panel interleave
\* (cookie_pool.go:468-480), with two exceptions: the panel has put it back and no
\* failure was counted since, or a statement of the last look at it failed.
DeadIsNoticed ==
    \A a \in Accounts :
        AtThreshold(a) =>
            \/ \E t \in Workers : acct[t] = a /\ pc[t] \in {"judge", "disable"}
            \/ a \in fresh \cup overlooked

\* With the same exceptions it is taken out of rotation, unless a success clears it
\* first (cookie_pool.go:460-467).  An account that was overlooked stays until its
\* next failure is looked at.
DeadLeavesRotation ==
    \A a \in Accounts :
        (AtThreshold(a) /\ a \notin fresh \cup overlooked) ~>
            (~AtThreshold(a) \/ a \in fresh \cup overlooked)
=============================================================================
