----------------------- MODULE AccountHealth_proofs -----------------------
(***************************************************************************)
(* Proofs about AccountHealth, for every set of accounts and goroutines and *)
(* every threshold.                                                         *)
(***************************************************************************)
EXTENDS AccountHealth, TLAPS

\* A goroutine that is not idle works on an account.
BusyHaveAccount == \A t \in Threads : pc[t] # "idle" => acct[t] \in Accounts

Typed == TypeOK /\ BusyHaveAccount

IInv ==
    /\ Typed
    /\ DeadIsNoticed

\* A goroutine is about to look at account a, or to switch it off.
Noticed(a) == \E t \in Workers : acct[t] = a /\ pc[t] \in {"judge", "disable"}

-----------------------------------------------------------------------------
(* Lemmas about the steps *)

\* What Goto does to the goroutines, and Work to their accounts.
LEMMA GotoMoves ==
    ASSUME Typed, NEW t \in Threads, NEW from \in Stage, NEW to \in Stage, Goto(t, from, to)
    PROVE  /\ pc[t] = from
           /\ pc' \in [Threads -> Stage]
           /\ pc'[t] = to
           /\ \A u \in Threads \ {t} : pc'[u] = pc[u]
  BY DEF Typed, TypeOK, Goto

LEMMA WorkAssigns ==
    ASSUME Typed, NEW t \in Threads, NEW a \in Accounts \cup {NoAccount}, Work(t, a)
    PROVE  /\ acct' \in [Threads -> Accounts \cup {NoAccount}]
           /\ acct'[t] = a
           /\ \A u \in Threads \ {t} : acct'[u] = acct[u]
  BY DEF Typed, TypeOK, Work

LEMMA ThreadKinds ==
    /\ \A t \in Requests : t \in Workers
    /\ \A t \in Workers : t \in Threads /\ t \notin Admins
    /\ \A t \in Admins : t \in Threads /\ t \notin Workers
  BY GoroutinesDisjoint DEF Workers, Threads

\* What a statement on the row of account a does, whether it fails or not.
LEMMA UpdateWrites ==
    ASSUME Typed, NEW a \in Accounts, NEW new \in Row, Update(a, new)
    PROVE  /\ row' \in [Accounts -> Row] /\ errors' \in Nat
           /\ row'[a] = IF Answers THEN new ELSE row[a]
           /\ \A b \in Accounts \ {a} : row'[b] = row[b]
<1>1. row \in [Accounts -> Row] /\ errors \in Nat
  BY DEF Typed, TypeOK
<1>2. CASE Answers /\ row' = [row EXCEPT ![a] = new]
  BY <1>1, <1>2 DEF Answers
<1>3. CASE Errs /\ UNCHANGED row
  <2>1. errors' = errors + 1 /\ errors' \in Nat /\ ~Answers
    BY <1>1, <1>3 DEF Errs, Answers
  <2> QED
    BY <1>1, <1>3, <2>1
<1> QED
  BY <1>2, <1>3 DEF Update

\* A step that works for account a, or for none, leaves every other one noticed.
LEMMA OthersStayNoticed ==
    ASSUME IInv, NEW t \in Threads, NEW a,
           pc[t] \in {"judge", "disable"} => acct[t] = a,
           \A u \in Threads \ {t} : pc'[u] = pc[u] /\ acct'[u] = acct[u],
           \A b \in Accounts \ {a} :
               /\ row'[b].enabled = row[b].enabled /\ row'[b].fails = row[b].fails
               /\ b \in fresh \cup overlooked => b \in fresh' \cup overlooked',
           a \in Accounts /\ AtThreshold(a)' => Noticed(a)' \/ a \in fresh' \cup overlooked'
    PROVE  DeadIsNoticed'
<1> SUFFICES ASSUME NEW b \in Accounts \ {a}, AtThreshold(b)'
             PROVE  Noticed(b)' \/ b \in fresh' \cup overlooked'
  BY DEF DeadIsNoticed, Noticed
<1>1. AtThreshold(b)
  BY DEF AtThreshold
<1>2. Noticed(b) \/ b \in fresh \cup overlooked
  BY <1>1 DEF IInv, DeadIsNoticed, Noticed
<1>3. ASSUME NEW u \in Workers, acct[u] = b, pc[u] \in {"judge", "disable"}
      PROVE  acct'[u] = b /\ pc'[u] \in {"judge", "disable"}
  BY <1>3, ThreadKinds
<1> QED
  BY <1>2, <1>3 DEF Noticed

\* The invariant after a step that changes nothing the judging reads.
LEMMA RowsUntouched ==
    ASSUME IInv, Typed',
           \A a \in Accounts : /\ row'[a].enabled = row[a].enabled
                               /\ row'[a].fails = row[a].fails,
           UNCHANGED history,
           \A t \in Workers : pc[t] \in {"judge", "disable"} => pc'[t] = pc[t] /\ acct'[t] = acct[t]
    PROVE  IInv'
<1> SUFFICES ASSUME NEW a \in Accounts, AtThreshold(a)'
             PROVE  Noticed(a)' \/ a \in fresh' \cup overlooked'
  BY DEF IInv, DeadIsNoticed, Noticed
<1>1. AtThreshold(a)
  BY DEF AtThreshold
<1>2. Noticed(a) \/ a \in fresh \cup overlooked
  BY <1>1 DEF IInv, DeadIsNoticed, Noticed
<1> QED
  BY <1>2 DEF history, Noticed

-----------------------------------------------------------------------------
(* The invariant is inductive *)

LEMMA InitEstablishes == Init => IInv
<1> SUFFICES ASSUME Init PROVE IInv
  OBVIOUS
<1>1. Typed
  BY BoundsAreNat DEF Init, Typed, TypeOK, BusyHaveAccount, Row, Stage
<1>2. DeadIsNoticed
  BY BoundsAreNat DEF Init, DeadIsNoticed, AtThreshold
<1> QED
  BY <1>1, <1>2 DEF IInv

LEMMA pickSelectPreserves ==
    ASSUME IInv, NEW t \in Workers, NEW a \in Accounts, pickSelect(t, a) PROVE IInv'
<1>1. Typed
  BY DEF IInv
<1>2. t \in Threads /\ "idle" \in Stage /\ "touch" \in Stage
  BY ThreadKinds DEF Stage
<1>3. /\ pc[t] = "idle" /\ pc' \in [Threads -> Stage] /\ pc'[t] = "touch"
      /\ \A u \in Threads \ {t} : pc'[u] = pc[u]
  BY <1>1, <1>2, GotoMoves DEF pickSelect
<1>4. /\ acct' \in [Threads -> Accounts \cup {NoAccount}] /\ acct'[t] = a
      /\ \A u \in Threads \ {t} : acct'[u] = acct[u]
  BY <1>1, <1>2, WorkAssigns DEF pickSelect
<1>5. Typed'
  BY <1>1, <1>3, <1>4 DEF pickSelect, Typed, TypeOK, BusyHaveAccount, panel, history
<1> QED
  BY <1>3, <1>4, <1>5, ThreadKinds, RowsUntouched DEF pickSelect

LEMMA checkStartPreserves ==
    ASSUME IInv, NEW t \in Workers, NEW a \in Accounts, checkStart(t, a) PROVE IInv'
<1>1. Typed
  BY DEF IInv
<1>2. t \in Threads /\ "idle" \in Stage /\ "using" \in Stage
  BY ThreadKinds DEF Stage
<1>3. /\ pc[t] = "idle" /\ pc' \in [Threads -> Stage] /\ pc'[t] = "using"
      /\ \A u \in Threads \ {t} : pc'[u] = pc[u]
  BY <1>1, <1>2, GotoMoves DEF checkStart
<1>4. /\ acct' \in [Threads -> Accounts \cup {NoAccount}] /\ acct'[t] = a
      /\ \A u \in Threads \ {t} : acct'[u] = acct[u]
  BY <1>1, <1>2, WorkAssigns DEF checkStart
<1>5. Typed'
  BY <1>1, <1>3, <1>4 DEF checkStart, Typed, TypeOK, BusyHaveAccount, panel, history
<1> QED
  BY <1>3, <1>4, <1>5, ThreadKinds, RowsUntouched DEF checkStart

LEMMA pickTouchPreserves ==
    ASSUME IInv, NEW t \in Workers, pickTouch(t) PROVE IInv'
<1>1. Typed
  BY DEF IInv
<1>2. t \in Threads /\ "touch" \in Stage /\ "using" \in Stage
  BY ThreadKinds DEF Stage
<1>3. /\ pc[t] = "touch" /\ pc' \in [Threads -> Stage] /\ pc'[t] = "using"
      /\ \A u \in Threads \ {t} : pc'[u] = pc[u]
  BY <1>1, <1>2, GotoMoves DEF pickTouch
<1>4. acct[t] \in Accounts
  BY <1>1, <1>2, <1>3 DEF Typed, BusyHaveAccount
<1>5. /\ row' \in [Accounts -> Row] /\ errors' \in Nat
      /\ \A a \in Accounts : row'[a].enabled = row[a].enabled /\ row'[a].fails = row[a].fails
  <2>1. row[acct[t]] \in Row /\ now \in Nat
    BY <1>1, <1>4 DEF Typed, TypeOK
  <2> DEFINE new == [row[acct[t]] EXCEPT !.used = now]
  <2>2. new \in Row /\ new.enabled = row[acct[t]].enabled /\ new.fails = row[acct[t]].fails
    BY <2>1 DEF Row
  <2>3. Update(acct[t], new)
    BY DEF pickTouch
  <2> HIDE DEF new
  <2> QED
    BY <1>1, <1>4, <2>2, <2>3, UpdateWrites
<1>6. Typed'
  BY <1>1, <1>3, <1>4, <1>5 DEF pickTouch, Typed, TypeOK, BusyHaveAccount, panel, history
<1> QED
  BY <1>3, <1>5, <1>6, ThreadKinds, RowsUntouched DEF pickTouch

LEMMA markOtherPreserves ==
    ASSUME IInv, NEW t \in Workers, markOther(t) PROVE IInv'
<1>1. Typed
  BY DEF IInv
<1>2. t \in Threads /\ "using" \in Stage /\ "idle" \in Stage
  BY ThreadKinds DEF Stage
<1>3. /\ pc[t] = "using" /\ pc' \in [Threads -> Stage] /\ pc'[t] = "idle"
      /\ \A u \in Threads \ {t} : pc'[u] = pc[u]
  BY <1>1, <1>2, GotoMoves DEF markOther
<1>4. /\ acct' \in [Threads -> Accounts \cup {NoAccount}]
      /\ \A u \in Threads \ {t} : acct'[u] = acct[u]
  BY <1>1, <1>2, WorkAssigns DEF markOther
<1>5. Typed'
  BY <1>1, <1>3, <1>4 DEF markOther, Typed, TypeOK, BusyHaveAccount, panel, history
<1> QED
  BY <1>3, <1>4, <1>5, ThreadKinds, RowsUntouched DEF markOther

LEMMA markSuccessPreserves ==
    ASSUME IInv, NEW t \in Workers, markSuccess(t) PROVE IInv'
<1>1. Typed
  BY DEF IInv
<1>2. t \in Threads /\ "using" \in Stage /\ "idle" \in Stage
  BY ThreadKinds DEF Stage
<1>3. /\ pc[t] = "using" /\ pc' \in [Threads -> Stage] /\ pc'[t] = "idle"
      /\ \A u \in Threads \ {t} : pc'[u] = pc[u]
  BY <1>1, <1>2, GotoMoves DEF markSuccess
<1>4. /\ acct' \in [Threads -> Accounts \cup {NoAccount}]
      /\ \A u \in Threads \ {t} : acct'[u] = acct[u]
  BY <1>1, <1>2, WorkAssigns DEF markSuccess
<1>5. PICK a \in Accounts : a = acct[t]
  BY <1>1, <1>2, <1>3 DEF Typed, BusyHaveAccount
<1> DEFINE new == [row[a] EXCEPT !.fails = 0]
<1>6. new \in Row /\ new.fails = 0
  BY <1>1, <1>5 DEF Typed, TypeOK, Row
<1>7. Update(a, new) /\ UNCHANGED history
  BY <1>5 DEF markSuccess
<1> HIDE DEF new
<1>8. /\ row' \in [Accounts -> Row] /\ errors' \in Nat
      /\ row'[a] \in {new, row[a]}
      /\ \A b \in Accounts \ {a} : row'[b] = row[b]
  BY <1>1, <1>5, <1>6, <1>7, UpdateWrites
<1>9. Typed'
  BY <1>1, <1>3, <1>4, <1>7, <1>8 DEF markSuccess, Typed, TypeOK, BusyHaveAccount, panel, history
<1>10. AtThreshold(a)' => AtThreshold(a)
  BY <1>6, <1>8, BoundsAreNat DEF AtThreshold
<1>11. AtThreshold(a) => Noticed(a) \/ a \in fresh \cup overlooked
  BY DEF IInv, DeadIsNoticed, Noticed
<1>12. Noticed(a) => Noticed(a)'
  BY <1>3, <1>4, ThreadKinds DEF Noticed
<1>13. DeadIsNoticed'
  BY <1>2, <1>3, <1>4, <1>5, <1>7, <1>8, <1>10, <1>11, <1>12, OthersStayNoticed DEF history
<1> QED
  BY <1>9, <1>13 DEF IInv

LEMMA markFailurePreserves ==
    ASSUME IInv, NEW t \in Workers, markFailure(t) PROVE IInv'
<1>1. Typed
  BY DEF IInv
<1>2. t \in Threads /\ "using" \in Stage /\ "judge" \in Stage
  BY ThreadKinds DEF Stage
<1>3. /\ pc[t] = "using" /\ pc' \in [Threads -> Stage] /\ pc'[t] = "judge"
      /\ \A u \in Threads \ {t} : pc'[u] = pc[u]
  BY <1>1, <1>2, GotoMoves DEF markFailure
<1>4. acct' = acct
  BY DEF markFailure
<1>5. PICK a \in Accounts : a = acct[t]
  BY <1>1, <1>2, <1>3 DEF Typed, BusyHaveAccount
<1> DEFINE new == [row[a] EXCEPT !.fails = @ + 1]
<1>6. new \in Row
  BY <1>1, <1>5 DEF Typed, TypeOK, Row
<1>7. Update(a, new) /\ fresh' \in {fresh, fresh \ {a}} /\ overlooked' = overlooked
  BY <1>5 DEF markFailure
<1> HIDE DEF new
<1>8. /\ row' \in [Accounts -> Row] /\ errors' \in Nat
      /\ \A b \in Accounts \ {a} : row'[b] = row[b]
  BY <1>1, <1>5, <1>6, <1>7, UpdateWrites
<1>9. Typed'
  BY <1>1, <1>3, <1>4, <1>7, <1>8 DEF markFailure, Typed, TypeOK, BusyHaveAccount, panel
<1>10. Noticed(a)'
  BY <1>3, <1>4, <1>5 DEF Noticed
<1>11. DeadIsNoticed'
  BY <1>2, <1>3, <1>4, <1>5, <1>7, <1>8, <1>10, OthersStayNoticed
<1> QED
  BY <1>9, <1>11 DEF IInv

LEMMA autoDisableJudgePreserves ==
    ASSUME IInv, NEW t \in Workers, autoDisableJudge(t) PROVE IInv'
<1>1. Typed
  BY DEF IInv
<1>2. PICK to \in {"disable", "idle"}, looked \in BOOLEAN :
        /\ Goto(t, "judge", to)
        /\ Work(t, IF to = "disable" THEN acct[t] ELSE NoAccount)
        /\ looked /\ Dead(acct[t]) => to = "disable"
        /\ errors' \in {errors, errors + 1}
        /\ overlooked' = IF looked THEN overlooked \ {acct[t]} ELSE overlooked \cup {acct[t]}
  <2>1. CASE Goto(t, "judge", "idle") /\ Work(t, NoAccount) /\ Errs
               /\ overlooked' = overlooked \cup {acct[t]}
    BY <2>1 DEF Errs
  <2>2. CASE /\ Goto(t, "judge", IF Dead(acct[t]) THEN "disable" ELSE "idle")
             /\ Work(t, IF Dead(acct[t]) THEN acct[t] ELSE NoAccount)
             /\ Answers /\ overlooked' = overlooked \ {acct[t]}
    <3>1. CASE Dead(acct[t])
      BY <2>2, <3>1 DEF Answers
    <3>2. CASE ~Dead(acct[t])
      BY <2>2, <3>2 DEF Answers
    <3> QED
      BY <3>1, <3>2
  <2> QED
    BY <2>1, <2>2 DEF autoDisableJudge
<1>3. t \in Threads /\ "judge" \in Stage /\ to \in Stage
  BY ThreadKinds DEF Stage
<1>4. /\ pc[t] = "judge" /\ pc' \in [Threads -> Stage] /\ pc'[t] = to
      /\ \A u \in Threads \ {t} : pc'[u] = pc[u]
  BY <1>1, <1>2, <1>3, GotoMoves
<1>5. PICK a \in Accounts : a = acct[t]
  BY <1>1, <1>3, <1>4 DEF Typed, BusyHaveAccount
<1>6. PICK w \in {a, NoAccount} : w = (IF to = "disable" THEN a ELSE NoAccount) /\ Work(t, w)
  BY <1>2, <1>5
<1>7. /\ acct' \in [Threads -> Accounts \cup {NoAccount}] /\ acct'[t] = w
      /\ \A u \in Threads \ {t} : acct'[u] = acct[u]
  BY <1>1, <1>3, <1>6, WorkAssigns
<1>8. row' = row /\ fresh' = fresh /\ errors' \in Nat /\ UNCHANGED <<now, panel>>
  BY <1>1, <1>2 DEF autoDisableJudge, Typed, TypeOK
<1>9. Typed'
  <2>1. BusyHaveAccount'
    BY <1>1, <1>2, <1>4, <1>5, <1>6, <1>7 DEF Typed, BusyHaveAccount
  <2>2. overlooked' \in SUBSET Accounts
    BY <1>1, <1>2, <1>5 DEF Typed, TypeOK
  <2> QED
    BY <1>1, <1>4, <1>7, <1>8, <2>1, <2>2 DEF Typed, TypeOK, panel
<1>10. AtThreshold(a)' => Dead(a)
  BY <1>8 DEF AtThreshold, Dead
<1>11. to = "disable" => Noticed(a)'
  BY <1>4, <1>6, <1>7 DEF Noticed
<1>12. DeadIsNoticed'
  BY <1>2, <1>3, <1>4, <1>5, <1>7, <1>8, <1>10, <1>11, OthersStayNoticed
<1> QED
  BY <1>9, <1>12 DEF IInv

LEMMA autoDisableWritePreserves ==
    ASSUME IInv, NEW t \in Workers, autoDisableWrite(t) PROVE IInv'
<1>1. Typed
  BY DEF IInv
<1>2. t \in Threads /\ "disable" \in Stage /\ "idle" \in Stage
  BY ThreadKinds DEF Stage
<1>3. /\ pc[t] = "disable" /\ pc' \in [Threads -> Stage] /\ pc'[t] = "idle"
      /\ \A u \in Threads \ {t} : pc'[u] = pc[u]
  BY <1>1, <1>2, GotoMoves DEF autoDisableWrite
<1>4. /\ acct' \in [Threads -> Accounts \cup {NoAccount}]
      /\ \A u \in Threads \ {t} : acct'[u] = acct[u]
  BY <1>1, <1>2, WorkAssigns DEF autoDisableWrite
<1>5. PICK a \in Accounts : a = acct[t]
  BY <1>1, <1>2, <1>3 DEF Typed, BusyHaveAccount
<1> DEFINE new == [row[a] EXCEPT !.enabled = FALSE]
<1>6. new \in Row /\ ~new.enabled
  BY <1>1, <1>5 DEF Typed, TypeOK, Row
<1>7. /\ Update(a, new) /\ fresh' = fresh
      /\ overlooked' = IF Answers THEN overlooked ELSE overlooked \cup {a}
  BY <1>5 DEF autoDisableWrite
<1> HIDE DEF new
<1>8. /\ row' \in [Accounts -> Row] /\ errors' \in Nat
      /\ row'[a] = IF Answers THEN new ELSE row[a]
      /\ \A b \in Accounts \ {a} : row'[b] = row[b]
  BY <1>1, <1>5, <1>6, <1>7, UpdateWrites
<1>9. Typed'
  BY <1>1, <1>3, <1>4, <1>7, <1>8 DEF autoDisableWrite, Typed, TypeOK, BusyHaveAccount, panel
<1>10. AtThreshold(a)' => a \in overlooked'
  BY <1>6, <1>7, <1>8 DEF AtThreshold
<1>11. overlooked \subseteq overlooked'
  BY <1>7
<1>12. DeadIsNoticed'
  BY <1>2, <1>3, <1>4, <1>5, <1>7, <1>8, <1>10, <1>11, OthersStayNoticed
<1> QED
  BY <1>9, <1>12 DEF IInv

LEMMA toggleReadPreserves ==
    ASSUME IInv, NEW t \in Admins, NEW a \in Accounts, toggleRead(t, a) PROVE IInv'
<1>1. Typed
  BY DEF IInv
<1>2. t \in Threads /\ "idle" \in Stage /\ "toggle" \in Stage
  BY ThreadKinds DEF Stage
<1>3. /\ pc[t] = "idle" /\ pc' \in [Threads -> Stage] /\ pc'[t] = "toggle"
      /\ \A u \in Threads \ {t} : pc'[u] = pc[u]
  BY <1>1, <1>2, GotoMoves DEF toggleRead
<1>4. /\ acct' \in [Threads -> Accounts \cup {NoAccount}] /\ acct'[t] = a
      /\ \A u \in Threads \ {t} : acct'[u] = acct[u]
  BY <1>1, <1>2, WorkAssigns DEF toggleRead
<1>5. toEnable' \in [Admins -> BOOLEAN] /\ toggles' \in Nat
  <2>1. row[a].enabled \in BOOLEAN /\ toggles \in Nat /\ toggles' = toggles + 1
    BY <1>1 DEF toggleRead, Typed, TypeOK, Row
  <2> QED
    BY <1>1, <2>1 DEF toggleRead, Typed, TypeOK
<1>6. Typed'
  BY <1>1, <1>3, <1>4, <1>5 DEF toggleRead, Typed, TypeOK, BusyHaveAccount, panel, history
<1> QED
  BY <1>3, <1>4, <1>6, ThreadKinds, RowsUntouched DEF toggleRead

LEMMA accountSetStatusPreserves ==
    ASSUME IInv, NEW t \in Admins, accountSetStatus(t) PROVE IInv'
<1>1. Typed
  BY DEF IInv
<1>2. t \in Threads /\ "toggle" \in Stage /\ "idle" \in Stage
  BY ThreadKinds DEF Stage
<1>3. /\ pc[t] = "toggle" /\ pc' \in [Threads -> Stage] /\ pc'[t] = "idle"
      /\ \A u \in Threads \ {t} : pc'[u] = pc[u]
  BY <1>1, <1>2, GotoMoves DEF accountSetStatus
<1>4. /\ acct' \in [Threads -> Accounts \cup {NoAccount}]
      /\ \A u \in Threads \ {t} : acct'[u] = acct[u]
  BY <1>1, <1>2, WorkAssigns DEF accountSetStatus
<1>5. PICK a \in Accounts : a = acct[t]
  BY <1>1, <1>2, <1>3 DEF Typed, BusyHaveAccount
<1>6. toEnable[t] \in BOOLEAN /\ toEnable' \in [Admins -> BOOLEAN]
  BY <1>1 DEF accountSetStatus, Typed, TypeOK
<1> DEFINE new == [row[a] EXCEPT !.enabled = toEnable[t]]
<1>7. new \in Row /\ new.enabled = toEnable[t] /\ new.fails = row[a].fails
  BY <1>1, <1>5, <1>6 DEF Typed, TypeOK, Row
<1>8. /\ Update(a, new) /\ overlooked' = overlooked
      /\ fresh' = IF Answers /\ toEnable[t] THEN fresh \cup {a} ELSE fresh
  BY <1>5 DEF accountSetStatus
<1> HIDE DEF new
<1>9. /\ row' \in [Accounts -> Row] /\ errors' \in Nat
      /\ row'[a] = IF Answers THEN new ELSE row[a]
      /\ \A b \in Accounts \ {a} : row'[b] = row[b]
  BY <1>1, <1>5, <1>7, <1>8, UpdateWrites
<1>10. Typed'
  BY <1>1, <1>3, <1>4, <1>5, <1>6, <1>8, <1>9 DEF accountSetStatus, Typed, TypeOK, BusyHaveAccount
<1>11. AtThreshold(a)' => AtThreshold(a) \/ a \in fresh'
  BY <1>7, <1>8, <1>9 DEF AtThreshold
<1>12. AtThreshold(a) => Noticed(a) \/ a \in fresh \cup overlooked
  BY DEF IInv, DeadIsNoticed, Noticed
<1>13. Noticed(a) => Noticed(a)'
  BY <1>2, <1>3, <1>4, ThreadKinds DEF Noticed
<1>14. fresh \subseteq fresh'
  BY <1>8
<1>15. DeadIsNoticed'
  BY <1>2, <1>3, <1>4, <1>5, <1>8, <1>9, <1>11, <1>12, <1>13, <1>14, OthersStayNoticed
<1> QED
  BY <1>10, <1>15 DEF IInv

LEMMA NextPreserves == IInv /\ [Next]_vars => IInv'
<1> SUFFICES ASSUME IInv, [Next]_vars PROVE IInv'
  OBVIOUS
<1>1. ASSUME NEW t \in Workers, WorkerStep(t) PROVE IInv'
  BY <1>1, pickSelectPreserves, checkStartPreserves, pickTouchPreserves, markSuccessPreserves,
     markOtherPreserves, markFailurePreserves, autoDisableJudgePreserves,
     autoDisableWritePreserves DEF WorkerStep
<1>2. ASSUME NEW t \in Admins, AdminStep(t) PROVE IInv'
  BY <1>2, toggleReadPreserves, accountSetStatusPreserves DEF AdminStep
<1>3. CASE Tick
  <2>1. now' \in Nat
    BY <1>3 DEF Tick, IInv, Typed, TypeOK
  <2>2. Typed'
    BY <1>3, <2>1 DEF Tick, IInv, Typed, TypeOK, BusyHaveAccount, panel, history
  <2> QED
    BY <1>3, <2>2, RowsUntouched DEF Tick
<1>4. CASE UNCHANGED vars
  <2>1. Typed'
    BY <1>4 DEF vars, IInv, Typed, TypeOK, BusyHaveAccount
  <2> QED
    BY <1>4, <2>1, RowsUntouched DEF vars, history
<1> QED
  BY <1>1, <1>2, <1>3, <1>4 DEF Next

-----------------------------------------------------------------------------

\* Every reachable state of the accounts is well typed: no count below zero.
THEOREM TypeCorrect == Spec => []TypeOK
<1>1. IInv => TypeOK
  BY DEF IInv, Typed
<1> QED
  BY <1>1, InitEstablishes, NextPreserves, PTL DEF Spec

\* An enabled account at the threshold has a goroutine that will judge it, for any
\* number of goroutines that count its failures at the same time; what escapes is an
\* account the panel has put back without a failure since, and one whose last look
\* ended with a failing statement.
THEOREM DeadAlwaysNoticed == Spec => []DeadIsNoticed
<1>1. IInv => DeadIsNoticed
  BY DEF IInv
<1> QED
  BY <1>1, InitEstablishes, NextPreserves, PTL DEF Spec
=============================================================================
