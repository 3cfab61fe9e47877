----------------------------- MODULE Boot_proofs -----------------------------
(***************************************************************************)
(* Theorems about Boot, for any values, keys and numbers of changes and     *)
(* boots.  All but type correctness are about a database whose statements   *)
(* succeed (~KvMayFail): what a failing one does is in the README.          *)
(***************************************************************************)
EXTENDS Boot, TLAPS

\* A row the pool may get next.
NewRow(row) ==
    /\ row \in Row /\ row.id = nextID /\ ~row.refreshed /\ row.first = row.val

-----------------------------------------------------------------------------
(* What the actions do to the pool *)

LEMMA AdoptAdds ==
    ASSUME TypeOK, NEW value \in Values, NEW by \in {"legacy", "seed", "panel"}, Adopt(value, by)
    PROVE  /\ nextID' = nextID + 1
           /\ \E row : /\ NewRow(row) /\ row.val = value /\ row.by = by
                       /\ pool' = pool \cup {row}
<1>1. PICK row : row = [id |-> nextID, val |-> value, refreshed |-> FALSE, by |-> by, first |-> value]
  OBVIOUS
<1>2. row \in Row /\ row.id = nextID /\ row.refreshed = FALSE /\ row.val = value /\ row.by = by /\ row.first = value
  BY <1>1 DEF Row, TypeOK
<1> QED
  BY <1>1, <1>2 DEF Adopt, NewRow

\* The part of the type invariant that is about the pool.
PoolOK ==
    /\ pool \subseteq Row
    /\ \A r, s \in pool : r.id = s.id => r = s
    /\ \A r \in pool : r.id < nextID
    /\ nextID \in Nat \ {0}

LEMMA PoolGrows ==
    ASSUME PoolOK, NEW row, NewRow(row), pool' = pool \cup {row}, nextID' = nextID + 1
    PROVE  PoolOK'
<1>1. \A r \in pool : r.id \in Nat
  BY DEF PoolOK, Row
<1> QED
  BY <1>1 DEF PoolOK, NewRow

LEMMA PoolShrinks ==
    ASSUME PoolOK, pool' \subseteq pool, nextID' = nextID PROVE PoolOK'
  BY DEF PoolOK

LEMMA PoolChanges ==
    ASSUME PoolOK, NEW r \in pool, NEW s \in Row, s.id = r.id,
           pool' = (pool \ {r}) \cup {s}, nextID' = nextID
    PROVE  PoolOK'
  BY DEF PoolOK

LEMMA Edited ==
    ASSUME NEW r \in Row, NEW v \in Values
    PROVE  /\ [r EXCEPT !.val = v] \in Row
           /\ [r EXCEPT !.val = v].id = r.id
           /\ [r EXCEPT !.val = v].val = v
           /\ [r EXCEPT !.val = v].by = r.by
           /\ [r EXCEPT !.val = v].first = r.first
           /\ [r EXCEPT !.val = v].refreshed = r.refreshed
  BY DEF Row

LEMMA Refreshed ==
    ASSUME NEW r \in Row
    PROVE  /\ [r EXCEPT !.refreshed = TRUE] \in Row
           /\ [r EXCEPT !.refreshed = TRUE].id = r.id
           /\ [r EXCEPT !.refreshed = TRUE].val = r.val
           /\ [r EXCEPT !.refreshed = TRUE].by = r.by
           /\ [r EXCEPT !.refreshed = TRUE].first = r.first
  BY DEF Row

\* A step that changes the pool outside a boot adds a row, or removes one, or gives one
\* another value or refreshes it.
LEMMA PanelChanges ==
    ASSUME TypeOK, NEW r \in pool,
           panelDelete(r) \/ refresh(r) \/ \E v \in Values \ {r.val} : panelEdit(r, v)
    PROVE  /\ pc = "up" /\ pc' = pc /\ nextID' = nextID
           /\ \/ pool' = pool \ {r} /\ r.val \in hist'.touched
              \/ \E s \in Row : /\ pool' = (pool \ {r}) \cup {s}
                                /\ s.id = r.id /\ s.by = r.by /\ s.first = r.first
                                /\ s.val # r.val => r.val \in hist'.touched
                                /\ s.val = r.val => hist'.refreshed
                                /\ s.refreshed => r.refreshed \/ hist'.refreshed
           /\ hist.touched \subseteq hist'.touched
           /\ hist'.migrated = hist.migrated /\ hist'.torn = hist.torn
           /\ hist'.disturbed = hist.disturbed
           /\ hist.refreshed => hist'.refreshed
           /\ UNCHANGED <<kind, legacy, kv, flag, loc, key, setting, boots>>
           /\ changes' \in 0..MaxChanges
           /\ hist' \in [migrated : Nat, touched : SUBSET Values,
                         refreshed : BOOLEAN, disturbed : BOOLEAN, torn : BOOLEAN]
<1> DEFINE H == [migrated : Nat, touched : SUBSET Values,
                 refreshed : BOOLEAN, disturbed : BOOLEAN, torn : BOOLEAN]
<1>1. r \in Row /\ hist \in H /\ r.val \in Values
  BY DEF TypeOK, Row
<1>2. ASSUME NEW rows, change(rows, {r.val})
      PROVE  /\ pc = "up" /\ pc' = pc /\ pool' = rows
             /\ hist' \in H /\ hist'.touched = hist.touched \cup {r.val}
             /\ hist'.migrated = hist.migrated /\ hist'.torn = hist.torn
             /\ hist'.disturbed = hist.disturbed /\ hist'.refreshed = hist.refreshed
             /\ UNCHANGED <<kind, legacy, kv, flag, loc, key, setting, boots>>
             /\ changes' \in 0..MaxChanges
  <2>1. hist' = [hist EXCEPT !.touched = hist.touched \cup {r.val}]
    BY <1>1, <1>2 DEF change
  <2>2. hist.touched \cup {r.val} \in SUBSET Values
    BY <1>1
  <2>3. changes' \in 0..MaxChanges
    BY <1>2, BootBounds DEF change, TypeOK
  <2> QED
    BY <1>1, <1>2, <2>1, <2>2, <2>3 DEF change, At, keys
<1>3. CASE panelDelete(r)
  BY <1>2, <1>3 DEF panelDelete
<1>4. ASSUME NEW v \in Values \ {r.val}, panelEdit(r, v) PROVE \E s \in Row :
                                /\ pool' = (pool \ {r}) \cup {s} /\ nextID' = nextID
                                /\ s.id = r.id /\ s.by = r.by /\ s.first = r.first
                                /\ s.val # r.val /\ s.refreshed = r.refreshed
                                /\ change(pool', {r.val})
  <2>1. PICK s : s = [r EXCEPT !.val = v]
    OBVIOUS
  <2>2. s \in Row /\ s.id = r.id /\ s.by = r.by /\ s.first = r.first /\ s.val = v
        /\ s.refreshed = r.refreshed
    BY <1>1, <2>1, Edited
  <2>3. pool' = (pool \ {r}) \cup {s} /\ nextID' = nextID /\ change(pool', {r.val})
    BY <1>4, <2>1 DEF panelEdit, change
  <2> QED
    BY <2>2, <2>3
<1>5. CASE refresh(r)
  <2>1. PICK s : s = [r EXCEPT !.refreshed = TRUE]
    OBVIOUS
  <2>2. s \in Row /\ s.id = r.id /\ s.by = r.by /\ s.first = r.first /\ s.val = r.val
    BY <1>1, <2>1, Refreshed
  <2>3. pool' = (pool \ {r}) \cup {s} /\ nextID' = nextID /\ pc = "up" /\ pc' = pc
        /\ UNCHANGED <<kind, legacy, kv, flag, loc, key, setting, boots>>
    BY <1>5, <2>1 DEF refresh, At, keys
  <2>4. hist' = [hist EXCEPT !.refreshed = TRUE]
    BY <1>5 DEF refresh
  <2>5. changes' \in 0..MaxChanges
    BY <1>5, BootBounds DEF refresh, TypeOK
  <2> QED
    BY <1>1, <2>2, <2>3, <2>4, <2>5
<1> QED
  BY <1>2, <1>3, <1>4, <1>5

-----------------------------------------------------------------------------
(* Type correctness *)

LEMMA TypedPool == ASSUME TypeOK PROVE PoolOK
  BY DEF TypeOK, PoolOK

\* A value that is refused never gets as far as a note.
IInv == TypeOK /\ (pc \in {"val", "id"} => flag # Bad)

\* What the statements read and write is of the type of what is there.
LEMMA GetTyped ==
    ASSUME NEW value, NEW empty, NEW got \in Get(value, empty)
    PROVE  /\ got \in {value, empty}
           /\ ~KvMayFail => got = value
<1>1. CASE KvMayFail
  BY <1>1 DEF Get
<1>2. CASE ~KvMayFail
  BY <1>2 DEF Get
<1> QED
  BY <1>1, <1>2

LEMMA SetTyped ==
    ASSUME NEW old, NEW new, NEW got \in Set(old, new)
    PROVE  /\ got \in {new, old}
           /\ ~KvMayFail => got = new
<1>1. CASE KvMayFail
  BY <1>1 DEF Set
<1>2. CASE ~KvMayFail
  BY <1>2 DEF Set
<1> QED
  BY <1>1, <1>2

LEMMA LegacyDecideTyped == ASSUME IInv, legacyDecide PROVE IInv'
<1>1. /\ pc' \in {"sync", "mark"}
      /\ UNCHANGED <<kind, legacy, kv, flag, loc, key, setting, changes, boots>>
  BY DEF legacyDecide, Goto, keys, bounds
<1>2. CASE UNCHANGED <<pool, nextID, hist>>
  BY <1>1, <1>2 DEF IInv, TypeOK
<1>3. CASE ~UNCHANGED <<pool, nextID, hist>>
  <2>1. PICK v \in Get(legacy, None) :
          /\ v # None /\ ~Refused(v) /\ Adopt(v, "legacy")
          /\ hist' = [hist EXCEPT !.migrated = @ + 1]
    BY <1>3 DEF legacyDecide
  <2>2. v \in Values
    BY <2>1, GetTyped DEF IInv, TypeOK, Value, Refused
  <2>3. PICK row : NewRow(row) /\ pool' = pool \cup {row} /\ nextID' = nextID + 1
    BY <2>1, <2>2, AdoptAdds DEF IInv
  <2>4. PoolOK'
    BY <2>3, TypedPool, PoolGrows DEF IInv
  <2>5. hist' \in [migrated : Nat, touched : SUBSET Values,
                 refreshed : BOOLEAN, disturbed : BOOLEAN, torn : BOOLEAN]
    <3>1. hist.migrated + 1 \in Nat
      BY DEF IInv, TypeOK
    <3>2. PICK n \in Nat : hist' = [hist EXCEPT !.migrated = n]
      BY <2>1, <3>1 DEF IInv, TypeOK
    <3> QED
      BY <3>2 DEF IInv, TypeOK
  <2> QED
    BY <1>1, <2>4, <2>5 DEF IInv, TypeOK, PoolOK
<1> QED
  BY <1>2, <1>3

LEMMA NotesTyped == ASSUME IInv, legacyMark \/ noteVal \/ noteID PROVE IInv'
<1>1. /\ pc' \in {"sync", "id", "key"} /\ (pc' = "id" => pc = "val")
      /\ UNCHANGED <<kind, pool, nextID, legacy, flag, loc, key, setting, hist, changes, boots>>
  BY DEF legacyMark, noteVal, noteID, Goto, At, keys, bounds
<1>2. kv' \in [done : BOOLEAN, val : Values \cup {None}, id : Nat]
  <2>1. CASE legacyMark
    <3>1. PICK done \in Set(kv.done, TRUE) : kv' = [kv EXCEPT !.done = done]
      BY <2>1 DEF legacyMark
    <3>2. done = TRUE \/ done = kv.done
      BY <3>1, SetTyped
    <3> QED
      BY <3>1, <3>2 DEF IInv, TypeOK
  <2>2. CASE noteVal
    <3>1. PICK v \in Set(kv.val, flag) : kv' = [kv EXCEPT !.val = v]
      BY <2>2 DEF noteVal
    <3>2. v \in Values \cup {None}
      BY <2>2, <3>1, SetTyped DEF IInv, TypeOK, Value, noteVal, At
    <3> QED
      BY <3>1, <3>2 DEF IInv, TypeOK
  <2>3. CASE noteID
    <3>1. PICK id \in Set(kv.id, loc.id) : kv' = [kv EXCEPT !.id = id]
      BY <2>3 DEF noteID
    <3>2. id \in Nat
      BY <3>1, SetTyped DEF IInv, TypeOK
    <3> QED
      BY <3>1, <3>2 DEF IInv, TypeOK
  <2> QED
    BY <2>1, <2>2, <2>3
<1> QED
  BY <1>1, <1>2 DEF IInv, TypeOK

LEMMA SeedingTyped == ASSUME IInv, syncRead \/ drop \/ enter PROVE IInv'
<1>1. CASE syncRead
  <2>1. PICK prev \in Get(kv.val, None) : loc' = [prev |-> prev, id |-> 0]
    BY <1>1 DEF syncRead
  <2>2. prev \in Values \cup {None}
    BY <2>1, GetTyped DEF IInv, TypeOK
  <2>3. /\ pc' \in {"key", "drop"}
        /\ UNCHANGED <<kind, pool, nextID, legacy, kv, flag, key, setting, hist, changes, boots>>
    BY <1>1 DEF syncRead, Goto, keys, bounds
  <2> QED
    BY <2>1, <2>2, <2>3 DEF IInv, TypeOK
<1>2. CASE drop
  <2>1. /\ pc' = "enter"
        /\ UNCHANGED <<kind, nextID, legacy, kv, flag, loc, key, setting, hist, changes, boots>>
    BY <1>2 DEF drop, Goto, keys, bounds
  <2>2. pool' \subseteq pool
    <3>1. PICK id \in Get(kv.id, 0) :
            pool' \in Set(pool, pool \ {r \in pool : Own(r, id, loc.prev)})
               \/ pool' \in Set(pool, pool \ {r \in {} : Own(r, id, loc.prev)})
      BY <1>2, GetTyped DEF drop
    <3> QED
      BY <3>1, SetTyped
  <2>3. PoolOK'
    BY <2>1, <2>2, TypedPool, PoolShrinks DEF IInv
  <2> QED
    BY <2>1, <2>3 DEF IInv, TypeOK, PoolOK
<1>3. CASE enter
  <2>1. /\ pc' \in {"key", "val"}
        /\ UNCHANGED <<kind, legacy, kv, flag, key, setting, hist, changes, boots>>
    BY <1>3 DEF enter, Goto, keys, bounds
  <2>2. PICK rows \in Get(pool, {}) :
          \/ pc' = "key" /\ UNCHANGED <<pool, nextID, loc>>
          \/ /\ flag = None \/ Has(rows, flag)
             /\ UNCHANGED <<pool, nextID, loc>>
          \/ /\ flag # None /\ ~Refused(flag)
             /\ Adopt(flag, "seed")
             /\ loc' = [loc EXCEPT !.id = nextID]
    BY <1>3 DEF enter, Goto
  <2>3. CASE pc' = "key" /\ UNCHANGED <<pool, nextID, loc>>
    BY <2>1, <2>3 DEF IInv, TypeOK
  <2>4. CASE (flag = None \/ Has(rows, flag)) /\ UNCHANGED <<pool, nextID, loc>>
    <3>1. rows \subseteq pool
      BY GetTyped
    <3>2. flag # Bad
      BY <2>4, <3>1, BootBounds DEF Has, Is, IInv, TypeOK, Row
    <3> QED
      BY <2>1, <2>4, <3>2 DEF IInv, TypeOK
  <2>5. CASE flag # None /\ ~Refused(flag) /\ Adopt(flag, "seed") /\ loc' = [loc EXCEPT !.id = nextID]
    <3>1. flag \in Values /\ flag # Bad
      BY <2>5 DEF IInv, TypeOK, Value, Refused
    <3>2. PICK row : NewRow(row) /\ pool' = pool \cup {row} /\ nextID' = nextID + 1
      BY <2>5, <3>1, AdoptAdds DEF IInv
    <3>3. PoolOK'
      BY <3>2, TypedPool, PoolGrows DEF IInv
    <3>4. loc' \in [prev : Values \cup {None}, id : Nat]
      BY <2>5 DEF IInv, TypeOK
    <3> QED
      BY <2>1, <3>1, <3>3, <3>4 DEF IInv, TypeOK, PoolOK
  <2> QED
    BY <2>2, <2>3, <2>4, <2>5
<1> QED
  BY <1>1, <1>2, <1>3

LEMMA KeyTyped ==
    ASSUME IInv, initAPIKey \/ storeAPIKey \/ \E k \in Keys : writeAPIKey(k)
    PROVE  IInv'
<1> DEFINE K == [flag : Keys \cup {None}, kv : Keys \cup {None}, mem : Keys \cup {None}]
<1>1. key \in K
  BY DEF IInv, TypeOK
<1>2. CASE initAPIKey
  <2>1. /\ pc' = "up"
        /\ UNCHANGED <<kind, pool, nextID, legacy, kv, flag, loc, setting, hist, changes, boots>>
    BY <1>2 DEF initAPIKey, Goto, seeding, bounds
  <2>2. CASE key' = [key EXCEPT !.mem = key.flag]
    BY <1>1, <2>1, <2>2 DEF IInv, TypeOK
  <2>3. CASE key.flag = None
    <3>1. PICK stored \in Get(key.kv, None) :
            IF FirstBoot(stored)
            THEN \E new \in Keys \ {key.kv} : \E kept \in Set(key.kv, new) :
                    key' = [key EXCEPT !.kv = kept, !.mem = new]
            ELSE key' = [key EXCEPT !.mem = stored]
      BY <1>2, <2>3 DEF initAPIKey
    <3>2. stored \in Keys \cup {None}
      BY <1>1, GetTyped
    <3>3. key' \in K
      <4>1. \A new \in Keys : \A kept \in Set(key.kv, new) : kept \in Keys \cup {None}
        BY <1>1, SetTyped
      <4> QED
        BY <1>1, <3>1, <3>2, <4>1
    <3> QED
      BY <2>1, <3>3 DEF IInv, TypeOK
  <2> QED
    BY <1>2, <2>2, <2>3 DEF initAPIKey
<1>3. CASE storeAPIKey
  <2>1. PICK k \in setting : key' = [key EXCEPT !.mem = k] /\ setting' = setting \ {k}
    BY <1>3 DEF storeAPIKey
  <2>2. key' \in K /\ setting' \subseteq Keys
    BY <1>1, <2>1 DEF IInv, TypeOK
  <2>3. UNCHANGED <<kind, pool, nextID, legacy, kv, pc, flag, loc, hist, changes, boots>>
    BY <1>3 DEF storeAPIKey, seeding, bounds
  <2> QED
    BY <2>2, <2>3 DEF IInv, TypeOK
<1>4. ASSUME NEW k \in Keys, writeAPIKey(k) PROVE IInv'
  <2>1. key' \in K /\ setting' \subseteq Keys
    BY <1>1, <1>4 DEF writeAPIKey, IInv, TypeOK
  <2>2. changes' \in 0..MaxChanges
    BY <1>4, BootBounds DEF writeAPIKey, IInv, TypeOK
  <2>3. UNCHANGED <<kind, pool, nextID, legacy, kv, pc, flag, loc, hist, boots>>
    BY <1>4 DEF writeAPIKey, seeding
  <2> QED
    BY <2>1, <2>2, <2>3 DEF IInv, TypeOK
<1> QED
  BY <1>2, <1>3, <1>4

LEMMA PanelTyped ==
    ASSUME IInv,
           \/ \E r \in pool : panelDelete(r) \/ refresh(r) \/ \E v \in Values \ {r.val} : panelEdit(r, v)
           \/ \E v \in Values : panelAdd(v)
    PROVE  IInv'
<1>1. ASSUME NEW r \in pool,
             panelDelete(r) \/ refresh(r) \/ \E v \in Values \ {r.val} : panelEdit(r, v)
      PROVE  IInv'
  <2>1. PoolOK'
    BY <1>1, TypedPool, PanelChanges, PoolShrinks, PoolChanges DEF IInv
  <2> QED
    BY <1>1, <2>1, PanelChanges DEF IInv, TypeOK, PoolOK
<1>2. ASSUME NEW v \in Values, panelAdd(v) PROVE IInv'
  <2>1. PICK row : NewRow(row) /\ pool' = pool \cup {row} /\ nextID' = nextID + 1
    BY <1>2, AdoptAdds DEF IInv, panelAdd
  <2>2. PoolOK'
    BY <2>1, TypedPool, PoolGrows DEF IInv
  <2>3. changes' \in 0..MaxChanges
    BY <1>2, BootBounds DEF panelAdd, IInv, TypeOK
  <2>4. UNCHANGED <<kind, legacy, kv, pc, flag, loc, key, setting, hist, boots>>
    BY <1>2 DEF panelAdd, keys
  <2> QED
    BY <2>2, <2>3, <2>4 DEF IInv, TypeOK, PoolOK
<1> QED
  BY <1>1, <1>2

LEMMA ProcessTyped ==
    ASSUME IInv, stop \/ \E v \in Value, k \in FlagKeys \cup {None} : Run(v, k)
    PROVE  IInv'
<1> DEFINE H == [migrated : Nat, touched : SUBSET Values,
                 refreshed : BOOLEAN, disturbed : BOOLEAN, torn : BOOLEAN]
<1>1. hist \in H
  BY DEF IInv, TypeOK
<1>2. CASE stop
  <2>1. PICK d \in BOOLEAN, t \in BOOLEAN : hist' = [hist EXCEPT !.disturbed = d, !.torn = t]
    BY <1>1, <1>2 DEF stop
  <2>2. hist' \in H
    BY <1>1, <2>1
  <2>3. loc' \in [prev : Values \cup {None}, id : Nat]
    BY <1>2 DEF stop
  <2>4. key' \in [flag : Keys \cup {None}, kv : Keys \cup {None}, mem : Keys \cup {None}]
    BY <1>2 DEF stop, IInv, TypeOK
  <2>5. /\ pc' = "down" /\ setting' = {}
        /\ UNCHANGED <<kind, pool, nextID, legacy, kv, flag, changes, boots>>
    BY <1>2 DEF stop, Goto, bounds
  <2> QED
    BY <2>2, <2>3, <2>4, <2>5 DEF IInv, TypeOK
<1>3. ASSUME NEW v \in Value, NEW k \in FlagKeys \cup {None}, Run(v, k) PROVE IInv'
  <2>1. PICK d \in BOOLEAN : hist' = [hist EXCEPT !.disturbed = d]
    BY <1>1, <1>3 DEF Run
  <2>2. hist' \in H
    BY <1>1, <2>1
  <2>3. key' \in [flag : Keys \cup {None}, kv : Keys \cup {None}, mem : Keys \cup {None}]
    BY <1>3, BootBounds DEF Run, IInv, TypeOK
  <2>4. boots' \in 0..MaxBoots
    BY <1>3, BootBounds DEF Run, IInv, TypeOK
  <2>5. /\ pc' = "legacy" /\ flag' = v
        /\ UNCHANGED <<kind, pool, nextID, legacy, kv, loc, setting, changes>>
    BY <1>3 DEF Run, Goto
  <2> QED
    BY <2>2, <2>3, <2>4, <2>5 DEF IInv, TypeOK
<1> QED
  BY <1>2, <1>3

LEMMA StepTyped == ASSUME IInv, [Next]_vars PROVE IInv'
<1>1. CASE UNCHANGED vars
  BY <1>1 DEF vars, IInv, TypeOK
<1> QED
  BY <1>1, LegacyDecideTyped, NotesTyped, SeedingTyped, KeyTyped, PanelTyped, ProcessTyped
     DEF Next, BootStep

LEMMA Invariant == Spec => []IInv
<1>1. ASSUME Init PROVE IInv
  <2>1. hist \in [migrated : Nat, touched : SUBSET Values,
                  refreshed : BOOLEAN, disturbed : BOOLEAN, torn : BOOLEAN]
    BY <1>1 DEF Init
  <2>2. kv \in [done : BOOLEAN, val : Values \cup {None}, id : Nat]
    BY <1>1 DEF Init
  <2> QED
    BY <1>1, <2>1, <2>2, BootBounds DEF Init, IInv, TypeOK, Value
<1>2. Init => IInv
  BY <1>1
<1>3. IInv /\ [Next]_vars => IInv'
  BY StepTyped
<1> QED
  BY <1>2, <1>3, PTL DEF Spec

\* Every reachable state of the boot is well typed, failing statements included: rows have
\* distinct ids, and a refused parameter never gets into the pool or its notes
\* (proxy.go:166-191, cookie_pool.go:249-284).
THEOREM TypeCorrect == Spec => []TypeOK
<1>1. IInv => TypeOK
  BY DEF IInv
<1> QED
  BY Invariant, <1>1, PTL

-----------------------------------------------------------------------------
(* What the boot does when the statements succeed *)

LEMMA LegacyDecides ==
    ASSUME IInv, ~KvMayFail, legacyDecide
    PROVE  /\ pc = "legacy" /\ UNCHANGED <<kind, legacy, kv, flag, loc, key, setting, changes, boots>>
           /\ \/ /\ pc' = "sync" /\ UNCHANGED <<pool, nextID, hist>>
                 /\ kv.done \/ legacy = Bad
              \/ /\ pc' = "mark" /\ UNCHANGED <<pool, nextID, hist>>
                 /\ ~kv.done /\ (legacy = None \/ Has(pool, legacy))
              \/ /\ pc' = "mark" /\ nextID' = nextID + 1 /\ ~kv.done
                 /\ legacy \in Values /\ ~Has(pool, legacy)
                 /\ hist' = [hist EXCEPT !.migrated = @ + 1]
                 /\ \E row : /\ NewRow(row) /\ row.val = legacy /\ row.by = "legacy"
                             /\ pool' = pool \cup {row}
<1>1. /\ Get(kv.done, FALSE) = {kv.done} /\ Get(legacy, None) = {legacy} /\ Get(pool, {}) = {pool}
  BY DEF Get
<1>2. pc = "legacy" /\ UNCHANGED <<kind, legacy, kv, flag, loc, key, setting, changes, boots>>
  BY DEF legacyDecide, At, keys, bounds
<1>3. \/ kv.done /\ Goto("sync") /\ UNCHANGED <<pool, nextID, hist>>
      \/ ~kv.done /\ Refused(legacy) /\ Goto("sync") /\ UNCHANGED <<pool, nextID, hist>>
      \/ /\ ~kv.done /\ (legacy = None \/ Has(pool, legacy)) /\ Goto("mark")
         /\ UNCHANGED <<pool, nextID, hist>>
      \/ /\ ~kv.done /\ legacy # None /\ ~Refused(legacy) /\ ~Has(pool, legacy)
         /\ Adopt(legacy, "legacy") /\ Goto("mark")
         /\ hist' = [hist EXCEPT !.migrated = @ + 1]
  BY <1>1 DEF legacyDecide
<1>4. CASE /\ ~kv.done /\ legacy # None /\ ~Refused(legacy) /\ ~Has(pool, legacy)
           /\ Adopt(legacy, "legacy") /\ Goto("mark")
           /\ hist' = [hist EXCEPT !.migrated = @ + 1]
  <2>1. legacy \in Values
    BY <1>4 DEF IInv, TypeOK, Value, Refused
  <2> QED
    BY <1>2, <1>4, <2>1, AdoptAdds DEF IInv, Goto
<1> QED
  BY <1>2, <1>3, <1>4 DEF Goto, Refused

LEMMA SyncReads ==
    ASSUME IInv, ~KvMayFail, syncRead
    PROVE  /\ pc = "sync" /\ loc' = [prev |-> kv.val, id |-> 0]
           /\ \/ pc' = "key" /\ ((kind = "cookie" /\ flag = Bad) \/ flag = kv.val)
              \/ pc' = "drop" /\ ~(kind = "cookie" /\ flag = Bad) /\ flag # kv.val
           /\ UNCHANGED <<kind, pool, nextID, legacy, kv, flag, key, setting, hist, changes, boots>>
  BY GetTyped DEF syncRead, At, Goto, Unreadable, Unchanged, keys, bounds

LEMMA Drops ==
    ASSUME IInv, ~KvMayFail, drop
    PROVE  /\ pc = "drop" /\ pc' = "enter"
           /\ pool' = pool \ {r \in pool : Own(r, kv.id, loc.prev)}
           /\ UNCHANGED <<kind, nextID, legacy, kv, flag, loc, key, setting, hist, changes, boots>>
<1>1. Get(kv.id, 0) = {kv.id} /\ Get(pool, {}) = {pool}
  BY DEF Get
<1>2. pool' = pool \ {r \in pool : Own(r, kv.id, loc.prev)}
  BY <1>1, SetTyped DEF drop
<1> QED
  BY <1>2 DEF drop, At, Goto, keys, bounds

LEMMA Enters ==
    ASSUME IInv, ~KvMayFail, enter
    PROVE  /\ pc = "enter"
           /\ \/ pc' = "key" /\ flag = Bad /\ UNCHANGED <<pool, nextID, loc>>
              \/ /\ pc' = "val" /\ UNCHANGED <<pool, nextID, loc>>
                 /\ flag = None \/ Has(pool, flag)
              \/ /\ pc' = "val" /\ nextID' = nextID + 1
                 /\ flag \in Values /\ ~Has(pool, flag)
                 /\ loc' = [loc EXCEPT !.id = nextID]
                 /\ \E row : /\ NewRow(row) /\ row.val = flag /\ row.by = "seed"
                             /\ pool' = pool \cup {row}
           /\ UNCHANGED <<kind, legacy, kv, flag, key, setting, hist, changes, boots>>
<1>1. Get(pool, {}) = {pool}
  BY DEF Get
<1>2. pc = "enter" /\ UNCHANGED <<kind, legacy, kv, flag, key, setting, hist, changes, boots>>
  BY DEF enter, At, keys, bounds
<1>3. \/ Refused(flag) /\ Goto("key") /\ UNCHANGED <<pool, nextID, loc>>
      \/ (flag = None \/ Has(pool, flag)) /\ Goto("val") /\ UNCHANGED <<pool, nextID, loc>>
      \/ /\ flag # None /\ ~Refused(flag) /\ ~Has(pool, flag)
         /\ Adopt(flag, "seed") /\ Goto("val") /\ loc' = [loc EXCEPT !.id = nextID]
  BY <1>1 DEF enter
<1>4. CASE /\ flag # None /\ ~Refused(flag) /\ ~Has(pool, flag)
           /\ Adopt(flag, "seed") /\ Goto("val") /\ loc' = [loc EXCEPT !.id = nextID]
  <2>1. flag \in Values
    BY <1>4 DEF IInv, TypeOK, Value, Refused
  <2> QED
    BY <1>2, <1>4, <2>1, AdoptAdds DEF IInv, Goto
<1> QED
  BY <1>2, <1>3, <1>4 DEF Goto, Refused

LEMMA Notes ==
    ASSUME IInv, ~KvMayFail
    PROVE  /\ legacyMark => /\ pc = "mark" /\ pc' = "sync" /\ kv' = [kv EXCEPT !.done = TRUE]
                            /\ kv'.done
           /\ noteVal => pc = "val" /\ pc' = "id" /\ kv' = [kv EXCEPT !.val = flag]
           /\ noteID => pc = "id" /\ pc' = "key" /\ kv' = [kv EXCEPT !.id = loc.id]
           /\ legacyMark \/ noteVal \/ noteID =>
                 UNCHANGED <<kind, pool, nextID, legacy, flag, loc, key, setting, hist, changes, boots>>
<1>1. /\ Set(kv.done, TRUE) = {TRUE} /\ Set(kv.val, flag) = {flag} /\ Set(kv.id, loc.id) = {loc.id}
  BY DEF Set
<1>2. legacyMark => kv' = [kv EXCEPT !.done = TRUE]
  BY <1>1 DEF legacyMark
<1>3. kv' = [kv EXCEPT !.done = TRUE] => kv'.done
  BY DEF IInv, TypeOK
<1> QED
  BY <1>1, <1>2, <1>3 DEF legacyMark, noteVal, noteID, At, Goto, keys, bounds

\* What the rest of the system does to the process and the pool.
LEMMA Elsewhere ==
    ASSUME IInv
    PROVE  /\ initAPIKey => /\ pc = "key" /\ pc' = "up"
                            /\ UNCHANGED <<kind, pool, nextID, legacy, kv, flag, loc, setting, hist>>
           /\ storeAPIKey =>
                 UNCHANGED <<kind, pool, nextID, legacy, kv, pc, flag, loc, hist>>
           /\ (\E k \in Keys : writeAPIKey(k)) =>
                 pc = "up" /\ UNCHANGED <<kind, pool, nextID, legacy, kv, pc, flag, loc, hist>>
           /\ (\E v \in Values : panelAdd(v)) =>
                 /\ pc = "up" /\ nextID' = nextID + 1
                 /\ \E row : /\ NewRow(row) /\ row.by = "panel"
                             /\ pool' = pool \cup {row}
                 /\ UNCHANGED <<kind, legacy, kv, pc, flag, loc, key, setting, hist>>
           /\ (\E v \in Value, k \in FlagKeys \cup {None} : Run(v, k)) =>
                 /\ pc = "down" /\ pc' = "legacy"
                 /\ UNCHANGED <<kind, pool, nextID, legacy, kv, loc, setting>>
           /\ stop => /\ pc # "down" /\ pc' = "down" /\ setting' = {}
                      /\ loc' = [prev |-> None, id |-> 0]
                      /\ UNCHANGED <<kind, pool, nextID, legacy, kv, flag>>
<1>1. ASSUME NEW v \in Values, panelAdd(v)
      PROVE  nextID' = nextID + 1 /\ \E row : NewRow(row) /\ row.by = "panel" /\ pool' = pool \cup {row}
  BY <1>1, AdoptAdds DEF IInv, panelAdd
<1>2. (\E v \in Values : panelAdd(v)) => pc = "up" /\ UNCHANGED <<kind, legacy, kv, pc, flag, loc, key, setting, hist>>
  BY DEF panelAdd, At, keys
<1>3. /\ initAPIKey => pc = "key" /\ pc' = "up"
                       /\ UNCHANGED <<kind, pool, nextID, legacy, kv, flag, loc, setting, hist>>
      /\ storeAPIKey => UNCHANGED <<kind, pool, nextID, legacy, kv, pc, flag, loc, hist>>
      /\ (\E k \in Keys : writeAPIKey(k)) =>
            pc = "up" /\ UNCHANGED <<kind, pool, nextID, legacy, kv, pc, flag, loc, hist>>
  BY DEF initAPIKey, storeAPIKey, writeAPIKey, At, Goto, seeding
<1>4. /\ (\E v \in Value, k \in FlagKeys \cup {None} : Run(v, k)) =>
            pc = "down" /\ pc' = "legacy" /\ UNCHANGED <<kind, pool, nextID, legacy, kv, loc, setting>>
      /\ stop => /\ pc # "down" /\ pc' = "down" /\ setting' = {}
                 /\ loc' = [prev |-> None, id |-> 0]
                 /\ UNCHANGED <<kind, pool, nextID, legacy, kv, flag>>
  BY DEF Run, stop, At, Goto
<1> QED
  BY <1>1, <1>2, <1>3, <1>4

-----------------------------------------------------------------------------
(* The API key *)

\* While a panel request changes the key, it is the only one, and the stored key is its.
KeyInv ==
    /\ pc # "up" => setting = {}
    /\ pc = "up" =>
          /\ key.mem # None
          /\ setting # {} => key.flag = None /\ setting = {key.kv}
          /\ setting = {} => key.mem = (IF key.flag # None THEN key.flag ELSE key.kv)

LEMMA KeyStep == ASSUME IInv, ~KvMayFail, KeyInv, [Next]_vars PROVE KeyInv'
<1>1. key \in [flag : Keys \cup {None}, kv : Keys \cup {None}, mem : Keys \cup {None}]
      /\ setting \subseteq Keys /\ None \notin Keys
  BY BootBounds DEF IInv, TypeOK
<1>2. CASE UNCHANGED vars
  BY <1>2 DEF vars, KeyInv
<1>3. CASE legacyDecide
  BY <1>3, LegacyDecides DEF KeyInv
<1>4. CASE syncRead
  BY <1>4, SyncReads DEF KeyInv
<1>5. CASE drop \/ enter
  BY <1>5, Drops, Enters DEF KeyInv
<1>6. CASE legacyMark \/ noteVal \/ noteID
  BY <1>6, Notes DEF KeyInv
<1>7. CASE initAPIKey
  <2>1. pc = "key" /\ pc' = "up" /\ UNCHANGED setting
    BY <1>7, Elsewhere
  <2>2. \/ key.flag # None /\ key' = [key EXCEPT !.mem = key.flag]
        \/ /\ key.flag = None /\ key.kv = None
           /\ \E new \in Keys : key' = [key EXCEPT !.kv = new, !.mem = new]
        \/ /\ key.flag = None /\ key.kv # None
           /\ key' = [key EXCEPT !.mem = key.kv]
    <3>1. Get(key.kv, None) = {key.kv}
      BY DEF Get
    <3>2. CASE key.flag # None
      BY <1>7, <3>2 DEF initAPIKey
    <3>3. CASE key.flag = None /\ FirstBoot(key.kv)
      <4>1. PICK new \in Keys \ {key.kv} : \E kept \in Set(key.kv, new) :
              key' = [key EXCEPT !.kv = kept, !.mem = new]
        BY <1>7, <3>1, <3>3 DEF initAPIKey
      <4>2. PICK kept \in Set(key.kv, new) : key' = [key EXCEPT !.kv = kept, !.mem = new]
        BY <4>1
      <4>3. kept = new
        BY <4>2, SetTyped
      <4> QED
        BY <3>3, <4>2, <4>3 DEF FirstBoot
    <3>4. CASE key.flag = None /\ ~FirstBoot(key.kv)
      BY <1>7, <3>1, <3>4 DEF initAPIKey, FirstBoot
    <3> QED
      BY <3>2, <3>3, <3>4
  <2> QED
    BY <1>1, <2>1, <2>2 DEF KeyInv
<1>8. CASE storeAPIKey
  <2>1. PICK k \in setting : key' = [key EXCEPT !.mem = k] /\ setting' = setting \ {k} /\ pc' = pc
    BY <1>8 DEF storeAPIKey
  <2> QED
    BY <1>1, <2>1 DEF KeyInv
<1>9. ASSUME NEW k \in Keys, writeAPIKey(k) PROVE KeyInv'
  <2>1. /\ pc = "up" /\ pc' = pc /\ key.flag = None /\ setting = {}
        /\ key' = [key EXCEPT !.kv = k] /\ setting' = {k}
    BY <1>9 DEF writeAPIKey, MayWrite, At
  <2> QED
    BY <1>1, <2>1 DEF KeyInv
<1>10. CASE \E r \in pool : panelDelete(r) \/ refresh(r) \/ \E v \in Values \ {r.val} : panelEdit(r, v)
  BY <1>10, PanelChanges DEF KeyInv, IInv
<1>11. CASE \E v \in Values : panelAdd(v)
  BY <1>11, Elsewhere DEF KeyInv
<1>12. CASE stop \/ \E v \in Value, k \in FlagKeys \cup {None} : Run(v, k)
  BY <1>12, Elsewhere DEF KeyInv
<1> QED
  BY <1>2, <1>3, <1>4, <1>5, <1>6, <1>7, <1>8, <1>9, <1>10, <1>11, <1>12 DEF Next, BootStep

\* The key the process accepts is the stored one, or the flag's, whatever happened to
\* the process and however the panel's requests interleave (apikey.go:40-101).
THEOREM KeysStayTogether == ASSUME ~KvMayFail PROVE Spec => []KeysAgree
<1>1. Init => KeyInv
  BY DEF Init, KeyInv
<1>2. IInv /\ KeyInv /\ [Next]_vars => KeyInv'
  BY KeyStep
<1>3. KeyInv => KeysAgree
  BY DEF KeyInv, KeysAgree
<1> QED
  BY Invariant, <1>1, <1>2, <1>3, PTL DEF Spec

-----------------------------------------------------------------------------
(* Seeding *)

\* What a stop and a start leave in the history.
LEMMA ProcessHistory ==
    ASSUME IInv
    PROVE  /\ stop \/ (\E v \in Value, k \in FlagKeys \cup {None} : Run(v, k)) =>
                 /\ hist'.migrated = hist.migrated /\ hist'.touched = hist.touched
                 /\ ~hist'.refreshed => ~hist.refreshed
                 /\ ~hist'.disturbed => ~hist.disturbed
                 /\ ~hist'.torn => ~hist.torn
           /\ stop => /\ ~hist'.disturbed => pc = "up"
                      /\ ~hist'.torn => pc # "id"
           /\ (\E v \in Value, k \in FlagKeys \cup {None} : Run(v, k)) =>
                 (~hist'.disturbed => flag' # Bad \/ kind # "proxy")
<1>1. hist \in [migrated : Nat, touched : SUBSET Values,
                refreshed : BOOLEAN, disturbed : BOOLEAN, torn : BOOLEAN]
  BY DEF IInv, TypeOK
<1>2. CASE stop
  <2>1. PICK d \in BOOLEAN, t \in BOOLEAN :
          /\ hist' = [hist EXCEPT !.disturbed = d, !.torn = t]
          /\ d = (hist.disturbed \/ pc # "up") /\ t = (hist.torn \/ pc = "id")
    BY <1>1, <1>2 DEF stop, At
  <2>2. hist'.disturbed = d /\ hist'.torn = t /\ hist'.migrated = hist.migrated
        /\ hist'.touched = hist.touched /\ hist'.refreshed = hist.refreshed
    BY <1>1, <2>1
  <2>3. ~(\E v \in Value, k \in FlagKeys \cup {None} : Run(v, k))
    BY <1>2 DEF stop, Run, At
  <2> QED
    BY <2>1, <2>2, <2>3
<1>3. ASSUME NEW v \in Value, NEW k \in FlagKeys \cup {None}, Run(v, k)
      PROVE  /\ hist'.migrated = hist.migrated /\ hist'.touched = hist.touched
             /\ ~hist'.refreshed => ~hist.refreshed
             /\ ~hist'.disturbed => ~hist.disturbed
             /\ ~hist'.torn => ~hist.torn
             /\ ~hist'.disturbed => flag' # Bad \/ kind # "proxy"
             /\ ~stop
  <2>1. PICK d \in BOOLEAN :
          /\ hist' = [hist EXCEPT !.disturbed = d]
          /\ d = (hist.disturbed \/ (v = Bad /\ kind = "proxy"))
    BY <1>1, <1>3 DEF Run
  <2>2. hist'.disturbed = d /\ hist'.torn = hist.torn /\ hist'.migrated = hist.migrated
        /\ hist'.touched = hist.touched /\ hist'.refreshed = hist.refreshed
    BY <1>1, <2>1
  <2>3. flag' = v /\ ~stop
    BY <1>3 DEF Run, stop, At
  <2> QED
    BY <2>1, <2>2, <2>3
<1> QED
  BY <1>2, <1>3

\* Until the migration is marked, the row it added is there; without it nothing has happened.
LegacyInv ==
    /\ hist.migrated \in {0, 1}
    /\ hist.migrated = 0 /\ legacy \in Values => pool = {} /\ ~kv.done /\ pc \in {"down", "legacy"}
    /\ hist.migrated = 1 /\ ~kv.done => pc \in {"down", "legacy", "mark"} /\ Has(pool, legacy)

LEMMA LegacyStep == ASSUME IInv, ~KvMayFail, LegacyInv, [Next]_vars PROVE LegacyInv'
<1>1. CASE UNCHANGED vars
  BY <1>1 DEF vars, LegacyInv, Has, Is
<1>2. CASE legacyDecide
  <2>1. CASE UNCHANGED <<pool, hist>> /\ pc' = "sync" /\ (kv.done \/ legacy = Bad)
    <3>1. hist.migrated = 1 /\ ~kv.done => legacy \in Values
      BY DEF LegacyInv, Has, Is, IInv, TypeOK, Row
    <3> QED
      BY <1>2, <2>1, <3>1, LegacyDecides, BootBounds DEF LegacyInv
  <2>2. CASE UNCHANGED <<pool, hist>> /\ pc' = "mark" /\ (legacy = None \/ Has(pool, legacy))
    BY <1>2, <2>2, LegacyDecides, BootBounds DEF LegacyInv, Has, Is
  <2>3. CASE /\ pc' = "mark" /\ ~kv.done /\ legacy \in Values /\ ~Has(pool, legacy)
             /\ hist' = [hist EXCEPT !.migrated = @ + 1]
             /\ \E row : NewRow(row) /\ row.val = legacy /\ pool' = pool \cup {row}
    <3>1. hist.migrated = 0
      BY <2>3 DEF LegacyInv
    <3>2. hist'.migrated = 1
      BY <2>3, <3>1 DEF IInv, TypeOK
    <3>3. Has(pool', legacy')
      BY <1>2, <2>3, LegacyDecides DEF Has, Is, NewRow
    <3> QED
      BY <1>2, <2>3, <3>2, <3>3, LegacyDecides DEF LegacyInv, Has
  <2> QED
    BY <1>2, <2>1, <2>2, <2>3, LegacyDecides
<1>3. CASE legacyMark
  BY <1>3, Notes DEF LegacyInv
<1>4. CASE noteVal \/ noteID
  <2>1. kv'.done = kv.done
    BY <1>4, Notes DEF IInv, TypeOK
  <2> QED
    BY <1>4, <2>1, Notes DEF LegacyInv
<1>5. CASE syncRead \/ drop \/ enter
  BY <1>5, SyncReads, Drops, Enters DEF LegacyInv
<1>6. CASE initAPIKey \/ storeAPIKey \/ \E k \in Keys : writeAPIKey(k)
  BY <1>6, Elsewhere DEF LegacyInv, Has, Is
<1>7. CASE \E v \in Values : panelAdd(v)
  BY <1>7, Elsewhere DEF LegacyInv
<1>8. CASE \E r \in pool : panelDelete(r) \/ refresh(r) \/ \E v \in Values \ {r.val} : panelEdit(r, v)
  BY <1>8, PanelChanges DEF LegacyInv, IInv
<1>9. CASE stop \/ \E v \in Value, k \in FlagKeys \cup {None} : Run(v, k)
  BY <1>9, Elsewhere, ProcessHistory DEF LegacyInv, Has, Is
<1> QED
  BY <1>1, <1>2, <1>3, <1>4, <1>5, <1>6, <1>7, <1>8, <1>9 DEF Next, BootStep

\* The older version's value is migrated once, even if the boot ends between the
\* adoption and the mark, and never marked as migrated without it (proxy.go:114-122).
THEOREM MigratedOnce == ASSUME ~KvMayFail PROVE Spec => []LegacyOnce
<1>1. Init => LegacyInv
  BY DEF Init, LegacyInv
<1>2. IInv /\ LegacyInv /\ [Next]_vars => LegacyInv'
  BY LegacyStep
<1>3. LegacyInv => LegacyOnce
  BY DEF LegacyInv, LegacyOnce
<1> QED
  BY Invariant, <1>1, <1>2, <1>3, PTL DEF Spec

\* The row with the noted id was created by seeding with the noted value, but for the
\* moment between the two notes.
NoteInv ==
    /\ kv.id < nextID /\ loc.id < nextID /\ \A r \in pool : r.id # 0
    /\ ~hist.torn /\ pc # "id" => \A r \in pool : r.id = kv.id => r.by = "seed" /\ r.first = kv.val
    /\ pc \in {"val", "id"} => \A r \in pool : r.id = loc.id => r.by = "seed" /\ r.first = flag
    /\ pc = "id" => kv.val = flag
    /\ pc = "drop" => loc.prev = kv.val
    /\ pc \in {"drop", "enter"} => loc.id = 0

\* A new row's id is in no note.
LEMMA NoteOfNewRow ==
    ASSUME IInv, NoteInv, NEW row, NewRow(row)
    PROVE  row.id # kv.id /\ row.id # loc.id /\ row.id # 0
  BY DEF NoteInv, NewRow, IInv, TypeOK

LEMMA NoteStep == ASSUME IInv, ~KvMayFail, NoteInv, [Next]_vars PROVE NoteInv'
<1>0. nextID \in Nat /\ kv.id \in Nat /\ loc.id \in Nat /\ nextID # 0
  BY DEF IInv, TypeOK
<1>1. CASE UNCHANGED vars
  BY <1>1 DEF vars, NoteInv
<1>2. CASE legacyDecide
  <2>1. hist'.torn = hist.torn
    BY <1>2, LegacyDecides DEF IInv, TypeOK
  <2> QED
    BY <1>0, <1>2, <2>1, LegacyDecides, NoteOfNewRow DEF NoteInv
<1>3. CASE legacyMark
  <2>1. kv'.id = kv.id /\ kv'.val = kv.val
    BY <1>3, Notes DEF IInv, TypeOK
  <2> QED
    BY <1>3, <2>1, Notes DEF NoteInv
<1>4. CASE syncRead
  BY <1>0, <1>4, SyncReads DEF NoteInv
<1>5. CASE drop
  BY <1>5, Drops DEF NoteInv
<1>6. CASE enter
  <2>1. CASE pool' = pool /\ UNCHANGED <<nextID, loc>>
    BY <1>6, <2>1, Enters DEF NoteInv
  <2>2. CASE /\ pc' = "val" /\ nextID' = nextID + 1 /\ loc' = [loc EXCEPT !.id = nextID]
             /\ \E row : /\ NewRow(row) /\ row.val = flag /\ row.by = "seed"
                         /\ pool' = pool \cup {row}
    <3>1. loc'.id = nextID
      BY <2>2 DEF IInv, TypeOK
    <3>2. \A r \in pool : r.id # nextID
      BY <1>0 DEF IInv, TypeOK, Row
    <3> QED
      BY <1>0, <1>6, <2>2, <3>1, <3>2, Enters, NoteOfNewRow DEF NoteInv, NewRow
  <2> QED
    BY <1>6, <2>1, <2>2, Enters
<1>7. CASE noteVal
  <2>1. kv'.id = kv.id /\ kv'.val = flag
    BY <1>7, Notes DEF IInv, TypeOK, Value
  <2> QED
    BY <1>7, <2>1, Notes DEF NoteInv
<1>8. CASE noteID
  <2>1. kv'.id = loc.id /\ kv'.val = kv.val
    BY <1>8, Notes DEF IInv, TypeOK
  <2> QED
    BY <1>8, <2>1, Notes DEF NoteInv
<1>9. CASE initAPIKey \/ storeAPIKey \/ \E k \in Keys : writeAPIKey(k)
  BY <1>9, Elsewhere DEF NoteInv
<1>10. CASE \E v \in Values : panelAdd(v)
  BY <1>0, <1>10, Elsewhere, NoteOfNewRow DEF NoteInv
<1>11. CASE \E r \in pool : panelDelete(r) \/ refresh(r) \/ \E v \in Values \ {r.val} : panelEdit(r, v)
  BY <1>11, PanelChanges DEF NoteInv, IInv
<1>12. CASE stop
  <2>1. loc'.id = 0
    BY <1>12, Elsewhere
  <2> QED
    BY <1>0, <1>12, <2>1, Elsewhere, ProcessHistory DEF NoteInv
<1>13. CASE \E v \in Value, k \in FlagKeys \cup {None} : Run(v, k)
  BY <1>13, Elsewhere, ProcessHistory DEF NoteInv
<1> QED
  BY <1>1, <1>2, <1>3, <1>4, <1>5, <1>6, <1>7, <1>8, <1>9, <1>10, <1>11, <1>12, <1>13 DEF Next, BootStep

LEMMA NoteInit == ASSUME Init PROVE NoteInv
  BY DEF Init, NoteInv

\* No boot deletes a row that was added in the panel or has another value since,
\* unless one ended between the two notes (proxy.go:194-196).
THEOREM PanelIsRespected == ASSUME ~KvMayFail PROVE Spec => PanelRespected
<1>1. Init => NoteInv
  BY NoteInit
<1>2. IInv /\ NoteInv /\ [Next]_vars => NoteInv'
  BY NoteStep
<1>3. ASSUME IInv, NoteInv, [Next]_vars, pc # "up", ~hist.torn, NEW r \in pool \ pool'
      PROVE  r.by # "panel" /\ r.val = r.first
  <2>1. CASE drop
    BY <1>3, <2>1, Drops DEF NoteInv, Own, Is
  <2>2. CASE UNCHANGED vars \/ legacyDecide \/ legacyMark \/ syncRead \/ enter \/ noteVal \/ noteID
    BY <1>3, <2>2, LegacyDecides, SyncReads, Enters, Notes DEF vars
  <2>3. CASE \/ initAPIKey \/ storeAPIKey \/ stop
             \/ \E v \in Value, k \in FlagKeys \cup {None} : Run(v, k)
             \/ \E k \in Keys : writeAPIKey(k)
             \/ \E v \in Values : panelAdd(v)
    BY <1>3, <2>3, Elsewhere
  <2>4. CASE \E q \in pool : panelDelete(q) \/ refresh(q) \/ \E v \in Values \ {q.val} : panelEdit(q, v)
    BY <1>3, <2>4, PanelChanges DEF IInv
  <2> QED
    BY <1>3, <2>1, <2>2, <2>3, <2>4 DEF Next, BootStep
<1>4. IInv /\ NoteInv /\ [Next]_vars =>
        [pc # "up" /\ ~hist.torn => \A r \in pool \ pool' : r.by # "panel" /\ r.val = r.first]_vars
  BY <1>3
<1> QED
  BY Invariant, <1>1, <1>2, <1>4, PTL DEF Spec, PanelRespected

-----------------------------------------------------------------------------
(* The startup parameter is followed *)

\* The rows seeding created that nobody has touched.
Seeded(r) == r.by = "seed" /\ r.val = r.first /\ r.val \notin hist.touched

\* The pool has the value, unless the panel took it.
There(value) == value \in Values => value \in hist.touched \/ \E r \in pool : r.val = value

\* What is left of the seeding is the row in the note, or it is about to be.
Follows ==
    /\ \A r \in pool : ~r.refreshed /\ (r.val # r.first => r.first \in hist.touched)
    /\ pc \notin {"enter", "val", "id"} => \A r \in pool : Seeded(r) => r.id = kv.id /\ r.val = kv.val
    /\ pc \notin {"drop", "enter", "val", "id"} => There(kv.val)
    /\ pc = "enter" => \A r \in pool : ~Seeded(r)
    /\ pc \in {"val", "id"} => There(flag) /\ \A r \in pool : Seeded(r) => r.id = loc.id /\ r.val = flag
    /\ pc \in {"key", "up"} /\ flag # Bad => kv.val = flag
    /\ pc # "down" /\ kind = "proxy" => flag # Bad
    /\ pc \in {"drop", "enter"} => flag # Bad

FollowInv == ~hist.disturbed /\ ~hist.refreshed => Follows

LEMMA FollowStep == ASSUME IInv, ~KvMayFail, NoteInv, FollowInv, [Next]_vars PROVE FollowInv'
<1>0. SUFFICES ASSUME ~hist'.disturbed, ~hist'.refreshed PROVE Follows'
  BY DEF FollowInv
<1>1. CASE UNCHANGED vars
  BY <1>0, <1>1 DEF vars, FollowInv, Follows, Seeded, There
<1>2. CASE legacyDecide
  <2>1. hist'.touched = hist.touched /\ hist'.disturbed = hist.disturbed /\ hist'.refreshed = hist.refreshed
    BY <1>2, LegacyDecides DEF IInv, TypeOK
  <2>2. pool' = pool \/ \E row : NewRow(row) /\ row.by = "legacy" /\ pool' = pool \cup {row}
    BY <1>2, LegacyDecides
  <2> QED
    BY <1>0, <1>2, <2>1, <2>2, LegacyDecides DEF FollowInv, Follows, Seeded, There, NewRow
<1>3. CASE legacyMark
  <2>1. kv'.id = kv.id /\ kv'.val = kv.val
    BY <1>3, Notes DEF IInv, TypeOK
  <2> QED
    BY <1>0, <1>3, <2>1, Notes DEF FollowInv, Follows, Seeded, There
<1>4. CASE syncRead
  <2>1. kind \in {"proxy", "cookie"}
    BY DEF IInv, TypeOK
  <2> QED
    BY <1>0, <1>4, <2>1, SyncReads DEF FollowInv, Follows, Seeded, There
<1>5. CASE drop
  <2>1. ASSUME NEW r \in pool, Seeded(r) PROVE Own(r, kv.id, loc.prev)
    <3>1. r.val \in Values /\ r.val # None
      BY BootBounds DEF IInv, TypeOK, Row
    <3> QED
      BY <1>0, <1>5, <2>1, <3>1, Drops DEF FollowInv, Follows, NoteInv, Own, Is
  <2> QED
    BY <1>0, <1>5, <2>1, Drops DEF FollowInv, Follows, Seeded, There
<1>6. CASE enter
  <2>1. Follows /\ pc = "enter" /\ flag # Bad /\ UNCHANGED <<hist, kind, kv, flag>>
    BY <1>0, <1>6, Enters DEF FollowInv, Follows
  <2>2. CASE UNCHANGED pool /\ (flag = None \/ Has(pool, flag)) /\ pc' = "val"
    BY <2>1, <2>2, BootBounds DEF Follows, Seeded, There, Has, Is
  <2>3. CASE /\ pc' = "val" /\ loc' = [loc EXCEPT !.id = nextID]
             /\ \E row : /\ NewRow(row) /\ row.val = flag /\ row.by = "seed"
                         /\ pool' = pool \cup {row}
    <3>1. loc'.id = nextID
      BY <2>3 DEF IInv, TypeOK
    <3> QED
      BY <2>1, <2>3, <3>1 DEF Follows, Seeded, There, NewRow
  <2> QED
    BY <1>6, <2>1, <2>2, <2>3, Enters
<1>7. CASE noteVal
  BY <1>0, <1>7, Notes DEF FollowInv, Follows, Seeded, There
<1>8. CASE noteID
  <2>1. kv'.id = loc.id /\ kv'.val = kv.val /\ kv.val = flag
    BY <1>8, Notes DEF IInv, TypeOK, NoteInv
  <2> QED
    BY <1>0, <1>8, <2>1, Notes DEF FollowInv, Follows, Seeded, There
<1>9. CASE initAPIKey \/ storeAPIKey \/ \E k \in Keys : writeAPIKey(k)
  BY <1>0, <1>9, Elsewhere DEF FollowInv, Follows, Seeded, There
<1>10. CASE \E v \in Values : panelAdd(v)
  BY <1>0, <1>10, Elsewhere DEF FollowInv, Follows, Seeded, There, NewRow
<1>11. ASSUME NEW r \in pool,
              panelDelete(r) \/ refresh(r) \/ \E v \in Values \ {r.val} : panelEdit(r, v)
       PROVE  Follows'
  <2>1. Follows /\ pc = "up" /\ pc' = "up" /\ UNCHANGED <<kind, kv, flag>>
        /\ hist.touched \subseteq hist'.touched
    BY <1>0, <1>11, PanelChanges DEF FollowInv, IInv
  <2>2. CASE pool' = pool \ {r} /\ r.val \in hist'.touched
    BY <2>1, <2>2 DEF Follows, Seeded, There
  <2>3. ASSUME NEW s \in Row, pool' = (pool \ {r}) \cup {s}, s.id = r.id, s.by = r.by,
               s.first = r.first, s.val # r.val, r.val \in hist'.touched, ~s.refreshed
        PROVE  Follows'
    BY <2>1, <2>3 DEF Follows, Seeded, There
  <2>4. CASE \E s \in Row : /\ pool' = (pool \ {r}) \cup {s}
                            /\ s.id = r.id /\ s.by = r.by /\ s.first = r.first
                            /\ s.val # r.val => r.val \in hist'.touched
                            /\ s.val = r.val => hist'.refreshed
                            /\ s.refreshed => r.refreshed \/ hist'.refreshed
    BY <1>0, <2>1, <2>3, <2>4 DEF Follows
  <2> QED
    BY <1>11, <2>2, <2>4, PanelChanges DEF IInv
<1>12. CASE stop
  BY <1>0, <1>12, Elsewhere, ProcessHistory DEF FollowInv, Follows, Seeded, There
<1>13. CASE \E v \in Value, k \in FlagKeys \cup {None} : Run(v, k)
  BY <1>0, <1>13, Elsewhere, ProcessHistory DEF FollowInv, Follows, Seeded, There
<1> QED
  BY <1>1, <1>2, <1>3, <1>4, <1>5, <1>6, <1>7, <1>8, <1>9, <1>10, <1>11, <1>12, <1>13 DEF Next, BootStep

\* After a boot the pool has the startup parameter's value, and no row an earlier value
\* created, but for what the panel changed, through any sequence of values, as long as no
\* boot ends half-way, no proxy is refused and no cookie is refreshed (proxy.go:160-164,
\* cookie_pool.go:230-235).
THEOREM ParameterFollowed == ASSUME ~KvMayFail PROVE Spec => []FollowsUndisturbed
<1>1. ASSUME Init PROVE NoteInv /\ FollowInv
  BY <1>1, NoteInit, BootBounds DEF Init, FollowInv, Follows, There
<1>2. Init => NoteInv /\ FollowInv
  BY <1>1
<1>3. IInv /\ NoteInv /\ FollowInv /\ [Next]_vars => NoteInv' /\ FollowInv'
  BY NoteStep, FollowStep
<1>4. FollowInv => FollowsUndisturbed
  BY DEF FollowInv, Follows, FollowsUndisturbed, FollowsFlag, Seeded, There
<1> QED
  BY Invariant, <1>2, <1>3, <1>4, PTL DEF Spec
=============================================================================
