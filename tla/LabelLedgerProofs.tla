-------------------------- MODULE LabelLedgerProofs --------------------------
(***************************************************************************)
(* Proofs about LabelLedger, for any number of calls, processes and ticks. *)
(***************************************************************************)
EXTENDS LabelLedger, TLAPS

(***************************************************************************)
(* Every variable keeps its type (ledger.ts, api.ts create, send.ts).      *)
(***************************************************************************)
THEOREM TypeCorrect == Spec => []TypeOK
<1>1. Init => TypeOK
  BY LedgerAssumption DEF Init, TypeOK
<1>2. TypeOK /\ [Next]_vars => TypeOK'
  <2> SUFFICES ASSUME TypeOK, [Next]_vars
               PROVE  TypeOK'
    OBVIOUS
  <2> USE LedgerAssumption DEF TypeOK
  <2>1. ASSUME NEW a \in Attempts, ReadStore(a)
        PROVE  TypeOK'
    BY <2>1 DEF ReadStore, Goto, Busy
  <2>2. ASSUME NEW a \in Attempts, Plan(a)
        PROVE  TypeOK'
    <3>1. Newest(cache[Home[a]], held[a]) \in Record \union {NoRec}
      BY DEF Newest
    <3>2. Active(Newest(cache[Home[a]], held[a])) =>
            Newest(cache[Home[a]], held[a]).id \in Attempts
      BY <3>1 DEF Active, Record
    <3> QED
      BY <2>2, <3>1, <3>2 DEF Plan, Goto, End, DropLocals
  <2>3. ASSUME NEW a \in Attempts, MakeClaim(a)
        PROVE  TypeOK'
    <3>1. [state |-> "submitting", id |-> a, at |-> now] \in Record
      BY DEF Record
    <3> QED
      BY <2>3, <3>1 DEF MakeClaim, Goto, End, DropLocals, Busy
  <2>4. ASSUME NEW a \in Attempts, PersistGet(a)
        PROVE  TypeOK'
    BY <2>4 DEF PersistGet, Goto, Busy
  <2>5. ASSUME NEW a \in Attempts, PersistCheck(a)
        PROVE  TypeOK'
    BY <2>5 DEF PersistCheck, Goto, End, DropLocals, Busy, Locals
  <2>6. ASSUME NEW a \in Attempts
        PROVE  Claim(a) \in Record
    BY DEF Claim, Record
  <2>7. ASSUME NEW a \in Attempts, WriteClaim(a)
        PROVE  store' \in Record \union {NoRec} /\ waived' \subseteq Attempts
    BY <2>6, <2>7 DEF WriteClaim
  <2>8. ASSUME NEW a \in Attempts, PersistWrite(a)
        PROVE  TypeOK'
    BY <2>7, <2>8 DEF PersistWrite, Goto, DropLocals, Busy
  <2>9. ASSUME NEW a \in Attempts, PersistLost(a)
        PROVE  TypeOK'
    BY <2>9 DEF PersistLost, Rollback, Goto, End, DropLocals, Busy
  <2>10. ASSUME NEW a \in Attempts, PersistFails(a)
         PROVE  TypeOK'
    BY <2>10 DEF PersistFails, Rollback, Goto, End, DropLocals
  <2>11. ASSUME NEW a \in Attempts, PersistWritesThenFails(a)
         PROVE  TypeOK'
    BY <2>7, <2>11 DEF PersistWritesThenFails, Rollback, Goto, End, DropLocals
  <2>12. ASSUME NEW a \in Attempts,
                Dispatch(a) \/ FailsUnsent(a) \/ AbortsInBackoff(a) \/ Answered(a)
                  \/ Indeterminate(a) \/ NeweggDecides(a)
         PROVE  TypeOK'
    BY <2>12 DEF Dispatch, FailsUnsent, AbortsInBackoff, Answered, Indeterminate,
                 NeweggDecides, Goto, Busy, Locals
  <2>13. ASSUME NEW a \in Attempts, Settle(a)
         PROVE  TypeOK'
    <3>1. [state |-> IF pc[a] = "accepted" THEN "submitted" ELSE "failed",
           id |-> a, at |-> now] \in Record
      BY DEF Record
    <3> QED
      BY <2>13, <3>1 DEF Settle, Goto, Busy
  <2>14. ASSUME NEW a \in Attempts, SettlePut(a) \/ SettleFails(a)
         PROVE  TypeOK'
    BY <2>14 DEF SettlePut, SettleFails, Goto, End, DropLocals
  <2>15. ASSUME NEW p \in Procs, Crash(p)
         PROVE  TypeOK'
    BY <2>15 DEF Crash
  <2>16. ASSUME ClearGuard
         PROVE  TypeOK'
    BY <2>16 DEF ClearGuard, Locals, Record
  <2>17. ASSUME Tick
         PROVE  TypeOK'
    BY <2>17 DEF Tick, Locals
  <2>18. CASE UNCHANGED vars
    BY <2>18 DEF vars
  <2> QED
    BY <2>1, <2>2, <2>3, <2>4, <2>5, <2>8, <2>9, <2>10, <2>11, <2>12, <2>13, <2>14,
       <2>15, <2>16, <2>17, <2>18
    DEF Next, Advance, Fail
<1> QED
  BY <1>1, <1>2, PTL DEF Spec

-----------------------------------------------------------------------------
(***************************************************************************)
(* Calls only move forward: a claim keeps its time, a call that is over    *)
(* stays over, and a decided request stays decided.                        *)
(***************************************************************************)
Onward(a) ==
  pc[a] \in Busy \union {"done"} =>
    /\ pc'[a] \in Busy \union {"done"}
    /\ claimedAt'[a] = claimedAt[a]
    /\ pc[a] = "done" => pc'[a] = "done"
    /\ pc[a] = "settling" => pc'[a] \in {"settling", "done"}
    /\ pc[a] \in {"settling", "done"} /\ fate[a] \in {"unsent", "rejected"} =>
         fate'[a] = fate[a]
    /\ fate[a] = "bought" => fate'[a] = "bought"

(* A true record stays true while every call only moves onward.            *)
LEMMA GoodRecordStable ==
  ASSUME TypeOK, TypeOK', \A a \in Attempts : Onward(a),
         NEW r \in Record \union {NoRec}, GoodRecord(r)
  PROVE  GoodRecord(r)'
<1>1. CASE r = NoRec
  BY <1>1 DEF GoodRecord
<1>2. CASE r # NoRec
  <2>1. r.id \in Attempts
    BY <1>2 DEF Record
  <2> QED
    BY <1>2, <2>1 DEF GoodRecord, Onward
<1> QED
  BY <1>1, <1>2

(* No step moves a call back, or changes its claim or a purchase, once it  *)
(* has claimed (api.ts create).                                            *)
LEMMA CallsMoveOn ==
  ASSUME TypeOK, RecordsInv, [Next]_vars
  PROVE  \A c \in Attempts : Onward(c)
<1> USE LedgerAssumption DEF TypeOK, RecordsInv, FateKnown, Onward, Busy
<1>1. ASSUME NEW a \in Attempts, ReadStore(a) \/ Plan(a) \/ MakeClaim(a)
      PROVE  \A c \in Attempts : Onward(c)
  BY <1>1 DEF ReadStore, Plan, MakeClaim, Goto, End
<1>2. ASSUME NEW a \in Attempts,
             \/ PersistGet(a) \/ PersistCheck(a) \/ PersistWrite(a) \/ PersistLost(a)
             \/ PersistFails(a) \/ PersistWritesThenFails(a)
      PROVE  \A c \in Attempts : Onward(c)
  BY <1>2 DEF PersistGet, PersistCheck, PersistWrite, PersistLost, PersistFails,
              PersistWritesThenFails, WriteClaim, Rollback, Goto, End
<1>3. ASSUME NEW a \in Attempts,
             \/ Dispatch(a) \/ FailsUnsent(a) \/ AbortsInBackoff(a)
             \/ Answered(a) \/ Indeterminate(a) \/ NeweggDecides(a)
      PROVE  \A c \in Attempts : Onward(c)
  BY <1>3 DEF Dispatch, FailsUnsent, AbortsInBackoff, Answered, Indeterminate, NeweggDecides, Goto
<1>4. ASSUME NEW a \in Attempts, Settle(a) \/ SettlePut(a) \/ SettleFails(a)
      PROVE  \A c \in Attempts : Onward(c)
  BY <1>4 DEF Settle, SettlePut, SettleFails, Goto, End
<1>5. ASSUME NEW p \in Procs, Crash(p)
      PROVE  \A c \in Attempts : Onward(c)
  BY <1>5 DEF Crash
<1>6. CASE ClearGuard \/ Tick \/ UNCHANGED vars
  BY <1>6 DEF ClearGuard, Tick, vars
<1> QED
  BY <1>1, <1>2, <1>3, <1>4, <1>5, <1>6 DEF Next, Advance, Fail

(***************************************************************************)
(* RecordsInv is preserved by every step, whatever the deployment.         *)
(***************************************************************************)
LEMMA RecordsStep == TypeOK /\ TypeOK' /\ RecordsInv /\ [Next]_vars => RecordsInv'
<1> SUFFICES ASSUME TypeOK, TypeOK', RecordsInv, [Next]_vars
             PROVE  RecordsInv'
  OBVIOUS
<1> USE LedgerAssumption DEF TypeOK, RecordsInv, RecordsTrue, FateKnown, SettlesItself,
                             SettledMeansOver, ClaimedInPast, Record
<1>0. \A r \in Record \union {NoRec} : GoodRecord(r) => GoodRecord(r)'
  BY CallsMoveOn, GoodRecordStable
<1>nr. GoodRecord(NoRec)'
  BY DEF GoodRecord
<1>1. ASSUME NEW a \in Attempts, ReadStore(a) \/ PersistGet(a)
      PROVE  RecordsInv'
  <2>1. FateKnown' /\ SettlesItself' /\ SettledMeansOver' /\ ClaimedInPast'
    BY <1>1 DEF ReadStore, PersistGet, Goto
  <2>2. RecordsTrue'
    BY <1>0, <1>nr, <1>1 DEF ReadStore, PersistGet, Goto
  <2> QED
    BY <2>1, <2>2
<1>2. ASSUME NEW a \in Attempts, Plan(a)
      PROVE  RecordsInv'
  <2>1. FateKnown' /\ SettlesItself' /\ SettledMeansOver' /\ ClaimedInPast'
    BY <1>2 DEF Plan, Newest, Goto, End, DropLocals
  <2>2. RecordsTrue'
    BY <1>0, <1>nr, <1>2, SMTT(30) DEF Plan, Newest, Goto, End, DropLocals
  <2> QED
    BY <2>1, <2>2
<1>3. ASSUME NEW a \in Attempts, MakeClaim(a)
      PROVE  RecordsInv'
  <2>1. CASE Active(cache[Home[a]]) /\ cache[Home[a]].id # ack[a]
    <3>1. /\ pc' = [pc EXCEPT ![a] = "done"]
          /\ held' = [held EXCEPT ![a] = NoRec]
          /\ prev' = [prev EXCEPT ![a] = NoRec]
          /\ UNCHANGED <<now, store, cache, claimedAt, fate>>
      BY <1>3, <2>1 DEF MakeClaim, End, Goto, DropLocals
    <3>2. RecordsTrue'
      BY <1>nr, <1>0, <3>1
    <3>3. FateKnown' /\ SettlesItself' /\ SettledMeansOver' /\ ClaimedInPast'
      BY <3>1
    <3> QED
      BY <3>2, <3>3
  <2>2. CASE ~(Active(cache[Home[a]]) /\ cache[Home[a]].id # ack[a])
    <3>1. PICK new \in Record : new = [state |-> "submitting", id |-> a, at |-> now]
      BY DEF Record
    <3>2. /\ cache' = [cache EXCEPT ![Home[a]] = new]
          /\ prev' = [prev EXCEPT ![a] = cache[Home[a]]]
          /\ pc' = [pc EXCEPT ![a] = "getting"]
          /\ claimedAt' = [claimedAt EXCEPT ![a] = now]
          /\ UNCHANGED <<now, store, held, fate>>
      BY <1>3, <2>2, <3>1 DEF MakeClaim, Goto
    <3>3. GoodRecord(new)'
      BY <3>1, <3>2 DEF GoodRecord, Busy
    <3>4. RecordsTrue'
      BY <1>0, <3>2, <3>3
    <3>5. SettledMeansOver'
      BY <1>3, <3>2 DEF MakeClaim
    <3>6. FateKnown' /\ SettlesItself' /\ ClaimedInPast'
      BY <1>3, <3>2 DEF MakeClaim
    <3> QED
      BY <3>4, <3>5, <3>6
  <2> QED
    BY <2>1, <2>2
<1>4. ASSUME NEW a \in Attempts, PersistCheck(a)
      PROVE  RecordsInv'
  <2>1. FateKnown' /\ SettlesItself' /\ SettledMeansOver' /\ ClaimedInPast'
    BY <1>4 DEF PersistCheck, Goto, End, DropLocals, Locals
  <2>2. CASE UNCHANGED <<store, cache, held, prev>>
    BY <1>0, <2>1, <2>2
  <2>3. CASE /\ cache' = [cache EXCEPT ![Home[a]] = IF @ = Claim(a) THEN held[a] ELSE @]
             /\ store' = store /\ DropLocals(a)
    BY <1>0, <1>nr, <2>1, <2>3 DEF DropLocals
  <2> QED
    BY <1>4, <2>2, <2>3 DEF PersistCheck, End, Locals
<1>5. ASSUME NEW a \in Attempts, PersistWrite(a)
      PROVE  RecordsInv'
  <2>1. /\ store' = Claim(a)
        /\ store'.state = "submitting" /\ store'.id = a /\ store'.at = claimedAt[a]
    BY <1>5 DEF PersistWrite, WriteClaim, Claim
  <2>2. GoodRecord(store)'
    BY <1>5, <2>1 DEF GoodRecord, PersistWrite, WriteClaim, Goto, Busy
  <2>3. FateKnown' /\ SettlesItself' /\ SettledMeansOver' /\ ClaimedInPast'
    BY <1>5, <2>1 DEF PersistWrite, WriteClaim, Goto, DropLocals
  <2>4. RecordsTrue'
    BY <2>2, <1>5, <1>nr, <1>0 DEF PersistWrite, WriteClaim, Goto, DropLocals
  <2> QED
    BY <2>3, <2>4
<1>6. ASSUME NEW a \in Attempts, PersistWritesThenFails(a)
      PROVE  RecordsInv'
  <2>1. /\ store' = Claim(a)
        /\ store'.state = "submitting" /\ store'.id = a /\ store'.at = claimedAt[a]
    BY <1>6 DEF PersistWritesThenFails, WriteClaim, Claim
  <2>2. GoodRecord(store)'
    BY <1>6, <2>1 DEF GoodRecord, PersistWritesThenFails, WriteClaim, Rollback, Goto, End, Busy
  <2>3. FateKnown' /\ SettlesItself' /\ SettledMeansOver' /\ ClaimedInPast'
    BY <1>6, <2>1 DEF PersistWritesThenFails, WriteClaim, Rollback, Goto, End, DropLocals
  <2>4. RecordsTrue'
    BY <2>2, <1>6, <1>nr, <1>0 DEF PersistWritesThenFails, WriteClaim, Rollback, Goto, End, DropLocals
  <2> QED
    BY <2>3, <2>4
<1>7. ASSUME NEW a \in Attempts, PersistLost(a)
      PROVE  RecordsInv'
  <2>1. FateKnown' /\ SettlesItself' /\ SettledMeansOver' /\ ClaimedInPast'
    <3>1. SettledMeansOver'
      BY <1>7 DEF PersistLost, Rollback, Goto, End
    <3>2. FateKnown' /\ ClaimedInPast'
      BY <1>7 DEF PersistLost, Rollback, Goto, End
    <3>3. SettlesItself'
      BY <1>7 DEF PersistLost, Rollback, Goto, End, DropLocals
    <3> QED
      BY <3>1, <3>2, <3>3
  <2>2. RecordsTrue'
    BY <1>7, <1>nr, <1>0 DEF PersistLost, Rollback, Goto, End, DropLocals
  <2> QED
    BY <2>1, <2>2
<1>8. ASSUME NEW a \in Attempts, PersistFails(a)
      PROVE  RecordsInv'
  <2>1. FateKnown' /\ SettlesItself' /\ SettledMeansOver' /\ ClaimedInPast'
    BY <1>8 DEF PersistFails, Rollback, Goto, End, DropLocals
  <2>2. RecordsTrue'
    BY <1>0, <1>nr, <1>8 DEF PersistFails, Rollback, Goto, End, DropLocals
  <2> QED
    BY <2>1, <2>2
<1>9. ASSUME NEW a \in Attempts,
             \/ Dispatch(a) \/ FailsUnsent(a) \/ AbortsInBackoff(a)
             \/ Answered(a) \/ Indeterminate(a) \/ NeweggDecides(a)
      PROVE  RecordsInv'
  <2>1. FateKnown' /\ SettlesItself' /\ SettledMeansOver' /\ ClaimedInPast'
    BY <1>9 DEF Dispatch, FailsUnsent, AbortsInBackoff, Answered, Indeterminate,
                NeweggDecides, Goto, Locals
  <2>2. RecordsTrue'
    BY <1>0, <1>nr, <1>9 DEF Dispatch, FailsUnsent, AbortsInBackoff, Answered, Indeterminate,
                NeweggDecides, Goto, Locals
  <2> QED
    BY <2>1, <2>2
<1>10. ASSUME NEW a \in Attempts, Settle(a)
      PROVE  RecordsInv'
  <2> DEFINE mine == cache[Home[a]]
  <2>1. CASE mine # NoRec /\ mine.id = a
    <3>1. claimedAt[a] <= now
      BY DEF RecordsInv, ClaimedInPast
    <3>2. PICK op \in Record :
            op = [state |-> IF pc[a] = "accepted" THEN "submitted" ELSE "failed",
                  id |-> a, at |-> now]
      <4>1. [state |-> IF pc[a] = "accepted" THEN "submitted" ELSE "failed",
             id |-> a, at |-> now] \in Record
        BY DEF Record
      <4> QED
        BY <4>1
    <3>3. op # NoRec /\ op.id = a /\ op.at = now
          /\ op.state = IF pc[a] = "accepted" THEN "submitted" ELSE "failed"
      BY <3>2, NoRecAssumption
    <3>4. /\ cache' = [cache EXCEPT ![Home[a]] = op]
          /\ held' = [held EXCEPT ![a] = op]
          /\ pc' = [pc EXCEPT ![a] = "settling"]
          /\ UNCHANGED <<now, store, prev, fate, claimedAt>>
      BY <1>10, <2>1, <3>2 DEF Settle, Goto
    <3>5. GoodRecord(op)'
      BY <1>10, <3>1, <3>3, <3>4 DEF GoodRecord, Settle, Busy
    <3>6. RecordsTrue'
      BY <1>0, <3>4, <3>5
    <3>7. FateKnown' /\ SettlesItself' /\ SettledMeansOver' /\ ClaimedInPast'
      BY <1>10, <3>3, <3>4 DEF Settle
    <3> QED
      BY <3>6, <3>7
  <2>2. CASE ~(mine # NoRec /\ mine.id = a)
    <3>1. pc' = [pc EXCEPT ![a] = "done"] /\ UNCHANGED <<now, store, cache, held, prev, fate, claimedAt>>
      BY <1>10, <2>2 DEF Settle, Goto
    <3> QED
      BY <1>10, <1>0, <3>1 DEF Settle
  <2> QED
    BY <2>1, <2>2
<1>11. ASSUME NEW a \in Attempts, SettlePut(a) \/ SettleFails(a)
      PROVE  RecordsInv'
  <2>1. FateKnown' /\ SettlesItself' /\ SettledMeansOver' /\ ClaimedInPast'
    BY <1>11 DEF SettlePut, SettleFails, Goto, End, DropLocals
  <2>2. RecordsTrue'
    BY <1>0, <1>nr, <1>11, SMTT(30) DEF SettlePut, SettleFails, Goto, End, DropLocals
  <2> QED
    BY <2>1, <2>2
<1>12. ASSUME NEW p \in Procs, Crash(p)
      PROVE  RecordsInv'
  <2>1. FateKnown' /\ SettlesItself' /\ SettledMeansOver' /\ ClaimedInPast'
    BY <1>12 DEF Crash
  <2>2. RecordsTrue'
    BY <1>0, <1>nr, <1>12 DEF Crash
  <2> QED
    BY <2>1, <2>2
<1>13. ASSUME ClearGuard \/ Tick \/ UNCHANGED vars
      PROVE  RecordsInv'
  <2>1. FateKnown' /\ SettlesItself' /\ SettledMeansOver' /\ ClaimedInPast'
    BY <1>13 DEF ClearGuard, Tick, vars, Locals
  <2>2. RecordsTrue'
    BY <1>0, <1>nr, <1>13 DEF ClearGuard, Tick, vars, Locals
  <2> QED
    BY <2>1, <2>2
<1> QED
  BY <1>1, <1>2, <1>3, <1>4, <1>5, <1>6, <1>7, <1>8, <1>9, <1>10, <1>11, <1>12, <1>13
  DEF Next, Advance, Fail

-----------------------------------------------------------------------------
(***************************************************************************)
(* Every record, wherever it is, tells the truth, in every deployment:     *)
(* `failed` means that nothing was bought and nothing can be any more.     *)
(***************************************************************************)
THEOREM RecordsInvariant == Spec => []RecordsInv
<1>1. Init => RecordsInv
  BY LedgerAssumption
  DEF Init, RecordsInv, RecordsTrue, GoodRecord, FateKnown, SettlesItself, SettledMeansOver,
      ClaimedInPast
<1> QED
  BY <1>1, RecordsStep, TypeCorrect, PTL DEF Spec

(* `failed` and `submitted` in the store or a cache tell the truth about   *)
(* the attempt they name (ledger.ts header, isDefinitelyNotBought).        *)
THEOREM OutcomesAreTrue == Spec => []RecordedOutcomeIsTrue
<1>1. RecordsInv => RecordedOutcomeIsTrue
  BY DEF RecordsInv, RecordsTrue, GoodRecord, RecordedOutcomeIsTrue, OutcomeTrue, MayHaveBought
<1> QED
  BY <1>1, RecordsInvariant, PTL

(***************************************************************************)
(* A settled record is never judged again (ledger.ts settle, persist).     *)
(***************************************************************************)
THEOREM SettledStaysSettled == Spec => SettledIsFinal
<1> DEFINE Final ==
      store # NoRec /\ store' # NoRec /\ store'.id = store.id /\ store.state # "submitting"
        => store'.state = store.state
<1>1. TypeOK /\ RecordsInv /\ [Next]_vars => [Final]_store
  <2> SUFFICES ASSUME TypeOK, RecordsInv, [Next]_vars,
                      store # NoRec, store' # NoRec, store'.id = store.id,
                      store.state # "submitting", store' # store
               PROVE  FALSE
    OBVIOUS
  <2>1. pc[store.id] = "done"
    BY DEF RecordsInv, SettledMeansOver
  <2>2. PICK a \in Attempts : WriteClaim(a) \/ SettlePut(a)
    BY DEF Next, Advance, Fail, vars, ReadStore, Plan, MakeClaim, PersistGet, PersistCheck,
           PersistWrite, PersistLost, PersistFails, PersistWritesThenFails, Dispatch, FailsUnsent,
           AbortsInBackoff, Answered, Indeterminate, NeweggDecides, Settle, SettleFails, Crash,
           ClearGuard, Tick
  <2>3. store'.id = a
    BY <2>2 DEF WriteClaim, Claim, SettlePut, RecordsInv, SettlesItself
  <2> QED
    BY <2>1, <2>2, <2>3 DEF WriteClaim, SettlePut
<1> QED
  BY <1>1, RecordsInvariant, TypeCorrect, PTL DEF Spec, SettledIsFinal

-----------------------------------------------------------------------------
(***************************************************************************)
(* What a call counts for: its claim is recorded or its request may have   *)
(* bought a label, and nobody dismissed it.                                *)
(***************************************************************************)
Counts(a) == (pc[a] \in Recorded \/ MayHaveBought(a)) /\ ~Excused(a)

(***************************************************************************)
(* Where a call stands changes only by its own steps and by a crash, which *)
(* ends it; the clock only by Tick.                                        *)
(***************************************************************************)
LEMMA WhoMoves ==
  ASSUME TypeOK, [Next]_vars, NEW c \in Attempts
  PROVE  /\ now' = now \/ Tick
         /\ \/ pc'[c] = pc[c] /\ held'[c] = held[c] /\ ack'[c] = ack[c]
            \/ pc'[c] = "done"
            \/ ReadStore(c) \/ Advance(c) \/ Fail(c)
<1> USE LedgerAssumption DEF TypeOK
<1>1. ASSUME NEW a \in Attempts, ReadStore(a) \/ Advance(a) \/ Fail(a), a # c
      PROVE  now' = now /\ pc'[c] = pc[c] /\ held'[c] = held[c] /\ ack'[c] = ack[c]
  <2>1. CASE ReadStore(a) \/ Plan(a) \/ MakeClaim(a)
    BY <1>1, <2>1 DEF ReadStore, Plan, MakeClaim, Goto, End, DropLocals
  <2>2. CASE \/ PersistGet(a) \/ PersistCheck(a) \/ PersistWrite(a) \/ PersistLost(a)
             \/ PersistFails(a) \/ PersistWritesThenFails(a)
    BY <1>1, <2>2 DEF PersistGet, PersistCheck, PersistWrite, PersistLost, PersistFails,
                      PersistWritesThenFails, WriteClaim, Rollback, Goto, End, DropLocals, Locals
  <2>3. CASE \/ Dispatch(a) \/ FailsUnsent(a) \/ AbortsInBackoff(a)
             \/ Answered(a) \/ Indeterminate(a)
    BY <1>1, <2>3 DEF Dispatch, FailsUnsent, AbortsInBackoff, Answered, Indeterminate, Goto, Locals
  <2>4. CASE Settle(a) \/ SettlePut(a) \/ SettleFails(a)
    BY <1>1, <2>4 DEF Settle, SettlePut, SettleFails, Goto, End, DropLocals
  <2> QED
    BY <1>1, <2>1, <2>2, <2>3, <2>4 DEF Advance, Fail
<1>2. ASSUME NEW a \in Attempts, ReadStore(a) \/ Advance(a) \/ Fail(a)
      PROVE  now' = now
  BY <1>2 DEF Advance, Fail, ReadStore, Plan, MakeClaim, PersistGet, PersistCheck, PersistWrite,
         PersistLost, PersistFails, PersistWritesThenFails, WriteClaim, Rollback, Dispatch,
         FailsUnsent, AbortsInBackoff, Answered, Indeterminate, Settle, SettlePut,
         SettleFails, Goto, End, DropLocals, Locals
<1>3. ASSUME NEW p \in Procs, Crash(p)
      PROVE  now' = now /\ (pc'[c] = "done"
               \/ (pc'[c] = pc[c] /\ held'[c] = held[c] /\ ack'[c] = ack[c]))
  BY <1>3 DEF Crash
<1>4. CASE ClearGuard \/ Tick \/ UNCHANGED vars \/ \E a \in Attempts : NeweggDecides(a)
  BY <1>4 DEF ClearGuard, Tick, vars, NeweggDecides, Locals
<1> QED
  BY <1>1, <1>2, <1>3, <1>4 DEF Next

(***************************************************************************)
(* Only the writes of a claim, of an outcome and of the operator change    *)
(* the store, and nothing else makes a call count.                         *)
(***************************************************************************)
WritesClaim(a) == PersistWrite(a) \/ PersistWritesThenFails(a)

(* Other than a claim, a settlement and the operator, no step writes the   *)
(* store, and none makes an attempt count anew (ledger.ts).                *)
LEMMA OtherSteps ==
  ASSUME SafeDeployment, TypeOK, TypeOK', RecordsInv, [Next]_vars,
         ~ClearGuard, \A a \in Attempts : ~WritesClaim(a) /\ ~SettlePut(a)
  PROVE  store' = store /\ \A c \in Attempts : Counts(c)' => Counts(c)
<1> USE LedgerAssumption DEF TypeOK, SafeDeployment, RecordsInv, FateKnown
<1>0. \A a \in Attempts : ~PersistWrite(a) /\ ~PersistWritesThenFails(a) /\ ~SettlePut(a)
  BY DEF WritesClaim
<1>1. store' = store
  <2>1. ASSUME NEW a \in Attempts, \/ ReadStore(a) \/ NeweggDecides(a) \/ Advance(a) \/ Fail(a)
        PROVE  store' = store
    BY <1>0, <2>1
    DEF Advance, Fail, ReadStore, Plan, MakeClaim, PersistGet, PersistCheck, PersistLost,
        PersistFails, Dispatch, FailsUnsent, AbortsInBackoff, Answered, Indeterminate,
        NeweggDecides, Settle, SettleFails
  <2> QED
    BY <2>1 DEF Next, Crash, Tick, vars
<1>2. now <= now'
  <2>1. CASE \E c \in Attempts : TRUE
    BY <2>1, WhoMoves DEF Tick
  <2>2. CASE ~\E c \in Attempts : TRUE
    BY <2>2 DEF Next, Crash, ClearGuard, Tick, vars
  <2> QED
    BY <2>1, <2>2
<1>4. waived' = waived
  <2>1. ASSUME NEW a \in Attempts, \/ ReadStore(a) \/ NeweggDecides(a) \/ Advance(a) \/ Fail(a)
        PROVE  waived' = waived
    BY <1>0, <2>1
    DEF Advance, Fail, ReadStore, Plan, MakeClaim, PersistGet, PersistCheck, PersistLost,
        PersistFails,
        Dispatch, FailsUnsent, AbortsInBackoff, Answered, Indeterminate, NeweggDecides, Settle,
        SettleFails
  <2> QED
    BY <2>1 DEF Next, Crash, Tick, vars
<1>3. ASSUME NEW c \in Attempts
      PROVE  pc'[c] \in Recorded \/ MayHaveBought(c)' =>
               (pc[c] \in Recorded \/ MayHaveBought(c)) /\ claimedAt'[c] = claimedAt[c]
  <2>1. ASSUME NEW a \in Attempts, ReadStore(a) \/ Plan(a) \/ MakeClaim(a)
        PROVE  pc'[c] \in Recorded \/ MayHaveBought(c)' =>
               (pc[c] \in Recorded \/ MayHaveBought(c)) /\ claimedAt'[c] = claimedAt[c]
    BY <2>1 DEF Recorded, MayHaveBought, ReadStore, Plan, MakeClaim, Goto, End
  <2>2. ASSUME NEW a \in Attempts, PersistGet(a) \/ PersistCheck(a) \/ PersistLost(a) \/ PersistFails(a)
        PROVE  pc'[c] \in Recorded \/ MayHaveBought(c)' =>
               (pc[c] \in Recorded \/ MayHaveBought(c)) /\ claimedAt'[c] = claimedAt[c]
    BY <2>2 DEF Recorded, MayHaveBought, PersistGet, PersistCheck, PersistLost, PersistFails,
                Rollback, Goto, End
  <2>3. ASSUME NEW a \in Attempts, Dispatch(a) \/ FailsUnsent(a) \/ AbortsInBackoff(a)
                  \/ Answered(a) \/ Indeterminate(a) \/ NeweggDecides(a)
        PROVE  pc'[c] \in Recorded \/ MayHaveBought(c)' =>
               (pc[c] \in Recorded \/ MayHaveBought(c)) /\ claimedAt'[c] = claimedAt[c]
    BY <2>3 DEF Recorded, MayHaveBought, Dispatch, FailsUnsent, AbortsInBackoff, Answered,
                Indeterminate, NeweggDecides, Goto
  <2>4. ASSUME NEW a \in Attempts, Settle(a) \/ SettleFails(a)
        PROVE  pc'[c] \in Recorded \/ MayHaveBought(c)' =>
               (pc[c] \in Recorded \/ MayHaveBought(c)) /\ claimedAt'[c] = claimedAt[c]
    BY <2>4 DEF Recorded, MayHaveBought, Settle, SettleFails, Goto, End
  <2>5. ASSUME NEW p \in Procs, Crash(p)
        PROVE  pc'[c] \in Recorded \/ MayHaveBought(c)' =>
               (pc[c] \in Recorded \/ MayHaveBought(c)) /\ claimedAt'[c] = claimedAt[c]
    BY <2>5 DEF Recorded, MayHaveBought, Crash
  <2>6. CASE Tick \/ UNCHANGED vars
    BY <2>6 DEF Recorded, MayHaveBought, Tick, vars
  <2> QED
    BY <1>0, <2>1, <2>2, <2>3, <2>4, <2>5, <2>6 DEF Next, Advance, Fail
<1> QED
  BY <1>1, <1>2, <1>3, <1>4 DEF Counts, Excused

(* Every step of a safe deployment preserves PurchaseInv: what a claim     *)
(* replaces no longer counts (persist).                                    *)
LEMMA PurchaseStep ==
  ASSUME SafeDeployment, TypeOK, TypeOK', RecordsInv, RecordsInv', PurchaseInv, [Next]_vars
  PROVE  PurchaseInv'
<1> USE LedgerAssumption DEF TypeOK, SafeDeployment
<1>0. \A c \in Attempts : Onward(c)
  BY CallsMoveOn
<1>1. DismissedAreOver'
  <2>1. \A c \in Attempts : pc[c] = "done" => pc'[c] = "done"
    BY <1>0 DEF Onward
  <2>2. ASSUME NEW a \in Attempts, Plan(a)
        PROVE  DismissedAreOver'
    <3> DEFINE newest == Newest(cache[Home[a]], held[a])
    <3>1. GoodRecord(newest) /\ newest \in Record \union {NoRec}
      BY DEF Newest, RecordsInv, RecordsTrue
    <3>2. Active(newest) /\ CanDismiss(newest.id) => newest.id \in Attempts /\ pc[newest.id] = "done"
      BY <3>1 DEF Active, CanDismiss, InProgress, GoodRecord, Record
    <3> HIDE DEF newest
    <3>3. ack'[a] # NoAck => ack'[a] \in Attempts /\ pc[ack'[a]] = "done"
      BY <2>2, <3>2 DEF Plan, End, DropLocals, newest
    <3>4. waived' = waived /\ \A c \in Attempts \ {a} : ack'[c] = ack[c]
      BY <2>2 DEF Plan, End, DropLocals
    <3> QED
      BY <2>1, <3>3, <3>4 DEF PurchaseInv, DismissedAreOver
  <2>3. ASSUME NEW a \in Attempts, WriteClaim(a), DropLocals(a)
        PROVE  DismissedAreOver'
    BY <2>1, <2>3 DEF PurchaseInv, DismissedAreOver, WriteClaim, DropLocals
  <2>4. CASE ClearGuard
    BY <2>1, <2>4 DEF PurchaseInv, DismissedAreOver, ClearGuard, CanDismiss, InProgress,
                      RecordsInv, RecordsTrue, GoodRecord, Locals
  <2>5. ASSUME waived' = waived, \A c \in Attempts : ack'[c] \in {ack[c], NoAck}
        PROVE  DismissedAreOver'
    BY <2>1, <2>5 DEF PurchaseInv, DismissedAreOver
  <2>6. ASSUME NEW a \in Attempts,
               \/ ReadStore(a) \/ MakeClaim(a) \/ PersistGet(a) \/ PersistCheck(a)
               \/ PersistLost(a) \/ PersistFails(a)
               \/ Dispatch(a) \/ FailsUnsent(a) \/ AbortsInBackoff(a) \/ NeweggDecides(a)
               \/ Answered(a) \/ Indeterminate(a) \/ Settle(a) \/ SettlePut(a) \/ SettleFails(a)
        PROVE  DismissedAreOver'
    BY <2>5, <2>6
    DEF ReadStore, MakeClaim, PersistGet, PersistCheck, PersistLost, PersistFails, Rollback,
        Dispatch, FailsUnsent, AbortsInBackoff, NeweggDecides, Answered, Indeterminate,
        Settle, SettlePut, SettleFails, End, DropLocals, Locals
  <2>7. ASSUME NEW p \in Procs, Crash(p)
        PROVE  DismissedAreOver'
    BY <2>5, <2>7 DEF Crash
  <2>8. CASE Tick \/ UNCHANGED vars
    BY <2>5, <2>8 DEF Tick, Locals, vars
  <2> QED
    BY <2>2, <2>3, <2>4, <2>6, <2>7, <2>8
    DEF Next, Advance, Fail, PersistWrite, PersistWritesThenFails, Rollback, End
<1>2. RunningStillCounts'
  <2>1. ASSUME NEW c \in Attempts, InProgress(c)', InProgress(c), now' = now
        PROVE  now' - claimedAt'[c] <= TTL
    BY <1>0, <2>1 DEF Onward, PurchaseInv, RunningStillCounts, InProgress
  <2>2. ASSUME NEW c \in Attempts, InProgress(c)', ~InProgress(c)
        PROVE  now' - claimedAt'[c] <= TTL
    <3>1. MakeClaim(c)
      BY <2>2, WhoMoves
      DEF InProgress, Busy, Advance, Fail, ReadStore, Plan, PersistGet, PersistCheck,
          PersistWrite, PersistLost, PersistFails, PersistWritesThenFails, WriteClaim, Dispatch,
          FailsUnsent, AbortsInBackoff, Answered, Indeterminate, Settle, SettlePut, SettleFails,
          Goto, End
    <3> QED
      BY <2>2, <3>1 DEF MakeClaim, InProgress, Busy, Goto, End
  <2>3. CASE Tick
    BY <2>3 DEF Tick, RunningStillCounts, InProgress
  <2>4. ASSUME NEW c \in Attempts
        PROVE  now' = now \/ Tick
    BY WhoMoves
  <2> QED
    BY <2>1, <2>2, <2>3, <2>4 DEF RunningStillCounts
<1>3. CheckedBeforeWrite'
  <2>1. ASSUME NEW a \in Attempts, pc[a] = "writing", pc'[a] = "writing"
        PROVE  held'[a] = held[a] /\ ack'[a] = ack[a]
    BY <2>1, WhoMoves
    DEF Advance, Fail, ReadStore, Plan, MakeClaim, PersistGet, PersistCheck, PersistWrite,
        PersistLost, PersistFails, PersistWritesThenFails, Rollback, Dispatch, FailsUnsent,
        AbortsInBackoff, Answered, Indeterminate, Settle, SettlePut, SettleFails, Goto, End
  <2>2. ASSUME NEW a \in Attempts, pc[a] # "writing", pc'[a] = "writing"
        PROVE  PersistCheck(a)
    BY <2>2, WhoMoves
    DEF Advance, Fail, ReadStore, Plan, MakeClaim, PersistGet, PersistWrite,
        PersistLost, PersistFails, PersistWritesThenFails, Rollback, Dispatch, FailsUnsent,
        AbortsInBackoff, Answered, Indeterminate, Settle, SettlePut, SettleFails, Goto, End
  <2>3. ASSUME NEW a \in Attempts
        PROVE  now <= now'
    BY WhoMoves DEF Tick
  <2>4. ASSUME NEW a \in Attempts, pc'[a] = "writing", Active(held[a])'
        PROVE  held'[a].id = ack'[a]
    <3>1. CASE pc[a] = "writing"
      BY <2>1, <2>3, <2>4, <3>1 DEF Active, PurchaseInv, CheckedBeforeWrite, Record
    <3>2. CASE pc[a] # "writing"
      BY <2>2, <2>4, <3>2 DEF PersistCheck, Active, Goto, End, Locals
    <3> QED
      BY <3>1, <3>2
  <2> QED
    BY <2>4 DEF CheckedBeforeWrite
<1>4. OneHolder'
  <2>1. ASSUME NEW c \in Attempts, Counts(c)
        PROVE  HoldsStore(c)
    BY <2>1 DEF Counts, PurchaseInv, OneHolder
  <2>2. ASSUME NEW a \in Attempts, WriteClaim(a), now' = now,
               claimedAt' = claimedAt, fate' = fate,
               pc' \in {[pc EXCEPT ![a] = "sending"], [pc EXCEPT ![a] = "done"]},
               NEW c \in Attempts, Counts(c)'
        PROVE  HoldsStore(c)'
    <3>1. CASE c = a
      BY <2>2, <3>1, NoRecAssumption DEF WriteClaim, Claim, HoldsStore, Record
    <3>2. CASE c # a
      <4>1. Counts(c)
        BY <2>2, <3>2 DEF Counts, Excused, MayHaveBought, WriteClaim
      <4>2. HoldsStore(c) /\ store = held[a]
        BY <2>1, <2>2, <4>1 DEF WriteClaim
      <4>3. CASE Active(store)
        <5>1. ack[a] = c
          BY <2>2, <4>2, <4>3 DEF WriteClaim, PurchaseInv, CheckedBeforeWrite, HoldsStore
        <5> QED
          BY <2>2, <5>1 DEF WriteClaim, Counts, Excused
      <4>4. CASE ~Active(store)
        <5>1. now - store.at > TTL /\ claimedAt[c] <= store.at /\ store.at \in Nat
          BY <4>2, <4>4 DEF Active, HoldsStore, RecordsInv, RecordsTrue, GoodRecord, Record
        <5> QED
          BY <5>1, <4>1 DEF Counts, Excused
      <4> QED
        BY <4>3, <4>4
    <3> QED
      BY <3>1, <3>2
  <2>3. ASSUME NEW a \in Attempts, SettlePut(a), NEW c \in Attempts, Counts(c)'
        PROVE  HoldsStore(c)'
    <3>1. Counts(a) /\ HoldsStore(a)
      <4>1. a \notin waived
        BY <2>3 DEF SettlePut, PurchaseInv, DismissedAreOver
      <4>2. ~(now - claimedAt[a] > TTL)
        BY <2>3 DEF SettlePut, PurchaseInv, RunningStillCounts, InProgress, Busy
      <4> QED
        BY <2>1, <2>3, <4>1, <4>2 DEF Counts, Excused, Recorded, SettlePut
    <3>2. Counts(c)
      BY <2>3 DEF SettlePut, Counts, Excused, MayHaveBought, Recorded, End, Goto
    <3>3. c = a /\ MayHaveBought(a)
      BY <2>1, <2>3, <3>1, <3>2 DEF HoldsStore, SettlePut, Counts, Recorded, End, Goto,
                                    MayHaveBought
    <3> QED
      BY <2>3, <3>3 DEF SettlePut, HoldsStore, RecordsInv, SettlesItself, RecordsTrue,
                        GoodRecord, MayHaveBought
  <2>4. ASSUME ClearGuard, NEW c \in Attempts, Counts(c)'
        PROVE  HoldsStore(c)'
    <3>1. Counts(c) /\ c # store.id
      BY <2>4 DEF ClearGuard, Counts, Excused, MayHaveBought, Record
    <3> QED
      BY <2>1, <3>1 DEF HoldsStore
  <2>5. ASSUME ~ClearGuard, \A a \in Attempts : ~WritesClaim(a) /\ ~SettlePut(a),
               NEW c \in Attempts, Counts(c)'
        PROVE  HoldsStore(c)'
    BY <2>1, <2>5, OtherSteps DEF HoldsStore
  <2> QED
    <3>1. ASSUME NEW a \in Attempts, WritesClaim(a)
          PROVE  /\ WriteClaim(a) /\ now' = now /\ claimedAt' = claimedAt /\ fate' = fate
                 /\ pc' \in {[pc EXCEPT ![a] = "sending"], [pc EXCEPT ![a] = "done"]}
      BY <3>1 DEF WritesClaim, PersistWrite, PersistWritesThenFails, Rollback, End, Goto
    <3> QED
      BY <2>2, <2>3, <2>4, <2>5, <3>1 DEF OneHolder, Counts
<1> QED
  BY <1>1, <1>2, <1>3, <1>4 DEF PurchaseInv

-----------------------------------------------------------------------------
(***************************************************************************)
(* The inductive invariant, in every deployment.                           *)
(***************************************************************************)
THEOREM LedgerInvariant == Spec => []LedgerInv
<1>1. Init => (SafeDeployment => PurchaseInv)
  BY LedgerAssumption
  DEF Init, PurchaseInv, DismissedAreOver, RunningStillCounts, CheckedBeforeWrite, OneHolder,
      InProgress, Busy, Recorded, MayHaveBought
<1>2. TypeOK /\ TypeOK' /\ RecordsInv /\ RecordsInv' /\ (SafeDeployment => PurchaseInv) /\ [Next]_vars
        => (SafeDeployment => PurchaseInv)'
  <2> SUFFICES ASSUME TypeOK, TypeOK', RecordsInv, RecordsInv', [Next]_vars,
                      SafeDeployment => PurchaseInv, SafeDeployment
               PROVE  PurchaseInv'
    BY DEF SafeDeployment
  <2> QED
    BY PurchaseStep
<1>3. Spec => [](SafeDeployment => PurchaseInv)
  BY <1>1, <1>2, TypeCorrect, RecordsInvariant, PTL DEF Spec
<1> QED
  BY <1>3, RecordsInvariant, PTL DEF LedgerInv

(***************************************************************************)
(* In a safe deployment no second label is bought behind the caller's      *)
(* back, and whoever reads the store finds the purchase that counts.       *)
(***************************************************************************)
THEOREM NoDoublePurchase ==
  ASSUME SafeDeployment
  PROVE  Spec => [](NoSilentSecondPurchase /\ TracedWhileItCounts)
<1>1. LedgerInv => NoSilentSecondPurchase /\ TracedWhileItCounts
  BY DEF LedgerInv, PurchaseInv, OneHolder, HoldsStore, NoSilentSecondPurchase,
         TracedWhileItCounts
<1> QED
  BY <1>1, LedgerInvariant, PTL
==============================================================================
