---------------------------- MODULE WriteProofs ----------------------------
(***************************************************************************)
(* Proofs about DirectWrites, for any calls, mixes of operations, number   *)
(* of attempts, amounts and reasons of abort: type correctness, that a     *)
(* write which is not idempotent takes effect at most once, that a denial  *)
(* is true, and, for calls that do not overlap, that refunds keep to the   *)
(* order's total and a verified price stands. And about InventoryBatch,    *)
(* for lists of any length, any limits and numbers of feeds: that every    *)
(* update is answered, truly, and that a preview is carried out as shown.  *)
(***************************************************************************)
EXTENDS DirectWrites, InventoryBatch, Induction, FiniteSetTheorems, SequenceTheorems, FunctionTheorems, TLAPS

-----------------------------------------------------------------------------
(* No request of c has taken effect, or will once it is let go. *)
Clean(c) == applied[c] = 0 /\ loose[c] = 0

(* c tells its caller that nothing was written. *)
Denies(c) ==
  \/ kind[c] \in Service /\ verdict[c] \in {"blocked", "unsent", "rejected", "aborted"}
  \/ /\ kind[c] = "order" /\ verdict[c] \in {"unsent", "rejected"}
     /\ heard[c] \notin {"http500", "again500"}

(* Where no request of c is in flight and none ever took effect. *)
BeforeFlight == {"idle", "rmas", "courtesies", "limiting", "sending", "backoff"}

(* A call that goes on to retry has a retry left. *)
RetryLeft(c) == pc[c] = "backoff" => try[c] + 1 < MaxAttempts

(* What each place of a write that is not idempotent says of its requests. *)
OnceInv(c) ==
  /\ pc[c] \notin {"confirming", "resolving"}
  /\ pc[c] \in BeforeFlight => Clean(c) /\ fate[c] # "out"
  /\ pc[c] = "flying" => \/ fate[c] = "out" /\ Clean(c)
                         \/ fate[c] = "applied" /\ applied[c] = 1 /\ loose[c] = 0
  /\ pc[c] = "done" => fate[c] # "out" /\ applied[c] + loose[c] <= 1
  /\ pc[c] # "done" => verdict[c] = "none"
  /\ Denies(c) => Clean(c)

(* The inductive invariant. *)
WriteInv ==
  /\ TypeOK
  /\ \A c \in Calls : RetryLeft(c)
  /\ \A c \in Calls : kind[c] \in Once => OnceInv(c)

-----------------------------------------------------------------------------
(* A try that fails touches its own call only; if the call backs off, a     *)
(* retry is left (Fail, the catch block of the send loops).                 *)
LEMMA FailTypes ==
  ASSUME TypeOK, NEW c \in Calls, NEW f \in Failures, Fail(c, f)
  PROVE  /\ pc' \in [Calls -> Places]
         /\ heard' \in [Calls -> {"none", "ok", "odd"} \cup Failures]
         /\ verdict' \in [Calls -> Verdicts]
         /\ \A d \in Calls \ {c} : /\ pc'[d] = pc[d] /\ heard'[d] = heard[d]
                                   /\ verdict'[d] = verdict[d]
         /\ pc'[c] = "backoff" => try[c] + 1 < MaxAttempts
<1>1. heard' = [heard EXCEPT ![c] = f]
  BY DEF Fail, Hear
<1>2. \/ pc' = [pc EXCEPT ![c] = "backoff"] /\ verdict' = verdict /\ try[c] + 1 < MaxAttempts
      \/ pc' = [pc EXCEPT ![c] = "resolving"] /\ verdict' = verdict
      \/ pc' = [pc EXCEPT ![c] = "done"] /\ \E w \in Verdicts :
                                              verdict' = [verdict EXCEPT ![c] = w]
  BY DEF Fail, Conclude, Goto, Tell, Verdicts
<1> QED BY <1>1, <1>2 DEF TypeOK, Places

(* A write that is not idempotent is tried again only when it provably      *)
(* never left; otherwise it is reported, as open or as rejected             *)
(* (servicemgmt/write.ts sendServiceWrite, orders/api.ts #sendWrite).       *)
LEMMA FailOnce ==
  ASSUME TypeOK, NEW c \in Calls, NEW f \in Failures, Fail(c, f), kind[c] \in Once
  PROVE  /\ heard'[c] = f
         /\ \/ f = "unsent" /\ pc'[c] = "backoff" /\ verdict'[c] = verdict[c]
            \/ f = "unsent" /\ pc'[c] = "done" /\ verdict'[c] = "unsent"
            \/ f # "unsent" /\ pc'[c] = "done"
               /\ verdict'[c] = IF Ambiguous(kind[c], f) THEN "indeterminate" ELSE "rejected"
<1>1. kind[c] \notin Priced \cup {"stock"} /\ kind[c] # "price" /\ kind[c] # "blind"
  BY DEF Once, Priced, Service
<1>2. heard'[c] = f
  BY DEF TypeOK, Fail, Hear
<1>3. CASE Goto(c, "backoff") /\ UNCHANGED verdict /\ Retryable(kind[c], f)
  BY <1>2, <1>3 DEF TypeOK, Goto, Retryable
<1>4. CASE Conclude(c, f)
  BY <1>1, <1>2, <1>4 DEF TypeOK, Conclude, Tell, Goto
<1> QED BY <1>3, <1>4 DEF Fail

-----------------------------------------------------------------------------
(* A step of call c, or of Newegg on one of its requests. *)
StepOf(c) ==
  \/ Start(c) \/ Advance(c) \/ NeverLeaves(c) \/ Answers(c) \/ Aborts(c)
  \/ TakesEffect(c) \/ ArrivesLate(c)

(* The rest of the calls is not touched by a step of c. *)
Spares(c) ==
  /\ kind' = kind
  /\ \A d \in Calls \ {c} :
       /\ pc'[d] = pc[d] /\ try'[d] = try[d] /\ heard'[d] = heard[d]
       /\ fate'[d] = fate[d] /\ loose'[d] = loose[d] /\ applied'[d] = applied[d]
       /\ verdict'[d] = verdict[d]

(* LetGo and Reject keep the types and the other calls (executeOnce's       *)
(* timeout, and Newegg's refusal).                                          *)
LEMMA LetGoTypes ==
  ASSUME TypeOK, NEW c \in Calls, LetGo(c) \/ Reject(c)
  PROVE  /\ fate' \in [Calls -> {"none", "out", "applied", "loose", "void"}]
         /\ loose' \in [Calls -> Nat]
         /\ \A d \in Calls \ {c} : fate'[d] = fate[d] /\ loose'[d] = loose[d]
BY DEF TypeOK, LetGo, Reject

(* Every try that ends with Fail: the client gave up, could not connect, or *)
(* was answered no or unclearly.                                            *)
LEMMA FailingSteps ==
  ASSUME NEW c \in Calls, NeverLeaves(c) \/ GivesUp(c) \/ AnswersNo(c) \/ AnswersUnclear(c)
  PROVE  /\ pc[c] = "flying" /\ (LetGo(c) \/ Reject(c))
         /\ \E f \in Failures : Fail(c, f)
         /\ UNCHANGED <<kind, try, signal, seen, applied, overlap, last, held, before, refunded>>
BY DEF NeverLeaves, GivesUp, AnswersNo, AnswersUnclear, Failures, newegg

(* Type correctness of one step, with the bound on retries and the frame.   *)
LEMMA TypeStep ==
  ASSUME TypeOK, \A d \in Calls : RetryLeft(d), NEW c \in Calls, StepOf(c)
  PROVE  TypeOK' /\ RetryLeft(c)' /\ Spares(c)
<1>a. MaxAttempts \in Nat \ {0} /\ Amount \in Nat \ {0} /\ AbortReasons \subseteq {"AbortError", "TimeoutError"}
  BY DirectAssumption
<1> USE DEF Goto, Hear, Tell, newegg, Places, Verdicts
<1>1. CASE Start(c)
  BY <1>1 DEF TypeOK, RetryLeft, Spares, Start
<1>2. CASE ReadRmas(c)
  BY <1>2 DEF TypeOK, RetryLeft, Spares, ReadRmas, Service
<1>3. CASE Check(c) \/ CheckFails(c)
  BY <1>3 DEF TypeOK, RetryLeft, Spares, Check, CheckFails
<1>4. CASE Proceed(c)
  BY <1>a, <1>4 DEF TypeOK, RetryLeft, Spares, Proceed
<1>5. CASE Dispatch(c)
  <2>1. signal[c] # "none" => signal[c] \in AbortReasons
    BY DEF TypeOK
  <2>2. pc' \in [Calls -> Places] /\ pc'[c] # "backoff"
    BY <1>5 DEF TypeOK, Dispatch
  <2>3. heard' \in [Calls -> {"none", "ok", "odd"} \cup Failures]
    BY <1>a, <2>1, <1>5 DEF TypeOK, Dispatch, Failures
  <2>4. verdict' \in [Calls -> Verdicts]
    <3>1. CASE signal[c] # "none"
      BY <2>1, <3>1, <1>5 DEF TypeOK, Dispatch, Aborted
    <3>2. CASE signal[c] = "none"
      BY <3>2, <1>5 DEF TypeOK, Dispatch
    <3> QED BY <3>1, <3>2
  <2>5. fate' \in [Calls -> {"none", "out", "applied", "loose", "void"}] /\ Spares(c)
    BY <1>5 DEF TypeOK, Dispatch, Spares
  <2> QED BY <1>5, <2>2, <2>3, <2>4, <2>5 DEF TypeOK, RetryLeft, Dispatch
<1>6. CASE NeverLeaves(c) \/ GivesUp(c) \/ AnswersNo(c) \/ AnswersUnclear(c)
  <2> PICK f \in Failures : Fail(c, f)
    BY <1>6, FailingSteps
  <2> QED BY <1>6, FailingSteps, FailTypes, LetGoTypes DEF TypeOK, RetryLeft, Spares
<1>7. CASE ReadsBack(c) \/ ReadBackFails(c)
  BY <1>7 DEF TypeOK, RetryLeft, Spares, ReadsBack, ReadBackFails
<1>8. CASE AnswersYes(c)
  <2>1. /\ fate' \in [Calls -> {"none", "out", "applied", "loose", "void"}]
        /\ loose' \in [Calls -> Nat]
        /\ \A d \in Calls \ {c} : fate'[d] = fate[d] /\ loose'[d] = loose[d]
    BY <1>8 DEF TypeOK, AnswersYes, Reject
  <2>2. /\ pc' \in [Calls -> Places] /\ verdict' \in [Calls -> Verdicts] /\ pc'[c] # "backoff"
        /\ \A d \in Calls \ {c} : pc'[d] = pc[d] /\ verdict'[d] = verdict[d]
    BY <1>8 DEF TypeOK, AnswersYes
  <2>3. /\ heard' \in [Calls -> {"none", "ok", "odd"} \cup Failures]
        /\ \A d \in Calls \ {c} : heard'[d] = heard[d]
    BY <1>8 DEF TypeOK, AnswersYes
  <2>4. UNCHANGED <<kind, try, signal, seen, applied, overlap, last, held, before, refunded>>
    BY <1>8 DEF AnswersYes
  <2>5. TypeOK'
    BY <2>1, <2>2, <2>3, <2>4 DEF TypeOK
  <2> QED BY <2>1, <2>2, <2>3, <2>4, <2>5 DEF RetryLeft, Spares
<1>9. CASE AnswersOddly(c)
  <2>1. LetGo(c) \/ Reject(c)
    BY <1>9 DEF AnswersOddly
  <2> QED BY <1>9, <2>1, LetGoTypes DEF TypeOK, RetryLeft, Spares, AnswersOddly
<1>10. ASSUME NEW r \in AbortReasons, AbortInFlight(c, r)
       PROVE  TypeOK' /\ RetryLeft(c)' /\ Spares(c)
  BY <1>a, <1>10, LetGoTypes DEF TypeOK, RetryLeft, Spares, AbortInFlight, Aborted, Failures
<1>11. ASSUME NEW r \in AbortReasons, AbortWaiting(c, r)
       PROVE  TypeOK' /\ RetryLeft(c)' /\ Spares(c)
  BY <1>a, <1>11 DEF TypeOK, RetryLeft, Spares, AbortWaiting, Aborted, Failures
<1>12. CASE TakesEffect(c)
  BY <1>a, <1>12 DEF TypeOK, RetryLeft, Spares, TakesEffect, Effect, Service
<1>13. CASE ArrivesLate(c)
  BY <1>a, <1>13 DEF TypeOK, RetryLeft, Spares, ArrivesLate, Effect, Service
<1> QED BY <1>1, <1>2, <1>3, <1>4, <1>5, <1>6, <1>7, <1>8, <1>9, <1>10, <1>11, <1>12, <1>13
        DEF StepOf, Advance, Answers, Aborts, Checks

-----------------------------------------------------------------------------
(* What OnceInv says of c depends on c's own state only.                    *)
LEMMA Untouched ==
  ASSUME NEW c \in Calls, NEW d \in Calls \ {c}, Spares(c), OnceInv(d)
  PROVE  OnceInv(d)'
BY DEF Spares, OnceInv, Clean, Denies

(* A step of a write that is not idempotent keeps its invariant: only       *)
(* Dispatch puts a request in flight, it does so only when nothing of the   *)
(* call has taken effect, and whatever ends the flight either proves that   *)
(* nothing did or ends the call.                                            *)
LEMMA OnceStep ==
  ASSUME TypeOK, NEW c \in Calls, kind[c] \in Once, OnceInv(c), StepOf(c)
  PROVE  OnceInv(c)'
<1>a. kind[c] \notin Priced \cup {"stock"} /\ kind[c] # "price" /\ kind[c] # "blind"
  BY DEF Once, Priced, Service
<1>b. AbortReasons \subseteq {"AbortError", "TimeoutError"}
  BY DirectAssumption
<1> USE DEF TypeOK, OnceInv, Clean, Denies, BeforeFlight, newegg
<1>1. CASE Start(c)
  BY <1>1 DEF Start, Goto
<1>2. CASE ReadRmas(c)
  BY <1>2 DEF ReadRmas, Goto
<1>3. CASE Check(c) \/ CheckFails(c)
  BY <1>3 DEF Check, CheckFails, Goto, Tell
<1>4. CASE Proceed(c)
  BY <1>4 DEF Proceed, Goto
<1>5. CASE Dispatch(c)
  BY <1>5 DEF Dispatch, Aborted, Goto, Tell
<1>6. CASE NeverLeaves(c)
  <2>1. Fail(c, "unsent") /\ "unsent" \in Failures
    BY <1>6 DEF NeverLeaves, Failures
  <2> QED BY <1>6, <2>1, FailOnce DEF NeverLeaves, Reject
<1>7. CASE GivesUp(c)
  <2>1. Fail(c, "lost") /\ "lost" \in Failures /\ Ambiguous(kind[c], "lost")
    BY <1>a, <1>7 DEF GivesUp, Failures, Ambiguous
  <2>2. heard'[c] = "lost" /\ pc'[c] = "done" /\ verdict'[c] = "indeterminate"
    BY <2>1, FailOnce
  <2> QED BY <1>7, <2>2 DEF GivesUp, LetGo
<1>8. CASE AnswersNo(c)
  <2> PICK f \in {"refused", "limited"} : Fail(c, f)
    BY <1>8 DEF AnswersNo
  <2>1. f \in Failures /\ f # "unsent"
    BY DEF Failures
  <2>2. pc'[c] = "done"
    BY <2>1, FailOnce
  <2> QED BY <1>8, <2>2 DEF AnswersNo, Reject
<1>9. CASE AnswersUnclear(c)
  <2> PICK f \in {"gateway", "http500", "again500", "redirect"} : Fail(c, f)
    BY <1>9 DEF AnswersUnclear
  <2>1. f \in Failures /\ f # "unsent"
    BY DEF Failures
  <2>2. heard'[c] = f /\ pc'[c] = "done"
        /\ verdict'[c] = IF Ambiguous(kind[c], f) THEN "indeterminate" ELSE "rejected"
    BY <2>1, FailOnce
  <2>3. Ambiguous(kind[c], f) \/ (kind[c] \notin Service /\ f \in {"http500", "again500"})
    BY <1>a DEF Ambiguous
  <2>4. ~Denies(c)'
    <3>1. kind' = kind
      BY <1>9 DEF AnswersUnclear
    <3> QED BY <2>2, <2>3, <3>1
  <2> QED BY <1>9, <2>2, <2>4 DEF AnswersUnclear, LetGo
<1>10. CASE AnswersYes(c)
  BY <1>a, <1>10 DEF AnswersYes, Goto, Tell, Reject
<1>11. CASE AnswersOddly(c)
  BY <1>a, <1>11 DEF AnswersOddly, Tell, Goto, LetGo
<1>12. ASSUME NEW r \in AbortReasons, AbortInFlight(c, r)
       PROVE  OnceInv(c)'
  BY <1>b, <1>12 DEF AbortInFlight, Aborted, Tell, Goto, LetGo, Service
<1>13. ASSUME NEW r \in AbortReasons, AbortWaiting(c, r)
       PROVE  OnceInv(c)'
  BY <1>13 DEF AbortWaiting, Aborted, Tell, Goto
<1>14. CASE TakesEffect(c)
  BY <1>14 DEF TakesEffect, Effect
<1>15. CASE ArrivesLate(c)
  BY <1>15 DEF ArrivesLate, Effect
<1>16. CASE ReadsBack(c) \/ ReadBackFails(c)
  BY <1>16 DEF ReadsBack, ReadBackFails
<1> QED BY <1>1, <1>2, <1>3, <1>4, <1>5, <1>6, <1>7, <1>8, <1>9, <1>10, <1>11, <1>12, <1>13,
           <1>14, <1>15, <1>16
        DEF StepOf, Advance, Answers, Aborts, Checks

-----------------------------------------------------------------------------
(* The invariant holds when no call has started.                            *)
LEMMA InitInv == Init => WriteInv
<1> SUFFICES ASSUME Init PROVE WriteInv
  OBVIOUS
<1>1. MaxAttempts \in Nat \ {0}
  BY DirectAssumption
<1>2. kind \in [Calls -> Kinds]
  <2>1. {"price", "blind", "stock", "order", "rma", "refund"} = Kinds
    BY DEF Kinds, Priced, Once, Service
  <2> QED BY <2>1, DirectAssumption DEF Init
<1>3. TypeOK
  <2>1. try \in [Calls -> 0 .. MaxAttempts - 1]
    BY <1>1 DEF Init
  <2> QED BY <1>2, <2>1 DEF Init, TypeOK, Places, Verdicts
<1>4. \A c \in Calls : RetryLeft(c) /\ OnceInv(c)
  BY DEF Init, RetryLeft, OnceInv, Clean, Denies, BeforeFlight
<1> QED BY <1>3, <1>4 DEF WriteInv

(* Every step preserves it: the call it belongs to by TypeStep and          *)
(* OnceStep, the others because they are not touched.                       *)
LEMMA NextInv == WriteInv /\ [Next]_vars => WriteInv'
<1> SUFFICES ASSUME WriteInv, [Next]_vars PROVE WriteInv'
  OBVIOUS
<1>1. CASE Next
  <2> PICK c \in Calls : StepOf(c)
    BY <1>1 DEF Next, StepOf
  <2>1. TypeOK' /\ RetryLeft(c)' /\ Spares(c)
    BY TypeStep DEF WriteInv
  <2>2. \A d \in Calls : RetryLeft(d)'
    <3> TAKE d \in Calls
    <3>1. CASE d = c BY <2>1, <3>1
    <3>2. CASE d # c BY <2>1, <3>2 DEF WriteInv, RetryLeft, Spares
    <3> QED BY <3>1, <3>2
  <2>3. \A d \in Calls : kind'[d] \in Once => OnceInv(d)'
    <3> TAKE d \in Calls
    <3> HAVE kind'[d] \in Once
    <3>1. OnceInv(d)
      BY <2>1 DEF WriteInv, Spares
    <3>2. CASE d = c BY <2>1, <3>1, <3>2, OnceStep DEF WriteInv, Spares
    <3>3. CASE d # c BY <2>1, <3>1, <3>3, Untouched
    <3> QED BY <3>2, <3>3
  <2> QED BY <2>1, <2>2, <2>3 DEF WriteInv
<1>2. CASE UNCHANGED vars
  BY <1>2 DEF vars, WriteInv, TypeOK, RetryLeft, OnceInv, Clean, Denies
<1> QED BY <1>1, <1>2

(* The invariant of the writes: where a call is tells what its requests     *)
(* have done.                                                               *)
THEOREM WriteInvariant == Spec => []WriteInv
BY InitInv, NextInv, PTL DEF Spec

(* The type invariant.                                                      *)
THEOREM WriteTypes == Spec => []TypeOK
<1>1. WriteInv => TypeOK
  BY DEF WriteInv
<1> QED BY <1>1, WriteInvariant, PTL

(* An order, RMA or refund write takes effect at most once: the retry rule  *)
(* of the send loops (only what provably never left is sent again) suffices *)
(* against any order of lost, late and unclear answers and aborts.          *)
THEOREM NoSecondWrite == Spec => []WrittenOnce
<1>1. WriteInv => WrittenOnce
  <2> SUFFICES ASSUME WriteInv, NEW c \in Calls, kind[c] \in Once
               PROVE  applied[c] + loose[c] + (IF fate[c] = "out" THEN 1 ELSE 0) <= 1
    BY DEF WrittenOnce
  <2>1. OnceInv(c) /\ pc[c] \in Places /\ applied[c] \in Nat /\ loose[c] \in Nat
    BY DEF WriteInv, TypeOK
  <2> QED BY <2>1 DEF OnceInv, Clean, BeforeFlight, Places
<1> QED BY <1>1, WriteInvariant, PTL

(* A caller that is told a write was refused, never sent or blocked can     *)
(* rely on it: nothing was written, and nothing will be.                    *)
THEOREM DenialsAreTrue == Spec => []DenialIsTrue
<1>1. WriteInv => DenialIsTrue
  <2> SUFFICES ASSUME WriteInv, NEW c \in Calls, Denies(c)
               PROVE  applied[c] = 0 /\ loose[c] = 0
    BY DEF DenialIsTrue, Denies
  <2>1. kind[c] \in Once
    BY DEF Denies, Once
  <2> QED BY <2>1 DEF WriteInv, OnceInv, Clean
<1> QED BY <1>1, WriteInvariant, PTL

-----------------------------------------------------------------------------
(* What the places say of a call of any kind.                               *)
PlaceInv(c) ==
  /\ fate[c] = "out" => pc[c] = "flying"
  /\ pc[c] = "idle" => loose[c] = 0
  /\ pc[c] # "done" => verdict[c] = "none"
  /\ pc[c] \in {"confirming", "resolving"} => kind[c] = "price"

(* While calls have not overlapped, at most one is not at rest.             *)
Alone == \A c, d \in Calls : ~AtRest(c) /\ ~AtRest(d) => c = d

(* A refund that is checked and may still take effect.                      *)
Owes(c) ==
  kind[c] \in Service /\ (pc[c] \in {"limiting", "sending", "backoff"} \/ fate[c] = "out" \/ loose[c] > 0)

(* There is room for a refund that may still take effect, and what a call   *)
(* has counted of the RMAs is what they refund.                             *)
BalanceInv ==
  /\ WithinBalance
  /\ \A c \in Calls : ~overlap =>
       /\ Owes(c) => refunded["rma"] + refunded["refund"] + Amount <= Total
       /\ pc[c] = "courtesies" => seen[c] = refunded["rma"]

(* The update that may still take effect is the last one that started, no   *)
(* price is that of a call which has not begun, and nothing has replaced    *)
(* the last update's price.                                                 *)
PriceInv ==
  ~overlap =>
    /\ \A c \in Calls : kind[c] \in Priced /\ ~AtRest(c) => last = c
    /\ \A c \in Calls : pc[c] = "idle" => held # c /\ before # c
    /\ before = last => held = last
    /\ \A c \in Calls : verdict[c] = "verified" /\ last = c => held = c

(* The invariant of calls that do not overlap.                              *)
ApartInv ==
  /\ WriteInv
  /\ \A c \in Calls : PlaceInv(c)
  /\ ~overlap => Alone
  /\ BalanceInv /\ PriceInv

-----------------------------------------------------------------------------
(* What a step of a call does to the places of that call.                   *)
LEMMA PlaceStep ==
  ASSUME TypeOK, NEW c \in Calls, PlaceInv(c), StepOf(c)
  PROVE  PlaceInv(c)'
<1>0. kind[c] \in Kinds
  BY DEF TypeOK
<1> USE DEF PlaceInv, TypeOK, Goto, Hear, Tell, newegg
<1>1. CASE Start(c)
  BY <1>1 DEF Start
<1>2. CASE ReadRmas(c) \/ Check(c) \/ CheckFails(c) \/ Proceed(c)
  BY <1>2 DEF ReadRmas, Check, CheckFails, Proceed
<1>3. CASE Dispatch(c)
  BY <1>3 DEF Dispatch
<1>4. CASE NeverLeaves(c) \/ GivesUp(c) \/ AnswersNo(c) \/ AnswersUnclear(c)
  <2> PICK f \in Failures : Fail(c, f)
    BY <1>4, FailingSteps
  <2>1. fate'[c] # "out" /\ kind' = kind /\ pc[c] = "flying"
    BY <1>4, FailingSteps DEF LetGo, Reject
  <2>2. \/ pc'[c] = "backoff" /\ verdict'[c] = verdict[c]
        \/ pc'[c] = "resolving" /\ verdict'[c] = verdict[c] /\ kind[c] = "price"
        \/ pc'[c] = "done"
    BY DEF Fail, Conclude
  <2> QED BY <2>1, <2>2
<1>5. CASE AnswersYes(c)
  BY <1>5 DEF AnswersYes, Reject
<1>6. CASE AnswersOddly(c)
  BY <1>6 DEF AnswersOddly, LetGo, Reject
<1>7. ASSUME NEW r \in AbortReasons, AbortInFlight(c, r) \/ AbortWaiting(c, r)
      PROVE  PlaceInv(c)'
  BY <1>7 DEF AbortInFlight, AbortWaiting, LetGo
<1>8. CASE TakesEffect(c) \/ ArrivesLate(c)
  BY <1>8 DEF TakesEffect, ArrivesLate, Effect
<1>9. CASE ReadsBack(c) \/ ReadBackFails(c)
  BY <1>9 DEF ReadsBack, ReadBackFails
<1> QED BY <1>1, <1>2, <1>3, <1>4, <1>5, <1>6, <1>7, <1>8, <1>9
        DEF StepOf, Advance, Answers, Aborts, Checks

(* A step other than a start is that of a call not at rest; it starts       *)
(* nothing, and leaves what Newegg holds to Newegg.                         *)
LEMMA Quiet ==
  ASSUME TypeOK, NEW c \in Calls, PlaceInv(c), StepOf(c), ~Start(c)
  PROVE  /\ ~AtRest(c) /\ pc'[c] # "idle" /\ overlap' = overlap /\ last' = last
         /\ \/ UNCHANGED newegg
            \/ TakesEffect(c) \/ ArrivesLate(c)
<1> USE DEF PlaceInv, TypeOK, Goto, Tell, AtRest, Running
<1>1. CASE NeverLeaves(c) \/ GivesUp(c) \/ AnswersNo(c) \/ AnswersUnclear(c)
  <2> PICK f \in Failures : Fail(c, f)
    BY <1>1, FailingSteps
  <2>1. pc'[c] # "idle"
    BY DEF Fail, Conclude
  <2> QED BY <1>1, <2>1, FailingSteps DEF newegg
<1>2. ASSUME NEW r \in AbortReasons, AbortInFlight(c, r) \/ AbortWaiting(c, r)
      PROVE  /\ ~AtRest(c) /\ pc'[c] # "idle" /\ overlap' = overlap /\ last' = last
             /\ UNCHANGED newegg
  BY <1>2 DEF AbortInFlight, AbortWaiting, newegg
<1>3. CASE Checks(c) \/ Proceed(c) \/ Dispatch(c) \/ ReadsBack(c) \/ ReadBackFails(c)
  BY <1>3 DEF Checks, ReadRmas, Check, CheckFails, Proceed, Dispatch, ReadsBack, ReadBackFails, newegg
<1>4. CASE AnswersYes(c) \/ AnswersOddly(c)
  BY <1>4 DEF AnswersYes, AnswersOddly, newegg
<1>5. CASE TakesEffect(c) \/ ArrivesLate(c)
  BY <1>5 DEF TakesEffect, ArrivesLate
<1> QED BY <1>1, <1>2, <1>3, <1>4, <1>5 DEF StepOf, Advance, Answers, Aborts

-----------------------------------------------------------------------------
(* Only the one call that is not at rest moves: it stays the only one.      *)
LEMMA AloneStep ==
  ASSUME TypeOK, NEW c \in Calls, PlaceInv(c), StepOf(c), Spares(c), ~overlap => Alone
  PROVE  /\ ~overlap' => ~overlap /\ Alone'
         /\ ~overlap' => \A d \in Calls \ {c} : AtRest(d) /\ AtRest(d)'
<1>1. \A d \in Calls \ {c} : AtRest(d)' <=> AtRest(d)
  BY DEF AtRest, Running, Spares
<1>2. CASE Start(c)
  BY <1>1, <1>2 DEF Start, Alone, TypeOK
<1>3. CASE ~Start(c)
  <2>1. ~AtRest(c) /\ overlap' = overlap
    BY <1>3, Quiet
  <2> QED BY <1>1, <2>1 DEF Alone
<1> QED BY <1>2, <1>3

(* A refund that may still take effect has passed the checks, and could     *)
(* before: only they let it through.                                        *)
LEMMA OwesStep ==
  ASSUME TypeOK, NEW c \in Calls, StepOf(c), ~Start(c), ~ReadRmas(c), ~Check(c),
         ~TakesEffect(c), ~ArrivesLate(c)
  PROVE  (Owes(c)' => Owes(c)) /\ pc'[c] # "courtesies"
<1> USE DEF TypeOK, Owes, Goto, Tell
<1>1. CASE NeverLeaves(c)
  <2>1. Fail(c, "unsent") /\ fate[c] = "out" /\ kind' = kind
    BY <1>1 DEF NeverLeaves, Reject
  <2>2. pc'[c] # "courtesies"
    BY <2>1 DEF Fail, Conclude
  <2> QED BY <2>1, <2>2
<1>2. CASE GivesUp(c) \/ AnswersNo(c) \/ AnswersUnclear(c)
  <2> PICK f \in Failures \ {"unsent"} : Fail(c, f)
    BY <1>2 DEF GivesUp, AnswersNo, AnswersUnclear, Failures
  <2>1. /\ kind' = kind /\ pc[c] = "flying"
        /\ \/ fate[c] = "out"
           \/ fate[c] = "applied" /\ fate'[c] = fate[c] /\ loose'[c] = loose[c]
    BY <1>2 DEF GivesUp, AnswersNo, AnswersUnclear, LetGo, Reject
  <2>2. kind[c] \in Service => pc'[c] = "done"
    BY FailOnce DEF Once
  <2>3. pc'[c] # "courtesies"
    BY DEF Fail, Conclude
  <2> QED BY <2>1, <2>2, <2>3
<1>3. CASE CheckFails(c) \/ Proceed(c) \/ Dispatch(c) \/ ReadsBack(c) \/ ReadBackFails(c)
  BY <1>3 DEF CheckFails, Proceed, Dispatch, ReadsBack, ReadBackFails
<1>4. CASE AnswersYes(c)
  BY <1>4 DEF AnswersYes, Reject, Priced, Service
<1>5. CASE AnswersOddly(c)
  BY <1>5 DEF AnswersOddly, LetGo, Reject
<1>6. ASSUME NEW r \in AbortReasons, AbortInFlight(c, r)
      PROVE  (Owes(c)' => Owes(c)) /\ pc'[c] # "courtesies"
  BY <1>6 DEF AbortInFlight, LetGo
<1>7. ASSUME NEW r \in AbortReasons, AbortWaiting(c, r)
      PROVE  (Owes(c)' => Owes(c)) /\ pc'[c] # "courtesies"
  BY <1>7 DEF AbortWaiting
<1> QED BY <1>1, <1>2, <1>3, <1>4, <1>5, <1>6, <1>7 DEF StepOf, Advance, Answers, Aborts, Checks

(* The check of a refund leaves room for it (checkRefundBalance), and       *)
(* nothing else takes that room away before its request is resolved.        *)
LEMMA BalanceStep ==
  ASSUME TypeOK, NEW c \in Calls, \A d \in Calls : PlaceInv(d), StepOf(c), Spares(c),
         kind[c] \in Once => OnceInv(c), kind[c] \in Once => OnceInv(c)',
         ~overlap => Alone, BalanceInv
  PROVE  BalanceInv'
<1> DEFINE Sum == refunded["rma"] + refunded["refund"]
<1>0. /\ Amount \in Nat /\ Total \in Nat /\ refunded["rma"] \in Nat /\ refunded["refund"] \in Nat
      /\ kind' = kind
  BY DirectAssumption DEF TypeOK, Service, Spares
<1> SUFFICES ASSUME ~overlap' PROVE WithinBalance' /\ \A d \in Calls :
       /\ Owes(d)' => refunded'["rma"] + refunded'["refund"] + Amount <= Total
       /\ pc'[d] = "courtesies" => seen'[d] = refunded'["rma"]
  BY DEF BalanceInv, WithinBalance
<1>1. /\ ~overlap /\ \A d \in Calls \ {c} : AtRest(d)'
  BY AloneStep
<1>2. /\ Sum <= Total
      /\ Owes(c) => Sum + Amount <= Total
      /\ pc[c] = "courtesies" => seen[c] = refunded["rma"]
  BY <1>1 DEF BalanceInv, WithinBalance
<1>3. PlaceInv(c)'
  BY PlaceStep
<1>4. /\ refunded'["rma"] + refunded'["refund"] <= Total
      /\ Owes(c)' => refunded'["rma"] + refunded'["refund"] + Amount <= Total
      /\ pc'[c] = "courtesies" => seen'[c] = refunded'["rma"]
  <2>1. CASE Start(c)
    <3>1. pc'[c] \in {"rmas", "limiting"} /\ (kind[c] \in Service => pc'[c] = "rmas")
          /\ fate' = fate /\ loose' = loose /\ refunded' = refunded
      BY <2>1 DEF Start, Goto, TypeOK, newegg
    <3>2. ~Owes(c)'
      BY <1>0, <2>1, <3>1 DEF Owes, PlaceInv, Start
    <3> QED BY <1>2, <3>1, <3>2
  <2>2. CASE ReadRmas(c)
    BY <1>0, <1>2, <1>3, <2>2 DEF ReadRmas, Owes, PlaceInv, TypeOK, Goto, newegg
  <2>3. CASE Check(c)
    <3>1. pc[c] = "courtesies" /\ refunded' = refunded /\ kind' = kind /\ fate' = fate /\ loose' = loose
          /\ pc'[c] # "courtesies"
      BY <2>3 DEF Check, TypeOK, Goto, Tell, newegg
    <3>2. CASE Amount <= Total - (seen[c] + refunded["refund"])
      BY <1>0, <1>2, <3>1, <3>2
    <3>3. CASE Amount > Total - (seen[c] + refunded["refund"])
      <4>1. pc'[c] = "done"
        BY <1>0, <1>2, <2>3, <3>1, <3>3 DEF Check, TypeOK, Tell, Goto
      <4>2. Owes(c)' => Owes(c)
        BY <3>1, <4>1 DEF Owes
      <4> QED BY <1>2, <3>1, <4>2
    <3> QED BY <1>0, <1>2, <3>1, <3>2, <3>3
  <2>4. CASE TakesEffect(c) \/ ArrivesLate(c)
    <3>1. CASE kind[c] \notin Service
      <4>1. refunded' = refunded /\ ~Owes(c)' /\ pc' = pc /\ seen' = seen
        BY <1>0, <2>4, <3>1 DEF TakesEffect, ArrivesLate, Effect, Owes
      <4> QED BY <1>2, <4>1
    <3>2. CASE kind[c] \in Service
      <4>1. OnceInv(c) /\ OnceInv(c)' /\ pc'[c] = pc[c]
        BY <2>4, <3>2 DEF Once, TakesEffect, ArrivesLate
      <4>2. refunded'["rma"] + refunded'["refund"] = Sum + Amount
        BY <1>0, <2>4, <3>2 DEF TakesEffect, ArrivesLate, Effect, TypeOK, Service
      <4>3. Owes(c)
        BY <2>4, <3>2 DEF Owes, TakesEffect, ArrivesLate
      <4>4. pc[c] \in {"flying", "done"}
        BY <2>4, <4>1 DEF OnceInv, BeforeFlight, Clean, TakesEffect, ArrivesLate, TypeOK, Places
      <4>5. applied'[c] = applied[c] + 1 /\ applied[c] \in Nat /\ loose'[c] \in Nat
        BY <2>4 DEF TakesEffect, ArrivesLate, Effect, TypeOK
      <4>6. ~Owes(c)'
        BY <4>1, <4>4, <4>5 DEF Owes, OnceInv, Clean
      <4> QED BY <1>2, <4>1, <4>2, <4>3, <4>4, <4>6
    <3> QED BY <3>1, <3>2
  <2>5. CASE ~Start(c) /\ ~ReadRmas(c) /\ ~Check(c) /\ ~TakesEffect(c) /\ ~ArrivesLate(c)
    <3>1. UNCHANGED newegg /\ refunded' = refunded
      BY <2>5, Quiet DEF newegg
    <3>2. (Owes(c)' => Owes(c)) /\ pc'[c] # "courtesies"
      BY <2>5, OwesStep
    <3> QED BY <1>2, <3>1, <3>2
  <2> QED BY <2>1, <2>2, <2>3, <2>4, <2>5
<1>5. \A d \in Calls \ {c} : ~Owes(d)' /\ pc'[d] # "courtesies"
  <2> TAKE d \in Calls \ {c}
  <2>1. AtRest(d)' /\ pc'[d] = pc[d] /\ fate'[d] = fate[d] /\ PlaceInv(d) /\ pc[d] \in Places
    BY <1>1 DEF Spares, TypeOK
  <2> QED BY <2>1 DEF Owes, AtRest, Running, PlaceInv
<1> QED BY <1>1, <1>4, <1>5 DEF WithinBalance

-----------------------------------------------------------------------------
(* A price is called verified when it was read back.                        *)
LEMMA VerifiedStep ==
  ASSUME TypeOK, NEW c \in Calls, PlaceInv(c), StepOf(c), verdict'[c] = "verified"
  PROVE  verdict[c] = "verified" \/ held = c \/ (before = c /\ kind[c] \in Priced)
<1> SUFFICES ASSUME verdict'[c] # verdict[c]
             PROVE  held = c \/ (before = c /\ kind[c] \in Priced)
  OBVIOUS
<1> USE DEF TypeOK, Goto, Tell
<1>1. CASE ReadsBack(c)
  BY <1>1 DEF ReadsBack, Matches, PlaceInv, Priced
<1>2. CASE NeverLeaves(c) \/ GivesUp(c) \/ AnswersNo(c) \/ AnswersUnclear(c)
  <2> PICK f \in Failures : Fail(c, f)
    BY <1>2, FailingSteps
  <2>1. verdict'[c] # "verified"
    BY DEF Fail, Conclude
  <2> QED BY <2>1
<1>3. CASE Start(c) \/ Checks(c) \/ Proceed(c) \/ Dispatch(c) \/ ReadBackFails(c)
  BY <1>3 DEF Start, Checks, ReadRmas, Check, CheckFails, Proceed, Dispatch, Aborted, ReadBackFails
<1>4. CASE AnswersYes(c) \/ AnswersOddly(c)
  BY <1>4 DEF AnswersYes, AnswersOddly
<1>5. ASSUME NEW r \in AbortReasons, AbortInFlight(c, r) \/ AbortWaiting(c, r) PROVE FALSE
  BY <1>5 DEF AbortInFlight, AbortWaiting, Aborted
<1>6. CASE TakesEffect(c) \/ ArrivesLate(c)
  BY <1>6 DEF TakesEffect, ArrivesLate
<1> QED BY <1>1, <1>2, <1>3, <1>4, <1>5, <1>6 DEF StepOf, Advance, Answers, Aborts

(* Only the update that started last moves the item's price, and only its   *)
(* read-back calls it verified (pricing/api.ts).                            *)
LEMMA PriceStep ==
  ASSUME TypeOK, NEW c \in Calls, \A d \in Calls : PlaceInv(d), StepOf(c), Spares(c),
         ~overlap => Alone, PriceInv
  PROVE  PriceInv'
<1> SUFFICES ASSUME ~overlap' PROVE
       /\ \A d \in Calls : kind'[d] \in Priced /\ ~AtRest(d)' => last' = d
       /\ \A d \in Calls : pc'[d] = "idle" => held' # d /\ before' # d
       /\ before' = last' => held' = last'
       /\ \A d \in Calls : verdict'[d] = "verified" /\ last' = d => held' = d
  BY DEF PriceInv
<1>1. /\ ~overlap /\ kind' = kind
      /\ \A d \in Calls \ {c} : AtRest(d)' /\ pc'[d] = pc[d] /\ verdict'[d] = verdict[d]
  BY AloneStep DEF Spares
<1>2. /\ \A d \in Calls : kind[d] \in Priced /\ ~AtRest(d) => last = d
      /\ \A d \in Calls : pc[d] = "idle" => held # d /\ before # d
      /\ before = last => held = last
      /\ \A d \in Calls : verdict[d] = "verified" /\ last = d => held = d
  BY <1>1 DEF PriceInv
<1>3. CASE Start(c)
  <2>1. /\ held' = held /\ before' = before /\ pc[c] = "idle" /\ pc'[c] # "idle"
        /\ verdict' = verdict /\ verdict[c] = "none"
        /\ last' = IF kind[c] \in Priced THEN c ELSE last
    BY <1>3 DEF Start, Goto, newegg, PlaceInv, TypeOK
  <2>2. CASE kind[c] \in Priced
    BY <1>1, <1>2, <2>1, <2>2
  <2>3. CASE kind[c] \notin Priced
    BY <1>1, <1>2, <2>1, <2>3
  <2> QED BY <2>2, <2>3
<1>4. CASE TakesEffect(c) \/ ArrivesLate(c)
  <2>1. ~AtRest(c) /\ pc'[c] # "idle" /\ last' = last
    BY <1>4, Quiet DEF TakesEffect, ArrivesLate, Start, PlaceInv
  <2>2. verdict' = verdict
    BY <1>4 DEF TakesEffect, ArrivesLate
  <2>3. CASE kind[c] \in Priced
    <3>1. held' = c /\ before' = held /\ last = c
      BY <1>2, <1>4, <2>1, <2>3 DEF TakesEffect, ArrivesLate, Effect
    <3> QED BY <1>1, <1>2, <2>1, <2>2, <3>1
  <2>4. CASE kind[c] \notin Priced
    <3>1. held' = held /\ before' = before
      BY <1>4, <2>4 DEF TakesEffect, ArrivesLate, Effect
    <3> QED BY <1>1, <1>2, <2>1, <2>2, <2>4, <3>1
  <2> QED BY <2>3, <2>4
<1>5. CASE ~Start(c) /\ ~TakesEffect(c) /\ ~ArrivesLate(c)
  <2>1. ~AtRest(c) /\ pc'[c] # "idle" /\ last' = last /\ held' = held /\ before' = before
    BY <1>5, Quiet DEF newegg
  <2>2. verdict'[c] = "verified" => verdict[c] = "verified" \/ held = c \/ (before = c /\ kind[c] \in Priced)
    BY VerifiedStep
  <2>3. verdict'[c] = "verified" /\ last = c => held = c
    BY <1>2, <2>1, <2>2
  <2> QED BY <1>1, <1>2, <2>1, <2>3
<1> QED BY <1>3, <1>4, <1>5

-----------------------------------------------------------------------------
(* Nothing is at work at first.                                           *)
LEMMA ApartStart == Init => ApartInv
<1> SUFFICES ASSUME Init PROVE ApartInv
  OBVIOUS
<1>1. WriteInv
  BY InitInv
<1>2. \A c \in Calls : PlaceInv(c) /\ AtRest(c) /\ ~Owes(c)
  <2> TAKE c \in Calls
  <2>1. pc[c] = "idle" /\ loose[c] = 0 /\ fate[c] = "none" /\ verdict[c] = "none"
    BY DEF Init
  <2> QED BY <2>1 DEF PlaceInv, AtRest, Running, Owes
<1>3. Alone
  BY <1>2 DEF Alone
<1>4. BalanceInv
  BY <1>2, DirectAssumption DEF BalanceInv, WithinBalance, Init, Service
<1>5. PriceInv
  BY <1>2, DirectAssumption DEF PriceInv, Init
<1> QED BY <1>1, <1>2, <1>3, <1>4, <1>5 DEF ApartInv

(* Every step of a write, and of Newegg, keeps it.                         *)
LEMMA ApartNext == ApartInv /\ [Next]_vars => ApartInv'
<1> SUFFICES ASSUME ApartInv, [Next]_vars PROVE ApartInv'
  OBVIOUS
<1>1. WriteInv'
  BY NextInv DEF ApartInv
<1>2. CASE Next
  <2> PICK c \in Calls : StepOf(c)
    BY <1>2 DEF Next, StepOf
  <2>1. TypeOK /\ (\A d \in Calls : PlaceInv(d)) /\ (~overlap => Alone) /\ BalanceInv /\ PriceInv
    BY DEF ApartInv, WriteInv
  <2>2. Spares(c)
    BY TypeStep DEF ApartInv, WriteInv
  <2>3. kind[c] \in Once => OnceInv(c) /\ OnceInv(c)'
    BY <1>1, <2>2 DEF ApartInv, WriteInv, Spares
  <2>4. \A d \in Calls : PlaceInv(d)'
    <3>1. \A d \in Calls \ {c} : PlaceInv(d)'
      BY <2>1, <2>2 DEF PlaceInv, Spares
    <3> QED BY <2>1, <3>1, PlaceStep
  <2>5. ~overlap' => Alone'
    BY <2>1, <2>2, AloneStep
  <2>6. BalanceInv'
    BY <2>1, <2>2, <2>3, BalanceStep
  <2>7. PriceInv'
    BY <2>1, <2>2, PriceStep
  <2> QED BY <1>1, <2>4, <2>5, <2>6, <2>7 DEF ApartInv
<1>3. CASE UNCHANGED vars
  <2>1. UNCHANGED <<kind, pc, try, signal, seen, heard, fate, loose, applied, verdict,
                    held, before, refunded, overlap, last>>
    BY <1>3 DEF vars
  <2> QED BY <1>1, <2>1 DEF ApartInv, PlaceInv, Alone, AtRest, Running, BalanceInv, WithinBalance,
                            Owes, PriceInv
<1> QED BY <1>2, <1>3

(* Calls that do not overlap meet nobody else's request: what they have     *)
(* read of the order and of the item's price holds until they are done.     *)
THEOREM ApartInvariant == Spec => []ApartInv
BY ApartStart, ApartNext, PTL DEF Spec

(* Refunds that do not overlap keep to the order's total, for any amounts,  *)
(* tries, aborts and late requests.                                         *)
THEOREM BalanceKept == Spec => []WithinBalance
<1>1. ApartInv => WithinBalance
  BY DEF ApartInv, BalanceInv
<1> QED BY <1>1, ApartInvariant, PTL

(* A verified price is the item's price until another update starts.        *)
THEOREM VerifiedIsTrue == Spec => []VerifiedStands
<1>1. ApartInv => VerifiedStands
  BY DEF ApartInv, PriceInv, VerifiedStands
<1> QED BY <1>1, ApartInvariant, PTL

-----------------------------------------------------------------------------
(* InventoryBatch.                                                         *)

(* Two updates that ask for the same. *)
Alike(u, v) ==
  /\ u.type = v.type /\ u.value = v.value /\ u.condition = v.condition
  /\ u.warehouse = v.warehouse /\ u.quantity = v.quantity

Line(u) == <<Destination(u), u.quantity>>

(* A list whose updates have an index of their own. *)
Distinct(us) == IsList(us) /\ \A i, j \in DOMAIN us : us[i].inputIndex = us[j].inputIndex => i = j

(* Updates that ask for the same go to the same place.                     *)
LEMMA AlikeMeet ==
  ASSUME NEW u, NEW v, Alike(u, v)
  PROVE  Line(u) = Line(v) /\ DedupKey(u) = DedupKey(v) /\ IsSellerPartNumber(u) = IsSellerPartNumber(v)
BY DEF Alike, Line, Destination, DedupKey, IsSellerPartNumber

(* Numbering a list leaves what it asks for.                               *)
LEMMA NormalizedAre ==
  ASSUME NEW us, IsList(us)
  PROVE  /\ IsList(Normalized(us)) /\ DOMAIN Normalized(us) = DOMAIN us
         /\ \A i \in DOMAIN us : Alike(Normalized(us)[i], us[i]) /\ Normalized(us)[i].inputIndex = i - 1
<1>1. DOMAIN Normalized(us) = DOMAIN us /\ Len(Normalized(us)) = Len(us)
  BY DEF Normalized, IsList
<1>2. ASSUME NEW i \in DOMAIN us PROVE Alike(Normalized(us)[i], us[i]) /\ Normalized(us)[i].inputIndex = i - 1
  BY DEF Normalized, Alike
<1> QED BY <1>1, <1>2 DEF IsList

(* What is kept of a list: elements of it, each key's once, with their     *)
(* indexes in the list.                                                    *)
LEMMA DedupedUpdates ==
  ASSUME NEW us, IsList(us)
  PROVE  LET kept == Deduped(Normalized(us)) IN
         /\ Distinct(kept)
         /\ \A k \in DOMAIN kept : \E i \in DOMAIN us : Alike(kept[k], us[i]) /\ kept[k].inputIndex = i - 1
         /\ \A j, k \in DOMAIN kept : DedupKey(kept[j]) = DedupKey(kept[k]) => j = k
<1> DEFINE ns == Normalized(us)
           keys == [i \in DOMAIN ns |-> DedupKey(ns[i])]
           places == KeptPlaces(keys)
           kept == Deduped(ns)
<1>1. /\ IsList(ns) /\ DOMAIN ns = DOMAIN us
      /\ \A i \in DOMAIN us : Alike(ns[i], us[i]) /\ ns[i].inputIndex = i - 1
  BY NormalizedAre
<1>2. kept = [k \in DOMAIN places |-> ns[places[k]]]
  BY DEF Deduped
<1> HIDE DEF ns, kept
<1>3. IsList(keys) /\ DOMAIN keys = DOMAIN us /\ \A i \in DOMAIN us : keys[i] = DedupKey(ns[i])
  <2>1. PICK n \in Nat : DOMAIN ns = 1 .. n
    BY <1>1 DEF IsList
  <2>2. keys = [i \in 1 .. n |-> DedupKey(ns[i])]
    BY <2>1
  <2>3. DOMAIN keys = 1 .. n /\ Len(keys) = n
    BY <2>2
  <2> QED BY <1>1, <2>1, <2>2, <2>3 DEF IsList
<1> HIDE DEF keys
<1>4. /\ IsList(places) /\ \A k \in DOMAIN places : places[k] \in DOMAIN us
      /\ \A j, k \in DOMAIN places : keys[places[j]] = keys[places[k]] => j = k
  BY <1>3, KeptPlacesAre
<1> HIDE DEF places
<1>5. IsList(kept) /\ DOMAIN kept = DOMAIN places
  BY <1>2, <1>4 DEF IsList
<1>6. ASSUME NEW k \in DOMAIN kept
      PROVE  /\ places[k] \in DOMAIN us /\ kept[k] = ns[places[k]]
             /\ Alike(kept[k], us[places[k]]) /\ kept[k].inputIndex = places[k] - 1
             /\ DedupKey(kept[k]) = keys[places[k]]
  BY <1>1, <1>2, <1>3, <1>4, <1>5
<1>7. ASSUME NEW j \in DOMAIN kept, NEW k \in DOMAIN kept, kept[j].inputIndex = kept[k].inputIndex PROVE j = k
  <2>1. places[j] = places[k]
    BY <1>6, <1>7 DEF IsList
  <2> QED BY <1>4, <1>5, <2>1
<1> QED BY <1>4, <1>5, <1>6, <1>7 DEF Distinct, ns, kept

(* A list without repetitions is kept as it is.                            *)
LEMMA DedupedAgain ==
  ASSUME NEW us, IsList(us), \A i, j \in DOMAIN us : DedupKey(us[i]) = DedupKey(us[j]) => i = j
  PROVE  LET kept == Deduped(Normalized(us)) IN
         DOMAIN kept = DOMAIN us /\ \A k \in DOMAIN us : Alike(kept[k], us[k])
<1> DEFINE ns == Normalized(us)
           keys == [i \in DOMAIN ns |-> DedupKey(ns[i])]
           places == KeptPlaces(keys)
           kept == Deduped(ns)
<1>1. /\ IsList(ns) /\ DOMAIN ns = DOMAIN us /\ \A i \in DOMAIN us : Alike(ns[i], us[i])
  BY NormalizedAre
<1>2. kept = [k \in DOMAIN places |-> ns[places[k]]]
  BY DEF Deduped
<1> HIDE DEF ns, kept
<1>3. IsList(keys) /\ DOMAIN keys = DOMAIN us /\ \A i \in DOMAIN us : keys[i] = DedupKey(us[i])
  <2>1. PICK n \in Nat : DOMAIN ns = 1 .. n
    BY <1>1 DEF IsList
  <2>2. keys = [i \in 1 .. n |-> DedupKey(ns[i])]
    BY <2>1
  <2>3. DOMAIN keys = 1 .. n /\ Len(keys) = n
    BY <2>2
  <2>4. \A i \in DOMAIN us : DedupKey(ns[i]) = DedupKey(us[i])
    BY <1>1, AlikeMeet
  <2> QED BY <1>1, <2>1, <2>2, <2>3, <2>4 DEF IsList
<1> HIDE DEF keys
<1>4. DOMAIN places = DOMAIN us /\ \A k \in DOMAIN us : places[k] = k
  BY <1>3, KeptAll
<1> QED BY <1>1, <1>2, <1>4 DEF ns, kept

-----------------------------------------------------------------------------
(* What a plan is made of: the kept updates, each in one of two lists.     *)
SplitOf(kept, direct, feed) ==
  /\ Distinct(direct) /\ Distinct(feed)
  /\ \A u \in Range(direct), v \in Range(feed) : u.inputIndex # v.inputIndex
  /\ \A u : u \in Range(kept) <=> u \in Range(direct) \/ u \in Range(feed)
  /\ \A v \in Range(feed) : IsSellerPartNumber(v)

(* Filtering a list in two splits it.                                      *)
LEMMA FilteredSplit ==
  ASSUME NEW kept, Distinct(kept)
  PROVE  LET fed == {k \in DOMAIN kept : IsSellerPartNumber(kept[k])} IN
         SplitOf(kept, AtPlaces(kept, DOMAIN kept \ fed), AtPlaces(kept, fed))
<1> DEFINE fed == {k \in DOMAIN kept : IsSellerPartNumber(kept[k])}
           other == DOMAIN kept \ fed
           direct == AtPlaces(kept, other)
           feed == AtPlaces(kept, fed)
<1>1. PICK n \in Nat : DOMAIN kept = 1 .. n
  BY DEF Distinct, IsList
<1>2. fed \in SUBSET (1 .. n) /\ other \in SUBSET (1 .. n)
  BY <1>1
<1>3. \A i \in fed : i \in DOMAIN kept /\ IsSellerPartNumber(kept[i])
  OBVIOUS
<1> HIDE DEF other, fed
<1>4. /\ IsList(direct)
      /\ \A k \in DOMAIN direct : InOrder(other)[k] \in other /\ direct[k] = kept[InOrder(other)[k]]
      /\ \A j, k \in DOMAIN direct : InOrder(other)[j] = InOrder(other)[k] => j = k
  BY <1>2, AtPlacesAre
<1>5. /\ IsList(feed)
      /\ \A k \in DOMAIN feed : InOrder(fed)[k] \in fed /\ feed[k] = kept[InOrder(fed)[k]]
      /\ \A j, k \in DOMAIN feed : InOrder(fed)[j] = InOrder(fed)[k] => j = k
  BY <1>2, AtPlacesAre
<1>6. \A i \in other : \E k \in DOMAIN direct : direct[k] = kept[i]
  BY <1>2, AtPlacesReach, ZenonT(30)
<1>7. \A i \in fed : \E k \in DOMAIN feed : feed[k] = kept[i]
  BY <1>2, AtPlacesReach, ZenonT(30)
<1> HIDE DEF direct, feed
<1>8. \A i \in DOMAIN kept : i \in fed \/ i \in other
  BY DEF other
<1>9. \A i \in other : i \in DOMAIN kept /\ i \notin fed
  BY DEF other
<1>10. Distinct(direct)
  BY <1>4, <1>9 DEF Distinct
<1>11. Distinct(feed)
  BY <1>5, <1>3 DEF Distinct
<1>12. ASSUME NEW u \in Range(direct), NEW v \in Range(feed) PROVE u.inputIndex # v.inputIndex
  <2>1. PICK i \in other : u = kept[i]
    BY <1>4 DEF Range
  <2>2. PICK j \in fed : v = kept[j]
    BY <1>5 DEF Range
  <2> QED BY <1>3, <1>9, <2>1, <2>2 DEF Distinct
<1>13. ASSUME NEW u PROVE u \in Range(kept) <=> u \in Range(direct) \/ u \in Range(feed)
  <2>1. ASSUME u \in Range(kept) PROVE u \in Range(direct) \/ u \in Range(feed)
    <3>1. PICK i \in DOMAIN kept : u = kept[i]
      BY <2>1 DEF Range
    <3> QED BY <1>6, <1>7, <1>8, <3>1 DEF Range
  <2>2. ASSUME u \in Range(direct) \/ u \in Range(feed) PROVE u \in Range(kept)
    <3>1. PICK i \in DOMAIN kept : u = kept[i]
      BY <1>4, <1>5, <1>3, <1>9, <2>2 DEF Range
    <3> QED BY <3>1 DEF Range
  <2> QED BY <2>1, <2>2
<1>14. ASSUME NEW v \in Range(feed) PROVE IsSellerPartNumber(v)
  BY <1>5, <1>3 DEF Range
<1> QED BY <1>10, <1>11, <1>12, <1>13, <1>14 DEF SplitOf, direct, feed, other, fed

-----------------------------------------------------------------------------
(* The pieces a list is cut into: the elements of each, and that every     *)
(* element is in one.                                                      *)
LEMMA CutIs ==
  ASSUME NEW s, IsList(s), NEW n \in Nat \ {0}
  PROVE  LET cs == Cut(s, n) IN
         /\ IsList(cs) /\ Len(cs) = (Len(s) + n - 1) \div n
         /\ Len(s) > 0 => Len(cs) > 0
         /\ \A c \in DOMAIN cs : /\ IsList(cs[c])
                                 /\ \A k \in DOMAIN cs[c] : /\ (c - 1) * n + k \in DOMAIN s
                                                            /\ cs[c][k] = s[(c - 1) * n + k]
         /\ \A i \in DOMAIN s : \E c \in DOMAIN cs : \E k \in DOMAIN cs[c] : i = (c - 1) * n + k
<1>1. PICK l \in Nat : Len(s) = l /\ DOMAIN s = 1 .. l
  BY DEF IsList
<1>2. PICK m \in Nat : /\ m = (l + n - 1) \div n /\ m * n >= l /\ (m - 1) * n < l
                       /\ l > 0 => m > 0
  BY <1>1, PieceCount
<1> DEFINE size(c) == IF c * n < l THEN n ELSE l - (c - 1) * n
           cs == Cut(s, n)
<1>3. cs = [c \in 1 .. m |-> [k \in 1 .. size(c) |-> s[(c - 1) * n + k]]]
  BY <1>1, <1>2 DEF Cut
<1> HIDE DEF cs
<1>4. ASSUME NEW c \in 1 .. m
      PROVE  /\ size(c) \in Nat /\ (c - 1) * n \in Nat
             /\ \A k \in 1 .. size(c) : (c - 1) * n + k \in 1 .. l
             /\ c * n = (c - 1) * n + n
  <2>1. PICK p \in Int : p = (c - 1) * n
    OBVIOUS
  <2>2. c * n = p + n
    BY <2>1
  <2>3. p >= 0
    <3>1. 0 * n <= (c - 1) * n
      BY TimesGrows
    <3> QED BY <2>1, <3>1
  <2>4. p < l
    <3>1. (c - 1) * n <= (m - 1) * n
      BY TimesGrows
    <3> QED BY <1>2, <2>1, <3>1
  <2>5. size(c) = IF p + n < l THEN n ELSE l - p
    BY <2>1, <2>2
  <2> HIDE DEF size
  <2> QED BY <2>1, <2>2, <2>3, <2>4, <2>5
<1>5. DOMAIN cs = 1 .. m /\ Len(cs) = m
  BY <1>3
<1>6. \A c \in 1 .. m : cs[c] = [k \in 1 .. size(c) |-> s[(c - 1) * n + k]]
  BY <1>3
<1> HIDE DEF size
<1>7. ASSUME NEW c \in 1 .. m
      PROVE  /\ IsList(cs[c]) /\ DOMAIN cs[c] = 1 .. size(c)
             /\ \A k \in DOMAIN cs[c] : (c - 1) * n + k \in DOMAIN s /\ cs[c][k] = s[(c - 1) * n + k]
  <2>1. DOMAIN cs[c] = 1 .. size(c) /\ Len(cs[c]) = size(c)
    <3>1. PICK z \in Nat : z = size(c)
      BY <1>4
    <3>2. cs[c] = [k \in 1 .. z |-> s[(c - 1) * n + k]]
      BY <1>6, <3>1
    <3> QED BY <3>1, <3>2
  <2> QED BY <1>1, <1>4, <1>6, <2>1, ZenonT(40) DEF IsList
<1>8. ASSUME NEW i \in DOMAIN s PROVE \E c \in DOMAIN cs : \E k \in DOMAIN cs[c] : i = (c - 1) * n + k
  <2>1. PICK c \in Nat : c * n >= i /\ (c - 1) * n < i /\ c > 0
    <3>1. i \in Nat /\ i > 0
      BY <1>1
    <3> QED BY <3>1, PieceCount
  <2>2. c <= m
    <3> SUFFICES ASSUME m <= c - 1 PROVE FALSE
      BY <2>1
    <3>1. m * n <= (c - 1) * n
      BY <2>1, TimesGrows
    <3>2. PICK p \in Int : p = (c - 1) * n
      BY <2>1
    <3> QED BY <1>1, <1>2, <2>1, <3>1, <3>2
  <2>3. c \in 1 .. m
    BY <2>1, <2>2
  <2>4. PICK p \in Nat : p = (c - 1) * n /\ c * n = p + n
    BY <1>4, <2>3
  <2>5. i - p \in 1 .. size(c)
    BY <1>1, <2>1, <2>4 DEF size
  <2>6. i = (c - 1) * n + (i - p)
    BY <1>1, <2>4
  <2> QED BY <1>5, <1>7, <2>3, <2>5, <2>6
<1>9. IsList(cs) /\ Len(cs) = (Len(s) + n - 1) \div n
  BY <1>1, <1>2, <1>5 DEF IsList
<1>10. Len(s) > 0 => Len(cs) > 0
  BY <1>1, <1>2, <1>5
<1>11. \A c \in DOMAIN cs : /\ IsList(cs[c])
                            /\ \A k \in DOMAIN cs[c] : (c - 1) * n + k \in DOMAIN s /\ cs[c][k] = s[(c - 1) * n + k]
  BY <1>5, <1>7
<1> QED BY <1>8, <1>9, <1>10, <1>11 DEF cs

(* The chunks of a feed and the items that are assigned to them. *)
LEMMA ChunksAre ==
  ASSUME InventoryAssumption, NEW us, IsList(us)
  PROVE  LET chunks == FeedChunks(us) IN
         /\ IsList(chunks) /\ Len(chunks) = FeedChunkCount(Len(us))
         /\ Len(us) > 0 => Len(chunks) > 0
         /\ \A c \in DOMAIN chunks : /\ IsList(chunks[c]) /\ Range(chunks[c]) \subseteq Range(us)
                                     /\ ItemsOf(us, c) = Range(chunks[c])
         /\ \A u \in Range(us) : \E c \in DOMAIN chunks : u \in Range(chunks[c])
         /\ {us[a.inputIndex + 1] : a \in Assignments(us)} = Range(us)
<1>1. PICK n \in Nat \ {0} : n = INVENTORY_FEED_MAX_RECORDS
  BY DEF InventoryAssumption
<1>2. PICK l \in Nat : Len(us) = l /\ DOMAIN us = 1 .. l
  BY DEF IsList
<1> DEFINE ns == Normalized(us)
           cs == FeedChunks(us)
           ds == FeedChunks(ns)
<1>3. /\ IsList(ns) /\ DOMAIN ns = DOMAIN us /\ \A i \in DOMAIN us : ns[i].inputIndex = i - 1
  BY NormalizedAre
<1>4. Len(ns) = l
  BY <1>2, <1>3 DEF IsList
<1>5. cs = Cut(us, n) /\ ds = Cut(ns, n)
  BY <1>1 DEF FeedChunks
<1> DEFINE at(c, k) == (c - 1) * n + k
<1>6. /\ IsList(cs) /\ Len(cs) = (Len(us) + n - 1) \div n
      /\ Len(us) > 0 => Len(cs) > 0
  BY <1>5, CutIs
<1>7. /\ \A c \in DOMAIN cs : /\ IsList(cs[c])
                              /\ \A k \in DOMAIN cs[c] : at(c, k) \in DOMAIN us /\ cs[c][k] = us[at(c, k)]
      /\ \A i \in DOMAIN us : \E c \in DOMAIN cs : \E k \in DOMAIN cs[c] : i = at(c, k)
  BY <1>5, CutIs
<1>8. /\ DOMAIN ds = DOMAIN cs /\ \A c \in DOMAIN cs : DOMAIN ds[c] = DOMAIN cs[c]
  BY <1>2, <1>4, <1>5 DEF Cut
<1>9. \A c \in DOMAIN ds : \A k \in DOMAIN ds[c] : at(c, k) \in DOMAIN ns /\ ds[c][k] = ns[at(c, k)]
  <2>1. \A c \in DOMAIN Cut(ns, n) : \A k \in DOMAIN Cut(ns, n)[c] :
          (c - 1) * n + k \in DOMAIN ns /\ Cut(ns, n)[c][k] = ns[(c - 1) * n + k]
    <3>1. IsList(ns)
      BY <1>3
    <3> HIDE DEF ns
    <3> QED BY <3>1, CutIs
  <2> QED BY <1>5, <2>1
<1> HIDE DEF at
<1>10. \A c \in DOMAIN cs : \A k \in DOMAIN cs[c] : ds[c][k].inputIndex = at(c, k) - 1
  <2>1. \A c \in DOMAIN ds : \A k \in DOMAIN ds[c] : at(c, k) \in DOMAIN ns /\ ds[c][k] = ns[at(c, k)]
    BY <1>9
  <2> QED BY <1>3, <1>8, <2>1
<1>11. Assignments(us) = UNION {{[inputIndex |-> ds[c][k].inputIndex, chunk |-> c] : k \in DOMAIN ds[c]} : c \in DOMAIN ds}
  BY DEF Assignments
<1> HIDE DEF ns, cs, ds
<1>12. ASSUME NEW a \in Assignments(us)
       PROVE  /\ a.chunk \in DOMAIN cs
              /\ \E k \in DOMAIN cs[a.chunk] : us[a.inputIndex + 1] = cs[a.chunk][k]
  <2>1. PICK c \in DOMAIN ds : \E k \in DOMAIN ds[c] : a = [inputIndex |-> ds[c][k].inputIndex, chunk |-> c]
    BY <1>11
  <2>2. PICK k \in DOMAIN ds[c] : a = [inputIndex |-> ds[c][k].inputIndex, chunk |-> c]
    BY <2>1
  <2>3. a.chunk = c /\ a.inputIndex = at(c, k) - 1 /\ c \in DOMAIN cs /\ k \in DOMAIN cs[c]
    BY <1>8, <1>10, <2>2
  <2>4. at(c, k) \in Nat
    BY <1>2, <1>7, <2>3
  <2>5. a.inputIndex + 1 = at(c, k)
    BY <2>3, <2>4
  <2> QED BY <1>7, <2>3, <2>5
<1>13. ASSUME NEW c \in DOMAIN cs, NEW k \in DOMAIN cs[c]
       PROVE  \E a \in Assignments(us) : a.chunk = c /\ us[a.inputIndex + 1] = cs[c][k]
  <2> DEFINE a == [inputIndex |-> ds[c][k].inputIndex, chunk |-> c]
  <2>1. a \in Assignments(us)
    BY <1>8, <1>11
  <2>2. at(c, k) \in Nat
    BY <1>2, <1>7
  <2>3. a.inputIndex + 1 = at(c, k)
    BY <1>10, <2>2
  <2> QED BY <1>7, <2>1, <2>3
<1>14. \A c \in DOMAIN cs : Range(cs[c]) \subseteq Range(us)
  BY <1>7 DEF Range
<1>15. \A u \in Range(us) : \E c \in DOMAIN cs : u \in Range(cs[c])
  BY <1>7 DEF Range
<1>16. ASSUME NEW c \in DOMAIN cs PROVE ItemsOf(us, c) = Range(cs[c])
  BY <1>12, <1>13 DEF ItemsOf, Range
<1>17. {us[a.inputIndex + 1] : a \in Assignments(us)} = Range(us)
  <2>1. ASSUME NEW a \in Assignments(us) PROVE us[a.inputIndex + 1] \in Range(us)
    BY <1>12, <1>14 DEF Range
  <2>2. ASSUME NEW u \in Range(us) PROVE \E a \in Assignments(us) : us[a.inputIndex + 1] = u
    BY <1>13, <1>15 DEF Range
  <2> QED BY <2>1, <2>2
<1>18. Len(cs) = FeedChunkCount(Len(us))
  <2>1. INVENTORY_FEED_MAX_RECORDS = n
    BY <1>1
  <2>2. FeedChunkCount(Len(us)) = (Len(us) + n - 1) \div n
    BY <2>1 DEF FeedChunkCount
  <2> QED BY <1>6, <2>2
<1>19. /\ IsList(cs) /\ Len(cs) = FeedChunkCount(Len(us))
       /\ Len(us) > 0 => Len(cs) > 0
       /\ \A c \in DOMAIN cs : IsList(cs[c])
  BY <1>6, <1>18, <1>7
<1> HIDE DEF at
<1> QED BY <1>14, <1>15, <1>16, <1>17, <1>19 DEF cs

-----------------------------------------------------------------------------
(* Where a quantity goes, for a marketplace that is given: the invariants  *)
(* below are said of values and hold of whatever the variables become.     *)
DestinationIn(m, u) ==
  IF m = "us" THEN <<u.type, u.value, IF u.type = "upc" THEN u.condition ELSE None, u.warehouse>>
              ELSE <<u.type, u.value>>
LineIn(m, u) == <<DestinationIn(m, u), u.quantity>>

(* The model's operators say the same of the marketplace there is.         *)
LEMMA LineIs ==
  ASSUME NEW u
  PROVE  Destination(u) = DestinationIn(market, u) /\ Line(u) = LineIn(market, u)
BY DEF Destination, DestinationIn, Line, LineIn

(* The tasks of a list of direct updates: its updates, each in one task.   *)
TasksOf(m, us, tasks) ==
  /\ IsList(tasks)
  /\ \A t \in DOMAIN tasks : /\ IsList(tasks[t]) /\ Range(tasks[t]) \subseteq Range(us)
                             /\ m # "us" => Len(tasks[t]) = 1
  /\ \A u \in Range(us) : \E t \in DOMAIN tasks : u \in Range(tasks[t])
  /\ \A s, t \in DOMAIN tasks : \A u \in Range(tasks[s]), v \in Range(tasks[t]) :
       u.inputIndex = v.inputIndex => s = t

(* Grouping updates by item puts each in one request.                      *)
LEMMA TasksAre ==
  ASSUME NEW us, Distinct(us)
  PROVE  TasksOf(market, us, DirectTasks(us))
<1>1. PICK n \in Nat : n = Len(us) /\ DOMAIN us = 1 .. n
  BY DEF Distinct, IsList
<1>2. CASE market # "us"
  <2> DEFINE tasks == [t \in 1 .. n |-> <<us[t]>>]
  <2>1. DirectTasks(us) = tasks
    BY <1>1, <1>2 DEF DirectTasks
  <2>2. DOMAIN tasks = 1 .. n /\ Len(tasks) = n /\ \A t \in 1 .. n : tasks[t] = <<us[t]>>
    OBVIOUS
  <2> HIDE DEF tasks
  <2>3. IsList(tasks)
    BY <2>2 DEF IsList
  <2>4. ASSUME NEW t \in 1 .. n
        PROVE  IsList(tasks[t]) /\ Len(tasks[t]) = 1 /\ \A u : u \in Range(tasks[t]) <=> u = us[t]
    <3>1. PICK x : x = us[t]
      OBVIOUS
    <3>2. tasks[t] = <<x>>
      BY <2>2, <3>1
    <3>3. DOMAIN tasks[t] = 1 .. 1 /\ Len(tasks[t]) = 1 /\ tasks[t][1] = x
      BY <3>2
    <3> QED BY <3>1, <3>3 DEF IsList, Range
  <2>5. \A t \in DOMAIN tasks : /\ IsList(tasks[t]) /\ Range(tasks[t]) \subseteq Range(us) /\ Len(tasks[t]) = 1
    BY <1>1, <2>2, <2>4 DEF Range
  <2>6. \A u \in Range(us) : \E t \in DOMAIN tasks : u \in Range(tasks[t])
    BY <1>1, <2>2, <2>4 DEF Range
  <2>7. \A s, t \in DOMAIN tasks : \A u \in Range(tasks[s]), v \in Range(tasks[t]) :
          u.inputIndex = v.inputIndex => s = t
    BY <1>1, <2>2, <2>4 DEF Distinct
  <2> QED BY <2>1, <2>3, <2>5, <2>6, <2>7 DEF TasksOf
<1>3. CASE market = "us"
  <2> DEFINE key(i) == <<us[i].type, us[i].value, IF us[i].type = "upc" THEN us[i].condition ELSE None>>
             keys  == [i \in 1 .. n |-> key(i)]
             first == FirstPlaces(keys)
             order == InOrder(first)
             c     == Cardinality(first)
             same(k) == {i \in 1 .. n : keys[i] = k}
             tasks == [t \in 1 .. c |-> AtPlaces(us, same(keys[order[t]]))]
  <2>1. DirectTasks(us) = tasks
    BY <1>1, <1>3 DEF DirectTasks
  <2>2. DOMAIN keys = 1 .. n /\ Len(keys) = n
    OBVIOUS
  <2> HIDE DEF keys
  <2>3. IsList(keys)
    BY <2>2 DEF IsList
  <2>4. first \in SUBSET (1 .. n)
    BY <2>2 DEF FirstPlaces
  <2> HIDE DEF first
  <2>5. /\ \A t \in 1 .. c : order[t] \in first
        /\ \A s, t \in 1 .. c : order[s] = order[t] => s = t
        /\ \A i \in first : \E t \in 1 .. c : order[t] = i
    BY <2>4, PlacesInOrder
  <2>6. c \in Nat
    <3>1. IsFiniteSet(1 .. n)
      BY FS_Interval
    <3> QED BY <2>4, <3>1, FS_Subset, FS_CardinalityType
  <2>7. DOMAIN tasks = 1 .. c /\ Len(tasks) = c
    BY <2>6
  <2>8. \A t \in 1 .. c : tasks[t] = AtPlaces(us, same(keys[order[t]]))
    OBVIOUS
  <2> HIDE DEF tasks, order, c
  <2>9. ASSUME NEW k
        PROVE  /\ IsList(AtPlaces(us, same(k)))
               /\ \A u : u \in Range(AtPlaces(us, same(k))) <=> \E i \in 1 .. n : keys[i] = k /\ u = us[i]
    <3>1. same(k) \in SUBSET (1 .. n) /\ \A i : i \in same(k) <=> i \in 1 .. n /\ keys[i] = k
      OBVIOUS
    <3> HIDE DEF same
    <3>2. /\ IsList(AtPlaces(us, same(k)))
          /\ \A p \in DOMAIN AtPlaces(us, same(k)) :
               InOrder(same(k))[p] \in same(k) /\ AtPlaces(us, same(k))[p] = us[InOrder(same(k))[p]]
      BY <3>1, AtPlacesAre
    <3>3. \A i \in same(k) : \E p \in DOMAIN AtPlaces(us, same(k)) : AtPlaces(us, same(k))[p] = us[i]
      BY <3>1, AtPlacesReach
    <3> QED BY <3>1, <3>2, <3>3 DEF Range
  <2> HIDE DEF same
  <2>10. IsList(tasks)
    BY <2>6, <2>7 DEF IsList
  <2>11. ASSUME NEW t \in 1 .. c
         PROVE  /\ IsList(tasks[t])
                /\ \A u : u \in Range(tasks[t]) <=> \E i \in 1 .. n : keys[i] = keys[order[t]] /\ u = us[i]
    BY <2>8, <2>9
  <2>12. \A t \in DOMAIN tasks : IsList(tasks[t]) /\ Range(tasks[t]) \subseteq Range(us)
    <3> SUFFICES ASSUME NEW t \in 1 .. c, NEW u \in Range(tasks[t]) PROVE u \in Range(us)
      BY <2>7, <2>11
    <3>1. PICK i \in 1 .. n : u = us[i]
      BY <2>11
    <3> QED BY <1>1, <3>1 DEF Range
  <2>13. ASSUME NEW u \in Range(us) PROVE \E t \in DOMAIN tasks : u \in Range(tasks[t])
    <3>1. PICK i \in 1 .. n : u = us[i]
      BY <1>1 DEF Range
    <3>2. PICK j \in first : keys[j] = keys[i]
      BY <2>2, <2>3, FirstPlaceIs DEF first
    <3>3. PICK t \in 1 .. c : order[t] = j
      BY <2>5
    <3> QED BY <2>7, <2>11, <3>1, <3>2, <3>3
  <2>14. ASSUME NEW s \in DOMAIN tasks, NEW t \in DOMAIN tasks,
                NEW u \in Range(tasks[s]), NEW v \in Range(tasks[t]), u.inputIndex = v.inputIndex
         PROVE  s = t
    <3>1. PICK i \in 1 .. n : keys[i] = keys[order[s]] /\ u = us[i]
      BY <2>7, <2>11
    <3>2. PICK j \in 1 .. n : keys[j] = keys[order[t]] /\ v = us[j]
      BY <2>7, <2>11
    <3>3. i = j
      BY <1>1, <2>14, <3>1, <3>2 DEF Distinct
    <3>4. order[s] \in first /\ order[t] \in first /\ keys[order[s]] = keys[order[t]]
      BY <2>5, <2>7, <3>1, <3>2, <3>3
    <3>5. order[s] = order[t]
      BY <2>3, <3>4, FirstIsOne DEF first
    <3> QED BY <2>5, <2>7, <3>5
  <2> QED BY <1>3, <2>1, <2>10, <2>12, <2>13, <2>14 DEF TasksOf
<1> QED BY <1>2, <1>3

(* A request carries the lines of its updates.                             *)
LEMMA RequestIs ==
  ASSUME NEW ms, IsList(ms), market # "us" => Len(ms) = 1
  PROVE  /\ IsList(DirectRequest(ms))
         /\ \A k \in DOMAIN DirectRequest(ms) : k \in DOMAIN ms /\ DirectRequest(ms)[k] = LineIn(market, ms[k])
         /\ Range(DirectRequest(ms)) = {LineIn(market, u) : u \in Range(ms)}
<1>1. PICK n \in Nat : n = Len(ms) /\ DOMAIN ms = 1 .. n
  BY DEF IsList
<1>2. DirectRequest(ms) = [k \in 1 .. n |-> <<Destination(ms[k]), ms[k].quantity>>]
  BY <1>1 DEF DirectRequest
<1>3. \A k \in 1 .. n : <<Destination(ms[k]), ms[k].quantity>> = LineIn(market, ms[k])
  BY LineIs DEF LineIn
<1>4. DOMAIN DirectRequest(ms) = 1 .. n /\ Len(DirectRequest(ms)) = n
  BY <1>2
<1>5. \A k \in 1 .. n : DirectRequest(ms)[k] = LineIn(market, ms[k])
  BY <1>2, <1>3
<1>6. Range(DirectRequest(ms)) = {LineIn(market, u) : u \in Range(ms)}
  <2>1. \A l : l \in Range(DirectRequest(ms)) <=> \E k \in 1 .. n : l = LineIn(market, ms[k])
    BY <1>4, <1>5 DEF Range
  <2>2. \A u : u \in Range(ms) <=> \E k \in 1 .. n : u = ms[k]
    BY <1>1 DEF Range
  <2> QED BY <2>1, <2>2
<1> QED BY <1>1, <1>4, <1>5, <1>6 DEF IsList

(* So does a chunk of a feed.                                              *)
LEMMA FeedLinesAre ==
  ASSUME NEW us, IsList(us)
  PROVE  /\ IsList(FeedLines(us)) /\ DOMAIN FeedLines(us) = DOMAIN us
         /\ \A k \in DOMAIN us : FeedLines(us)[k] = LineIn(market, us[k])
         /\ Range(FeedLines(us)) = {LineIn(market, u) : u \in Range(us)}
<1>1. PICK n \in Nat : n = Len(us) /\ DOMAIN us = 1 .. n
  BY DEF IsList
<1>2. FeedLines(us) = [k \in 1 .. n |-> <<Destination(us[k]), us[k].quantity>>]
  BY <1>1 DEF FeedLines
<1>3. \A k \in 1 .. n : <<Destination(us[k]), us[k].quantity>> = LineIn(market, us[k])
  BY LineIs DEF LineIn
<1>4. DOMAIN FeedLines(us) = 1 .. n /\ Len(FeedLines(us)) = n
  BY <1>2
<1>5. \A k \in 1 .. n : FeedLines(us)[k] = LineIn(market, us[k])
  BY <1>2, <1>3
<1>6. Range(FeedLines(us)) = {LineIn(market, u) : u \in Range(us)}
  <2>1. \A l : l \in Range(FeedLines(us)) <=> \E k \in 1 .. n : l = LineIn(market, us[k])
    BY <1>4, <1>5 DEF Range
  <2>2. \A u : u \in Range(us) <=> \E k \in 1 .. n : u = us[k]
    BY <1>1 DEF Range
  <2> QED BY <2>1, <2>2
<1> QED BY <1>1, <1>4, <1>5, <1>6 DEF IsList

(* What is stored afterwards was stored before, or is on a line.           *)
LEMMA StoredIs ==
  ASSUME NEW lines, IsList(lines)
  PROVE  /\ \A d : d \in DOMAIN Stored(lines) <=> d \in DOMAIN stock \/ \E k \in DOMAIN lines : lines[k][1] = d
         /\ \A d \in DOMAIN Stored(lines) :
              \/ d \in DOMAIN stock /\ Stored(lines)[d] = stock[d]
              \/ \E k \in DOMAIN lines : lines[k][1] = d /\ Stored(lines)[d] = lines[k][2]
<1>1. PICK n \in Nat : n = Len(lines) /\ DOMAIN lines = 1 .. n
  BY DEF IsList
<1> DEFINE places == [k \in 1 .. n |-> lines[k][1]]
<1>2. Stored(lines) = [d \in DOMAIN stock \cup Range(places) |->
                        IF d \in Range(places) THEN lines[LastPlace(places, d)][2] ELSE stock[d]]
  BY <1>1 DEF Stored
<1>3. DOMAIN places = 1 .. n /\ Len(places) = n /\ \A k \in 1 .. n : places[k] = lines[k][1]
  OBVIOUS
<1> HIDE DEF places
<1>4. IsList(places)
  BY <1>3 DEF IsList
<1>5. \A d : d \in Range(places) <=> \E k \in 1 .. n : lines[k][1] = d
  BY <1>3 DEF Range
<1>6. ASSUME NEW d \in Range(places)
      PROVE  LastPlace(places, d) \in 1 .. n /\ lines[LastPlace(places, d)][1] = d
  <2>1. PICK k \in 1 .. n : places[k] = d
    BY <1>3, <1>5
  <2> QED BY <1>3, <1>4, <2>1, LastPlaceIs
<1>7. DOMAIN Stored(lines) = DOMAIN stock \cup Range(places)
  BY <1>2
<1>8. ASSUME NEW d \in DOMAIN Stored(lines)
      PROVE  \/ d \in DOMAIN stock /\ Stored(lines)[d] = stock[d]
             \/ \E k \in 1 .. n : lines[k][1] = d /\ Stored(lines)[d] = lines[k][2]
  <2>1. CASE d \in Range(places)
    BY <1>2, <1>6, <1>7, <2>1
  <2>2. CASE d \notin Range(places)
    BY <1>2, <1>7, <2>2
  <2> QED BY <2>1, <2>2
<1> QED BY <1>1, <1>5, <1>7, <1>8

-----------------------------------------------------------------------------
(* The plan.                                                               *)
LEMMA PlanSplits ==
  ASSUME NEW kept, Distinct(kept), NEW strategy, Decision(kept, strategy).resolved # "refused"
  PROVE  LET plan == Decision(kept, strategy) IN
         /\ plan.updates = kept /\ SplitOf(kept, plan.direct, plan.feed)
         /\ plan.plannedFeedCount = FeedChunkCount(Len(plan.feed))
<1> DEFINE fed == {k \in DOMAIN kept : IsSellerPartNumber(kept[k])}
           other == DOMAIN kept \ fed
           plan == Decision(kept, strategy)
<1>1. Distinct(<<>>) /\ Range(<<>>) = {}
  BY DEF Distinct, IsList, Range
<1>2. \A v : v \in Range(kept) <=> \E k \in DOMAIN kept : v = kept[k]
  BY DEF Range
<1>3. CASE strategy = "feed"
  <2>1. /\ other = {} /\ plan.updates = kept /\ plan.direct = <<>> /\ plan.feed = kept
        /\ plan.plannedFeedCount = FeedChunkCount(Len(kept))
    BY <1>3 DEF Decision
  <2>2. \A v \in Range(kept) : IsSellerPartNumber(v)
    BY <1>2, <2>1
  <2> HIDE DEF plan
  <2> QED BY <1>1, <2>1, <2>2 DEF SplitOf, plan
<1>4. CASE strategy # "feed" /\ (strategy = "direct" \/ Len(kept) <= autoFeedThreshold)
  <2>1. /\ plan.updates = kept /\ plan.direct = kept /\ plan.feed = <<>>
        /\ plan.plannedFeedCount = FeedChunkCount(Len(<<>>))
    BY <1>4 DEF Decision
  <2> HIDE DEF plan
  <2> QED BY <1>1, <2>1 DEF SplitOf, plan
<1>5. CASE strategy # "feed" /\ ~(strategy = "direct" \/ Len(kept) <= autoFeedThreshold)
  <2>1. /\ plan.updates = kept /\ plan.direct = AtPlaces(kept, other) /\ plan.feed = AtPlaces(kept, fed)
        /\ plan.plannedFeedCount = FeedChunkCount(Len(AtPlaces(kept, fed)))
    BY <1>5 DEF Decision
  <2>2. SplitOf(kept, AtPlaces(kept, other), AtPlaces(kept, fed))
    BY FilteredSplit
  <2> HIDE DEF plan, fed, other
  <2> QED BY <2>1, <2>2 DEF plan
<1> QED BY <1>3, <1>4, <1>5

(* A list that asks for the same is planned alike.                         *)
LEMMA PlannedAlike ==
  ASSUME NEW us, IsList(us), NEW vs, IsList(vs), DOMAIN vs = DOMAIN us,
         \A k \in DOMAIN us : Alike(vs[k], us[k]), NEW strategy
  PROVE  /\ Decision(vs, strategy).resolved = Decision(us, strategy).resolved
         /\ Decision(vs, strategy).plannedFeedCount = Decision(us, strategy).plannedFeedCount
<1> DEFINE fed(s) == {k \in DOMAIN s : IsSellerPartNumber(s[k])}
           other(s) == DOMAIN s \ fed(s)
<1>1. PICK n \in Nat : DOMAIN us = 1 .. n /\ n = Len(us) /\ DOMAIN vs = 1 .. n /\ Len(vs) = n
  BY SameLength DEF IsList
<1>2. fed(vs) = fed(us) /\ other(vs) = other(us)
  BY AlikeMeet
<1>3. Len(AtPlaces(vs, fed(us))) = Len(AtPlaces(us, fed(us)))
  <2>1. fed(us) \in SUBSET (1 .. n)
    BY <1>1
  <2> HIDE DEF fed
  <2>2. IsFiniteSet(1 .. n)
    BY FS_Interval
  <2>3. PICK c \in Nat : c = Cardinality(fed(us))
    BY <2>1, <2>2, FS_Subset, FS_CardinalityType
  <2>4. AtPlaces(vs, fed(us)) = [k \in 1 .. c |-> vs[InOrder(fed(us))[k]]]
        /\ AtPlaces(us, fed(us)) = [k \in 1 .. c |-> us[InOrder(fed(us))[k]]]
    BY <2>3 DEF AtPlaces
  <2>5. Len(AtPlaces(vs, fed(us))) = c /\ Len(AtPlaces(us, fed(us))) = c
    BY <2>4
  <2> QED BY <2>5
<1> HIDE DEF fed, other
<1>4. CASE strategy = "feed"
  BY <1>1, <1>2, <1>4 DEF Decision, fed, other
<1>5. CASE strategy # "feed" /\ (strategy = "direct" \/ Len(us) <= autoFeedThreshold)
  BY <1>1, <1>5 DEF Decision
<1>6. CASE strategy # "feed" /\ ~(strategy = "direct" \/ Len(us) <= autoFeedThreshold)
  <2>1. ASSUME NEW s, Len(s) = Len(us)
        PROVE  /\ Decision(s, strategy).resolved =
                    IF fed(s) = {} THEN "direct" ELSE IF other(s) = {} THEN "feed" ELSE "mixed"
               /\ Decision(s, strategy).plannedFeedCount = FeedChunkCount(Len(AtPlaces(s, fed(s))))
    BY <1>6, <2>1 DEF Decision, fed, other
  <2> QED BY <1>1, <1>2, <1>3, <2>1
<1> QED BY <1>4, <1>5, <1>6

-----------------------------------------------------------------------------
(* The report of a feed.                                                   *)
FeedItem(m, u) == u.type = "sellerPartNumber" /\ (m = "us" => u.warehouse # None)

(* What is known of feed items, by the line each has in the feed.          *)
LEMMA LinesMeet ==
  ASSUME NEW u, NEW v, FeedItem(market, u), FeedItem(market, v), v.value = u.value,
         market = "us" => v.warehouse = u.warehouse
  PROVE  DestinationIn(market, v) = DestinationIn(market, u)
BY DEF FeedItem, DestinationIn

RecordOf(line, messages, named) ==
  [sellerPartNumber |-> line[1][2], messages |-> messages,
   warehouse |-> IF named /\ market = "us" THEN line[1][4] ELSE None]

(* The record of a line is about its item, and, where it names the         *)
(* warehouse, about no item of another destination.                        *)
LEMMA RecordIs ==
  ASSUME NEW u, FeedItem(market, u), NEW messages, NEW named \in BOOLEAN
  PROVE  LET r == RecordOf(LineIn(market, u), messages, named) IN
         /\ About(r, u) /\ r.messages = messages /\ r.sellerPartNumber = u.value
         /\ \A v : FeedItem(market, v) /\ About(r, v) => v.value = u.value
         /\ ~named => r.warehouse = None
         /\ named \/ market # "us" => \A v : FeedItem(market, v) /\ About(r, v) => DestinationIn(market, v) = DestinationIn(market, u)
<1> DEFINE r == RecordOf(LineIn(market, u), messages, named)
<1>1. r.sellerPartNumber = u.value /\ r.messages = messages
  BY DEF RecordOf, LineIn, DestinationIn, FeedItem
<1>2. r.warehouse = IF named /\ market = "us" THEN u.warehouse ELSE None
  BY DEF RecordOf, LineIn, DestinationIn, FeedItem
<1> HIDE DEF r
<1>3. About(r, u)
  BY <1>1, <1>2 DEF About
<1>4. ASSUME NEW v, FeedItem(market, v), About(r, v) PROVE v.value = u.value
  BY <1>1, <1>4 DEF About
<1>5. ASSUME named \/ market # "us", NEW v, FeedItem(market, v), About(r, v)
      PROVE  DestinationIn(market, v) = DestinationIn(market, u)
  <2>1. market = "us" => v.warehouse = u.warehouse
    BY <1>2, <1>5 DEF About, FeedItem
  <2> QED BY <1>4, <1>5, <2>1, LinesMeet
<1> QED BY <1>1, <1>2, <1>3, <1>4, <1>5 DEF r

Reports(lines, said, named) ==
  AtPlaces([k \in DOMAIN lines |-> RecordOf(lines[k], said[k], named)], {k \in DOMAIN lines : said[k] # {}})

(* An item that a report does not say has failed is on a line that has     *)
(* been taken, unless a later record, which does not name its warehouse,   *)
(* warns.                                                                  *)
LEMMA FoldIs ==
  ASSUME NEW lines, IsList(lines),
         \A k \in DOMAIN lines : \E v : FeedItem(market, v) /\ lines[k] = LineIn(market, v),
         NEW said \in [DOMAIN lines -> {{}, {"Error"}, {"Note"}}], NEW named \in BOOLEAN,
         NEW records, records = Reports(lines, said, named),
         NEW u, FeedItem(market, u), LineIn(market, u) \in Range(lines),
         FoldedResult(u, records) \in {"succeeded", "warning"}
  PROVE  \/ \E k \in DOMAIN lines : "Error" \notin said[k] /\ lines[k][1] = DestinationIn(market, u)
         \/ FoldedResult(u, records) = "warning" /\ market = "us" /\ WarnedOver(records, u.value)
<1>1. PICK n \in Nat : DOMAIN lines = 1 .. n
  BY DEF IsList
<1>2. PICK i \in 1 .. n : lines[i] = LineIn(market, u)
  BY <1>1 DEF Range
<1>3. CASE said[i] # {"Error"}
  <2>1. "Error" \notin said[i]
    BY <1>1, <1>3
  <2>2. lines[i][1] = DestinationIn(market, u)
    BY <1>2 DEF LineIn
  <2> QED BY <1>1, <2>1, <2>2
<1>4. CASE said[i] = {"Error"}
  <2> DEFINE all == [k \in DOMAIN lines |-> RecordOf(lines[k], said[k], named)]
             S == {k \in 1 .. n : said[k] # {}}
             place == InOrder(S)
             about == [p \in DOMAIN records |-> About(records[p], u)]
  <2>1. S \in SUBSET (1 .. n) /\ i \in S /\ records = AtPlaces(all, S)
    BY <1>1, <1>4 DEF Reports
  <2>2. \A k \in S : said[k] = {"Error"} \/ said[k] = {"Note"}
    BY <1>1
  <2>3. \A k \in S : all[k] = RecordOf(lines[k], said[k], named)
    BY <1>1
  <2> HIDE DEF all, S
  <2>4. /\ IsList(records)
        /\ \A p \in DOMAIN records : place[p] \in S /\ records[p] = all[place[p]]
    <3>1. /\ IsList(AtPlaces(all, S))
          /\ \A p \in DOMAIN AtPlaces(all, S) :
               InOrder(S)[p] \in S /\ AtPlaces(all, S)[p] = all[InOrder(S)[p]]
      BY <2>1, AtPlacesAre
    <3> QED BY <2>1, <3>1
  <2>5. PICK p \in DOMAIN records : place[p] = i /\ records[p] = all[i]
    <3>1. S \in SUBSET (1 .. n) /\ i \in S
      BY <2>1
    <3>2. \A x \in S : \E p \in DOMAIN AtPlaces(all, S) : InOrder(S)[p] = x /\ AtPlaces(all, S)[p] = all[x]
      BY <3>1, AtPlacesReach
    <3> QED BY <2>1, <3>1, <3>2
  <2> HIDE DEF place
  <2>6. About(records[p], u) /\ records[p].messages = {"Error"} /\ records[p].sellerPartNumber = u.value
    <3>1. records[p] = RecordOf(LineIn(market, u), {"Error"}, named)
      BY <1>2, <1>4, <2>1, <2>3, <2>5
    <3> QED BY <3>1, RecordIs
  <2>7. DOMAIN about = DOMAIN records /\ Len(about) = Len(records)
    BY <2>4 DEF IsList
  <2>8. about[p] = TRUE
    BY <2>6
  <2>9. \A q \in DOMAIN records : about[q] = TRUE => About(records[q], u)
    OBVIOUS
  <2>10. FoldedResult(u, records) =
           IF TRUE \notin Range(about) THEN "succeeded" ELSE RecordStatus(records[LastPlace(about, TRUE)].messages)
    BY DEF FoldedResult
  <2> HIDE DEF about
  <2>11. TRUE \in Range(about)
    BY <2>7, <2>8 DEF Range
  <2>12. LastPlace(about, TRUE) \in DOMAIN records /\ about[LastPlace(about, TRUE)] = TRUE
         /\ p <= LastPlace(about, TRUE)
    <3>1. IsList(about)
      BY <2>4, <2>7 DEF IsList
    <3> QED BY <2>7, <2>8, <3>1, LastPlaceIs
  <2>13. PICK q \in DOMAIN records : q = LastPlace(about, TRUE) /\ About(records[q], u) /\ p <= q
    BY <2>9, <2>12
  <2>14. RecordStatus(records[q].messages) \in {"succeeded", "warning"}
    BY <2>10, <2>11, <2>13
  <2>15. PICK k \in 1 .. n : k = place[q] /\ k \in S /\ records[q] = RecordOf(lines[k], said[k], named)
    BY <2>1, <2>3, <2>4
  <2>16. PICK v : FeedItem(market, v) /\ lines[k] = LineIn(market, v)
    BY <1>1
  <2>17. records[q].messages = said[k]
    BY <2>15, <2>16, RecordIs
  <2>18. said[k] = {"Note"}
    <3> SUFFICES ASSUME said[k] = {"Error"} PROVE FALSE
      BY <2>2, <2>15
    <3>1. RecordStatus({"Error"}) = "failed"
      BY DEF RecordStatus
    <3> QED BY <2>14, <2>17, <3>1
  <2>19. CASE named \/ market # "us"
    <3>1. \A w : FeedItem(market, w) /\ About(RecordOf(LineIn(market, v), said[k], named), w)
                  => DestinationIn(market, w) = DestinationIn(market, v)
      BY <2>16, <2>19, RecordIs
    <3>2. About(RecordOf(LineIn(market, v), said[k], named), u)
      BY <2>13, <2>15, <2>16
    <3>3. DestinationIn(market, v) = DestinationIn(market, u)
      BY <3>1, <3>2
    <3>4. lines[k][1] = DestinationIn(market, u) /\ "Error" \notin said[k]
      BY <2>16, <2>18, <3>3 DEF LineIn
    <3> QED BY <1>1, <3>4
  <2>20. CASE ~named /\ market = "us"
    <3>1. records[q].messages = {"Note"} /\ records[q].warehouse = None
      BY <2>15, <2>16, <2>17, <2>18, <2>20, RecordIs
    <3>2. records[q].sellerPartNumber = u.value
      BY <2>13 DEF About
    <3>3. p # q
      BY <2>6, <3>1
    <3>4. p < q
      <4>1. PICK m \in Nat : DOMAIN records = 1 .. m
        BY <2>4 DEF IsList
      <4>2. p \in Int /\ q \in Int
        BY <4>1
      <4>3. p <= q /\ p # q
        BY <2>13, <3>3
      <4> QED BY <4>2, <4>3
    <3>5. {records[p].sellerPartNumber, records[q].sellerPartNumber} = {u.value}
      BY <2>6, <3>2
    <3>6. "Error" \in records[p].messages /\ "Note" \in records[q].messages
      BY <2>6, <3>1
    <3>7. WarnedOver(records, u.value)
      BY <3>1, <3>4, <3>5, <3>6 DEF WarnedOver
    <3>8. RecordStatus({"Note"}) = "warning"
      BY DEF RecordStatus
    <3>9. FoldedResult(u, records) = "warning"
      BY <2>10, <2>11, <2>13, <3>1, <3>8
    <3> QED BY <2>20, <3>7, <3>9
  <2> QED BY <2>19, <2>20
<1> QED BY <1>3, <1>4

-----------------------------------------------------------------------------
(* The invariant. *)

CallFields == {"phase", "via", "wait", "workers", "count", "resolved", "dropped", "tasks", "next", "feed", "outcomes"}
Active == icall.phase \in {"direct", "wait", "done"}
Indexes == (0 .. icall.count - 1) \ icall.dropped

(* Nothing happens before there is a call.                                 *)
CallInv ==
  /\ icall = Idle => jobs = <<>> /\ inFlight = {} /\ written = {}
  /\ Active => /\ DOMAIN icall = CallFields
               /\ icall.count \in Nat /\ icall.dropped \subseteq 0 .. icall.count - 1
  /\ icall.phase # "direct" => inFlight = {}

(* The stored list has no repetitions and is planned again as it was.      *)
PreviewInv ==
  ipreview # NoPreview =>
    /\ IsList(ipreview.updates)
    /\ \A i, j \in DOMAIN ipreview.updates :
         DedupKey(ipreview.updates[i]) = DedupKey(ipreview.updates[j]) => i = j
    /\ Planned(ipreview.updates, ipreview.strategy).resolved = ipreview.resolved
    /\ Planned(ipreview.updates, ipreview.strategy).plannedFeedCount = ipreview.plannedFeedCount
    /\ \A u \in Range(ipreview.updates) : allowZeroQuantity \/ u.quantity > 0

(* While there are direct requests: every update that was not dropped is   *)
(* in one task or in the feed.                                             *)
TaskInv ==
  icall.phase = "direct" =>
    /\ IsList(icall.tasks)
    /\ \A t \in DOMAIN icall.tasks : IsList(icall.tasks[t]) /\ (market # "us" => Len(icall.tasks[t]) = 1)
    /\ \A s, t \in DOMAIN icall.tasks : \A u \in Range(icall.tasks[s]), v \in Range(icall.tasks[t]) :
         u.inputIndex = v.inputIndex => s = t /\ u = v
    /\ \A t \in DOMAIN icall.tasks : \A u \in Range(icall.tasks[t]), v \in Range(icall.feed) :
         u.inputIndex # v.inputIndex
    /\ \A t \in DOMAIN icall.tasks : \A u \in Range(icall.tasks[t]) : u.inputIndex \in Indexes
    /\ \A u \in Range(icall.feed) : u.inputIndex \in Indexes
    /\ \A x \in Indexes : \/ \E t \in DOMAIN icall.tasks : \E u \in Range(icall.tasks[t]) : u.inputIndex = x
                          \/ \E u \in Range(icall.feed) : u.inputIndex = x
    /\ icall.next \in 1 .. Len(icall.tasks) + 1
    /\ inFlight \subseteq 1 .. icall.next - 1

(* The outcomes so far are those of the requests that have ended; in the   *)
(* end there is one for every update.                                      *)
OutcomeOf(o, u) ==
  o.inputIndex = u.inputIndex /\ o.destination = DestinationIn(market, u) /\ o.quantity = u.quantity

AnswerInv ==
  /\ Active => \A o, p \in icall.outcomes : o.inputIndex = p.inputIndex => o = p
  /\ icall.phase = "direct" =>
       /\ \A o \in icall.outcomes :
            \E t \in 1 .. icall.next - 1 : t \notin inFlight /\ \E u \in Range(icall.tasks[t]) : OutcomeOf(o, u)
       /\ \A t \in 1 .. icall.next - 1 : t \notin inFlight =>
            \A u \in Range(icall.tasks[t]) : \E o \in icall.outcomes : o.inputIndex = u.inputIndex
  /\ icall.phase \in {"wait", "done"} =>
       /\ \A o \in icall.outcomes : o.inputIndex \in Indexes
       /\ \A x \in Indexes : \E o \in icall.outcomes : o.inputIndex = x

(* The feeds so far are the first chunks.                                  *)
FeedInv ==
  Active =>
    /\ Distinct(icall.feed) /\ \A u \in Range(icall.feed) : FeedItem(market, u) /\ u.inputIndex \in Indexes
    /\ Len(jobs) <= Len(FeedChunks(icall.feed))
    /\ icall.phase \in {"wait", "done"} => Len(jobs) = Len(FeedChunks(icall.feed))
    /\ icall.phase = "wait" => icall.next \in 1 .. Len(jobs)
    /\ \A c \in DOMAIN jobs : Range(jobs[c].lines) = {LineIn(market, u) : u \in Range(FeedChunks(icall.feed)[c])}

(* What was sent.                                                          *)
SentInv ==
  icall.phase = "direct" =>
    /\ \A t \in 1 .. icall.next - 1 : \A u \in Range(icall.tasks[t]) : LineIn(market, u) \in written
    /\ \A l \in written : \/ \E t \in DOMAIN icall.tasks : \E u \in Range(icall.tasks[t]) : l = LineIn(market, u)
                          \/ \E u \in Range(icall.feed) : l = LineIn(market, u)

(* A call of the tool carries out its preview.                             *)
ToolInv ==
  Active /\ icall.via = "tool" =>
    /\ ipreview # NoPreview /\ icall.resolved = ipreview.resolved
    /\ ipreview.plannedFeedCount = FeedChunkCount(Len(icall.feed))
    /\ icall.phase = "direct" =>
         /\ \A u \in Range(ipreview.updates) :
              \/ \E t \in DOMAIN icall.tasks : \E v \in Range(icall.tasks[t]) : LineIn(market, v) = LineIn(market, u)
              \/ \E v \in Range(icall.feed) : LineIn(market, v) = LineIn(market, u)
         /\ \A t \in DOMAIN icall.tasks : \A v \in Range(icall.tasks[t]) :
              \E u \in Range(ipreview.updates) : LineIn(market, v) = LineIn(market, u)
         /\ \A v \in Range(icall.feed) : \E u \in Range(ipreview.updates) : LineIn(market, v) = LineIn(market, u)
    /\ icall.phase \in {"wait", "done"} => written = {LineIn(market, u) : u \in Range(ipreview.updates)}

(* What a report says is known without looking at the marketplace.         *)
FoldIn(m, u, records) ==
  LET about == [k \in DOMAIN records |->
                 /\ u.value = records[k].sellerPartNumber
                 /\ m = "us" /\ records[k].warehouse # None => u.warehouse = records[k].warehouse]
  IN IF TRUE \notin Range(about) THEN "succeeded" ELSE RecordStatus(records[LastPlace(about, TRUE)].messages)

(* The model's operator says the same of the marketplace there is.         *)
LEMMA FoldedResultIs ==
  ASSUME NEW u, NEW records
  PROVE  FoldedResult(u, records) = FoldIn(market, u, records)
<1> DEFINE here == [k \in DOMAIN records |-> About(records[k], u)]
           there == [k \in DOMAIN records |->
                      /\ u.value = records[k].sellerPartNumber
                      /\ market = "us" /\ records[k].warehouse # None => u.warehouse = records[k].warehouse]
<1>1. here = there
  BY Zenon DEF About
<1>2. FoldedResult(u, records) =
        IF TRUE \notin Range(here) THEN "succeeded" ELSE RecordStatus(records[LastPlace(here, TRUE)].messages)
  BY DEF FoldedResult
<1>3. FoldIn(market, u, records) =
        IF TRUE \notin Range(there) THEN "succeeded" ELSE RecordStatus(records[LastPlace(there, TRUE)].messages)
  BY DEF FoldIn
<1> HIDE DEF here, there
<1> QED BY <1>1, <1>2, <1>3

(* A report that warns of u over the failure of its line.                  *)
MayWarn(m, u, records) == FoldIn(m, u, records) = "warning" /\ m = "us" /\ WarnedOver(records, u.value)

(* A write of d was accepted.                                              *)
Reached(d) == d \in DOMAIN stock \/ d \in ignored

(* Newegg holds nothing that was not sent; a feed that is finished holds   *)
(* the lines its report does not fail, but for items that are deactivated. *)
StoreInv ==
  /\ IsFiniteSet(written)
  /\ \A d \in DOMAIN stock : <<d, stock[d]>> \in written
  /\ IsList(jobs) /\ jobs \in Seq(Range(jobs))
  /\ \A j \in DOMAIN jobs :
       /\ DOMAIN jobs[j] = {"status", "lines", "records"}
       /\ IsList(jobs[j].lines) /\ Range(jobs[j].lines) \subseteq written
       /\ \A k \in DOMAIN jobs[j].lines : \E v : FeedItem(market, v) /\ jobs[j].lines[k] = LineIn(market, v)
       /\ jobs[j].status = "FINISHED" =>
            \A u : /\ FeedItem(market, u) /\ LineIn(market, u) \in Range(jobs[j].lines)
                   /\ FoldIn(market, u, jobs[j].records) \in {"succeeded", "warning"}
                   => \/ Reached(DestinationIn(market, u))
                      \/ MayWarn(market, u, jobs[j].records)

(* What is reported to be stored was sent, and was accepted, unless a      *)
(* report warned of it over its failure.                                   *)
Backed(o) == Reached(o.destination) \/ (o.status = "warning" /\ ReadsAlike(o.destination))

TruthInv ==
  Active => \A o \in icall.outcomes : o.status \in {"succeeded", "warning"} =>
              Backed(o) /\ <<o.destination, o.quantity>> \in written

InventoryInv ==
  /\ CallInv /\ PreviewInv /\ TaskInv /\ AnswerInv /\ FeedInv /\ SentInv /\ ToolInv /\ StoreInv /\ TruthInv

(* Initially.                                                              *)
LEMMA InventoryInitHolds == InventoryInit => InventoryInv
<1> SUFFICES ASSUME InventoryInit PROVE InventoryInv
  OBVIOUS
<1>1. /\ icall = Idle /\ icall.phase = "idle" /\ ipreview = NoPreview
      /\ stock = <<>> /\ written = {} /\ inFlight = {} /\ jobs = <<>>
  BY DEF InventoryInit, Idle
<1>2. DOMAIN stock = {} /\ DOMAIN jobs = {} /\ Len(jobs) = 0 /\ DOMAIN jobs = 1 .. 0
  BY <1>1
<1>3. IsFiniteSet(written)
  BY <1>1, FS_EmptySet
<1>4. StoreInv
  <2>1. jobs \in Seq(Range(jobs))
    BY <1>1
  <2> QED BY <1>1, <1>2, <1>3, <2>1 DEF StoreInv, IsList
<1>5. ~Active
  BY <1>1 DEF Active
<1> QED BY <1>1, <1>4, <1>5 DEF InventoryInv, CallInv, PreviewInv, TaskInv, AnswerInv, FeedInv, SentInv, ToolInv, TruthInv

(* When the call is over with an exception, only what was sent and what is *)
(* stored matter.                                                          *)
LEMMA ThrownHolds ==
  ASSUME icall'.phase = "thrown", inFlight' = {}, PreviewInv', StoreInv'
  PROVE  InventoryInv'
<1>1. icall' # Idle
  BY DEF Idle
<1>2. ~Active'
  BY DEF Active
<1> QED BY <1>1, <1>2 DEF InventoryInv, CallInv, TaskInv, AnswerInv, FeedInv, SentInv, ToolInv, TruthInv

-----------------------------------------------------------------------------
(* What a step leaves alone stays true.                                    *)
LEMMA StoreStays ==
  ASSUME StoreInv, UNCHANGED <<market, stock, ignored, written, jobs>>
  PROVE  StoreInv'
BY DEF StoreInv, Reached

(* What was accepted, and what a finished feed reported, stays.            *)
LEMMA BackedStays ==
  ASSUME market' = market, DOMAIN stock \subseteq DOMAIN stock', ignored \subseteq ignored',
         \A j \in DOMAIN jobs : j \in DOMAIN jobs' /\ (jobs[j].status = "FINISHED" => jobs'[j] = jobs[j])
  PROVE  \A o : Backed(o) => Backed(o)'
<1> SUFFICES ASSUME NEW o, Backed(o) PROVE Backed(o)'
  OBVIOUS
<1>1. CASE Reached(o.destination)
  BY <1>1 DEF Backed, Reached
<1>2. CASE o.status = "warning" /\ ReadsAlike(o.destination)
  <2>1. PICK j \in DOMAIN jobs : jobs[j].status = "FINISHED" /\ WarnedOver(jobs[j].records, o.destination[2])
    BY <1>2 DEF ReadsAlike
  <2>2. j \in DOMAIN jobs' /\ jobs'[j] = jobs[j]
    BY <2>1
  <2>3. jobs'[j].status = "FINISHED" /\ WarnedOver(jobs'[j].records, o.destination[2])
    BY <2>1, <2>2
  <2> QED BY <1>2, <2>2, <2>3 DEF Backed, ReadsAlike
<1> QED BY <1>1, <1>2 DEF Backed

(* A preview that stays is carried out as before.                          *)
LEMMA PreviewStays ==
  ASSUME PreviewInv, UNCHANGED ipreview
  PROVE  PreviewInv'
BY DEF PreviewInv

(* Updates that ask for the same have the same line.                       *)
LEMMA AlikeLines ==
  ASSUME NEW m, NEW u, NEW v, Alike(u, v)
  PROVE  LineIn(m, u) = LineIn(m, v) /\ (FeedItem(m, u) <=> FeedItem(m, v))
BY DEF Alike, LineIn, DestinationIn, FeedItem

(* A preview stores a list without repetitions.                            *)
LEMMA PreviewHolds ==
  ASSUME InventoryAssumption, InventoryInv, NEW us, IsList(us), NEW strategy, PreviewInventory(us, strategy)
  PROVE  InventoryInv'
<1> DEFINE kept == Deduped(Normalized(us))
           again == Deduped(Normalized(kept))
           plan == Decision(kept, strategy)
<1>1. /\ UNCHANGED <<market, icall, stock, ignored, written, inFlight, jobs>> /\ icall = Idle
      /\ PolicyAllows(us) /\ plan.resolved # "refused"
      /\ ipreview' = [resolved |-> plan.resolved, plannedFeedCount |-> plan.plannedFeedCount,
                      strategy |-> strategy, updates |-> plan.updates]
  BY DEF PreviewInventory, Planned
<1>2. /\ Distinct(kept)
      /\ \A k \in DOMAIN kept : \E i \in DOMAIN us : Alike(kept[k], us[i]) /\ kept[k].inputIndex = i - 1
      /\ \A j, k \in DOMAIN kept : DedupKey(kept[j]) = DedupKey(kept[k]) => j = k
  BY DedupedUpdates
<1>3. IsList(kept)
  BY <1>2 DEF Distinct
<1> HIDE DEF kept
<1>4. DOMAIN again = DOMAIN kept /\ \A k \in DOMAIN kept : Alike(again[k], kept[k])
  BY <1>2, <1>3, DedupedAgain
<1>5. IsList(again)
  <2>1. IsList(Normalized(kept))
    BY <1>3, NormalizedAre
  <2> QED BY <1>3, DedupedUpdates DEF Distinct
<1>6. plan.updates = kept
  BY <1>1, <1>2, PlanSplits
<1>7. /\ Planned(kept, strategy).resolved = plan.resolved
      /\ Planned(kept, strategy).plannedFeedCount = plan.plannedFeedCount
  <2>1. Planned(kept, strategy) = Decision(again, strategy)
    BY DEF Planned
  <2> HIDE DEF again
  <2> QED BY <1>3, <1>4, <1>5, <2>1, PlannedAlike
<1>8. ASSUME NEW u \in Range(kept) PROVE allowZeroQuantity \/ u.quantity > 0
  <2>1. PICK k \in DOMAIN kept : u = kept[k]
    BY DEF Range
  <2>2. PICK i \in DOMAIN us : Alike(u, us[i])
    BY <1>2, <2>1
  <2> QED BY <1>1, <2>2 DEF PolicyAllows, Alike
<1> HIDE DEF plan
<1>9. /\ ipreview'.resolved = plan.resolved /\ ipreview'.plannedFeedCount = plan.plannedFeedCount
      /\ ipreview'.strategy = strategy /\ ipreview'.updates = kept
  BY <1>1, <1>6
<1>10. PreviewInv'
  BY <1>2, <1>3, <1>7, <1>8, <1>9 DEF PreviewInv
<1>11. StoreInv'
  BY <1>1, StoreStays DEF InventoryInv
<1>12. icall'.phase = "idle" /\ ~Active'
  BY <1>1 DEF Active, Idle
<1>13. CallInv'
  BY <1>1, <1>12 DEF InventoryInv, CallInv
<1> QED BY <1>10, <1>11, <1>12, <1>13
        DEF InventoryInv, TaskInv, AnswerInv, FeedInv, SentInv, ToolInv, TruthInv

(* The indexes of the kept updates are those that were not dropped.        *)
LEMMA IndexesKept ==
  ASSUME NEW us, IsList(us)
  PROVE  LET kept == Deduped(Normalized(us))
             dropped == Dropped(Normalized(us), kept) IN
         /\ dropped \subseteq 0 .. Len(us) - 1
         /\ (0 .. Len(us) - 1) \ dropped = {u.inputIndex : u \in Range(kept)}
<1> DEFINE ns == Normalized(us)
           kept == Deduped(ns)
           dropped == Dropped(ns, kept)
<1>1. PICK n \in Nat : n = Len(us) /\ DOMAIN us = 1 .. n
  BY DEF IsList
<1>2. DOMAIN ns = 1 .. n /\ \A i \in 1 .. n : ns[i].inputIndex = i - 1
  BY <1>1, NormalizedAre
<1>3. \A k \in DOMAIN kept : \E i \in 1 .. n : kept[k].inputIndex = i - 1
  BY <1>1, DedupedUpdates
<1> HIDE DEF ns, kept
<1>4. {ns[i].inputIndex : i \in DOMAIN ns} = 0 .. n - 1
  <2>1. \A i \in 1 .. n : ns[i].inputIndex \in 0 .. n - 1
    BY <1>2
  <2>2. ASSUME NEW x \in 0 .. n - 1 PROVE \E i \in DOMAIN ns : ns[i].inputIndex = x
    <3>1. x + 1 \in 1 .. n /\ (x + 1) - 1 = x
      OBVIOUS
    <3> QED BY <1>2, <3>1
  <2>3. \A x : x \in {ns[i].inputIndex : i \in DOMAIN ns} <=> \E i \in DOMAIN ns : ns[i].inputIndex = x
    OBVIOUS
  <2>4. \A x : x \in {ns[i].inputIndex : i \in DOMAIN ns} <=> x \in 0 .. n - 1
    BY <1>2, <2>1, <2>2, <2>3
  <2> QED BY <2>4
<1>5. {kept[k].inputIndex : k \in DOMAIN kept} \subseteq 0 .. n - 1
  BY <1>3
<1>6. {u.inputIndex : u \in Range(kept)} = {kept[k].inputIndex : k \in DOMAIN kept}
  BY DEF Range
<1>7. dropped = (0 .. n - 1) \ {kept[k].inputIndex : k \in DOMAIN kept}
  BY <1>4 DEF Dropped
<1> HIDE DEF dropped
<1>8. dropped \subseteq 0 .. n - 1 /\ (0 .. n - 1) \ dropped = {u.inputIndex : u \in Range(kept)}
  BY <1>5, <1>6, <1>7
<1> QED BY <1>1, <1>8 DEF dropped, kept, ns

(* A call that begins has its tasks and its feed before it.                *)
LEMMA ExecuteHolds ==
  ASSUME InventoryAssumption, InventoryInv, icall = Idle, UNCHANGED <<market, ipreview, stock, ignored, written, inFlight, jobs>>,
         NEW us, IsList(us), NEW strategy, NEW via, NEW wait, NEW workers,
         ExecuteUpdate(us, strategy, via, wait, workers),
         via = "tool" => ipreview # NoPreview /\ us = ipreview.updates /\ strategy = ipreview.strategy
  PROVE  InventoryInv'
<1> DEFINE kept == Deduped(Normalized(us))
           plan == Decision(kept, strategy)
           tasks == DirectTasks(plan.direct)
           dropped == Dropped(Normalized(us), kept)
<1>1. PreviewInv' /\ StoreInv' /\ jobs' = <<>> /\ inFlight' = {} /\ written' = {} /\ market' = market
  BY StoreStays, PreviewStays DEF InventoryInv, CallInv
<1>2. CASE ~ValidUpdates(us) \/ plan.resolved = "refused"
  <2>1. icall'.phase = "thrown"
    BY <1>2 DEF ExecuteUpdate, Planned
  <2> QED BY <1>1, <2>1, ThrownHolds
<1>3. CASE ValidUpdates(us) /\ plan.resolved # "refused"
  <2>1. icall' = [phase |-> "direct", via |-> via, wait |-> wait, workers |-> workers,
                  count |-> Len(us), resolved |-> plan.resolved, dropped |-> dropped, tasks |-> tasks,
                  next |-> 1, feed |-> plan.feed, outcomes |-> {}]
    <3>1. plan.updates = kept
      BY <1>3, DedupedUpdates, PlanSplits
    <3> HIDE DEF kept
    <3> QED BY <1>3, <3>1 DEF ExecuteUpdate, Planned, kept
  <2>2. /\ Distinct(kept)
        /\ \A k \in DOMAIN kept : \E i \in DOMAIN us : Alike(kept[k], us[i]) /\ kept[k].inputIndex = i - 1
    BY DedupedUpdates
  <2>3. /\ SplitOf(kept, plan.direct, plan.feed) /\ plan.plannedFeedCount = FeedChunkCount(Len(plan.feed))
    BY <1>3, <2>2, PlanSplits
  <2>4. dropped \subseteq 0 .. Len(us) - 1 /\ (0 .. Len(us) - 1) \ dropped = {u.inputIndex : u \in Range(kept)}
    BY IndexesKept
  <2>5. TasksOf(market, plan.direct, tasks)
    BY <2>3, TasksAre DEF SplitOf
  <2>6. ipreview' = ipreview
    OBVIOUS
  <2>7. via = "tool" => /\ plan.resolved = ipreview.resolved /\ plan.plannedFeedCount = ipreview.plannedFeedCount
                        /\ DOMAIN kept = DOMAIN us /\ \A k \in DOMAIN us : Alike(kept[k], us[k])
    <3> SUFFICES ASSUME via = "tool"
                 PROVE  /\ plan.resolved = ipreview.resolved /\ plan.plannedFeedCount = ipreview.plannedFeedCount
                        /\ DOMAIN kept = DOMAIN us /\ \A k \in DOMAIN us : Alike(kept[k], us[k])
      OBVIOUS
    <3>1. /\ \A i, j \in DOMAIN us : DedupKey(us[i]) = DedupKey(us[j]) => i = j
          /\ Planned(us, strategy).resolved = ipreview.resolved
          /\ Planned(us, strategy).plannedFeedCount = ipreview.plannedFeedCount
      BY DEF InventoryInv, PreviewInv
    <3>2. DOMAIN kept = DOMAIN us /\ \A k \in DOMAIN us : Alike(kept[k], us[k])
      BY <3>1, DedupedAgain
    <3>3. Planned(us, strategy) = plan
      BY DEF Planned
    <3> QED BY <3>1, <3>2, <3>3
  <2> HIDE DEF kept, plan, tasks, dropped
  <2>8. /\ DOMAIN icall' = CallFields /\ icall'.phase = "direct" /\ icall'.via = via /\ icall'.count = Len(us)
        /\ icall'.resolved = plan.resolved /\ icall'.dropped = dropped /\ icall'.tasks = tasks /\ icall'.next = 1
        /\ icall'.feed = plan.feed /\ icall'.outcomes = {}
    BY <2>1 DEF CallFields
  <2>9. Indexes' = {u.inputIndex : u \in Range(kept)}
    BY <2>4, <2>8 DEF Indexes
  <2>10. Active' /\ icall' # Idle
    BY <2>8 DEF Active, Idle
  <2>11. CallInv'
    BY <1>1, <2>4, <2>8, <2>10 DEF CallInv
  <2>12. \A t \in DOMAIN tasks : \A u \in Range(tasks[t]) : u \in Range(plan.direct)
    BY <2>5 DEF TasksOf
  <2>13. TaskInv'
    <3>1. IsList(tasks) /\ \A t \in DOMAIN tasks : IsList(tasks[t]) /\ (market # "us" => Len(tasks[t]) = 1)
      BY <2>5 DEF TasksOf
    <3>2. ASSUME NEW s \in DOMAIN tasks, NEW t \in DOMAIN tasks, NEW u \in Range(tasks[s]), NEW v \in Range(tasks[t]),
                 u.inputIndex = v.inputIndex
          PROVE  s = t /\ u = v
      <4>1. s = t
        BY <2>5, <3>2 DEF TasksOf
      <4>2. Distinct(plan.direct) /\ u \in Range(plan.direct) /\ v \in Range(plan.direct)
        BY <2>3, <2>12 DEF SplitOf
      <4> QED BY <3>2, <4>1, <4>2 DEF Distinct, Range
    <3>3. \A t \in DOMAIN tasks : \A u \in Range(tasks[t]), v \in Range(plan.feed) : u.inputIndex # v.inputIndex
      BY <2>3, <2>12 DEF SplitOf
    <3>4. \A t \in DOMAIN tasks : \A u \in Range(tasks[t]) : u.inputIndex \in Indexes'
      BY <2>3, <2>9, <2>12 DEF SplitOf
    <3>5. \A u \in Range(plan.feed) : u.inputIndex \in Indexes'
      BY <2>3, <2>9 DEF SplitOf
    <3>6. ASSUME NEW x \in Indexes'
          PROVE  \/ \E t \in DOMAIN tasks : \E u \in Range(tasks[t]) : u.inputIndex = x
                 \/ \E u \in Range(plan.feed) : u.inputIndex = x
      <4>1. PICK u \in Range(kept) : u.inputIndex = x
        BY <2>9
      <4>2. u \in Range(plan.direct) \/ u \in Range(plan.feed)
        BY <2>3 DEF SplitOf
      <4> QED BY <2>5, <4>1, <4>2 DEF TasksOf
    <3>7. 1 \in 1 .. Len(tasks) + 1
      BY <3>1 DEF IsList
    <3> QED BY <1>1, <2>8, <3>1, <3>2, <3>3, <3>4, <3>5, <3>6, <3>7 DEF TaskInv
  <2>14. AnswerInv'
    <3>1. 1 .. icall'.next - 1 = {}
      BY <2>8
    <3> QED BY <2>8, <3>1 DEF AnswerInv
  <2>15. FeedInv'
    <3>1. Distinct(plan.feed) /\ \A u \in Range(plan.feed) : u \in Range(kept) /\ IsSellerPartNumber(u)
      BY <2>3 DEF SplitOf
    <3>2. ASSUME NEW u \in Range(plan.feed) PROVE FeedItem(market, u) /\ u.inputIndex \in Indexes'
      <4>1. PICK k \in DOMAIN kept : u = kept[k]
        BY <3>1 DEF Range
      <4>2. PICK i \in DOMAIN us : Alike(u, us[i])
        BY <2>2, <4>1
      <4>3. market = "us" => u.warehouse # None
        BY <1>3, <4>2 DEF ValidUpdates, Alike
      <4>4. u.type = "sellerPartNumber"
        BY <3>1 DEF IsSellerPartNumber
      <4>5. u.inputIndex \in Indexes'
        BY <2>9, <3>1
      <4> QED BY <4>3, <4>4, <4>5 DEF FeedItem
    <3>3. Len(jobs') <= Len(FeedChunks(plan.feed)) /\ DOMAIN jobs' = {}
      <4>1. IsList(FeedChunks(plan.feed))
        BY <3>1, ChunksAre DEF Distinct
      <4> QED BY <1>1, <4>1 DEF IsList
    <3> QED BY <1>1, <2>8, <3>1, <3>2, <3>3 DEF FeedInv
  <2>16. SentInv'
    <3>1. 1 .. icall'.next - 1 = {}
      BY <2>8
    <3> QED BY <1>1, <3>1 DEF SentInv
  <2>17. ToolInv'
    <3> SUFFICES ASSUME via = "tool"
                 PROVE  /\ \A u \in Range(us) :
                             \/ \E t \in DOMAIN tasks : \E v \in Range(tasks[t]) : LineIn(market, v) = LineIn(market, u)
                             \/ \E v \in Range(plan.feed) : LineIn(market, v) = LineIn(market, u)
                        /\ \A t \in DOMAIN tasks : \A v \in Range(tasks[t]) :
                             \E u \in Range(us) : LineIn(market, v) = LineIn(market, u)
                        /\ \A v \in Range(plan.feed) : \E u \in Range(us) : LineIn(market, v) = LineIn(market, u)
      BY <1>1, <2>3, <2>6, <2>7, <2>8 DEF ToolInv
    <3>1. ASSUME NEW u \in Range(us)
          PROVE  \E v \in Range(kept) : LineIn(market, v) = LineIn(market, u)
      BY <2>7, AlikeLines DEF Range
    <3>2. ASSUME NEW v \in Range(kept)
          PROVE  \E u \in Range(us) : LineIn(market, v) = LineIn(market, u)
      BY <2>7, AlikeLines DEF Range
    <3>3. \A v : v \in Range(kept) <=> v \in Range(plan.direct) \/ v \in Range(plan.feed)
      BY <2>3 DEF SplitOf
    <3>4. \A v \in Range(plan.direct) : \E t \in DOMAIN tasks : v \in Range(tasks[t])
      BY <2>5 DEF TasksOf
    <3>5. ASSUME NEW u \in Range(us)
          PROVE  \/ \E t \in DOMAIN tasks : \E v \in Range(tasks[t]) : LineIn(market, v) = LineIn(market, u)
                 \/ \E v \in Range(plan.feed) : LineIn(market, v) = LineIn(market, u)
      <4>1. PICK v \in Range(kept) : LineIn(market, v) = LineIn(market, u)
        BY <3>1
      <4> QED BY <3>3, <3>4, <4>1
    <3> QED BY <2>12, <3>2, <3>3, <3>5
  <2>18. TruthInv'
    BY <2>8 DEF TruthInv
  <2> QED BY <1>1, <2>11, <2>13, <2>14, <2>15, <2>16, <2>17, <2>18 DEF InventoryInv
<1> QED BY <1>2, <1>3

-----------------------------------------------------------------------------
(* Sending more does not unsay what is stored.                             *)
LEMMA StoreGrows ==
  ASSUME StoreInv, UNCHANGED <<market, stock, ignored, jobs>>, written \subseteq written', IsFiniteSet(written')
  PROVE  StoreInv'
BY DEF StoreInv, Reached

(* The same call, but for its requests and outcomes.                       *)
LEMMA CallStays ==
  ASSUME icall.phase = "direct", icall'.phase = "direct", icall'.via = icall.via, icall'.count = icall.count,
         icall'.resolved = icall.resolved, icall'.dropped = icall.dropped, icall'.tasks = icall.tasks,
         icall'.feed = icall.feed, UNCHANGED <<market, ipreview>>
  PROVE  /\ TaskInv /\ icall'.next \in 1 .. Len(icall.tasks) + 1 /\ inFlight' \subseteq 1 .. icall'.next - 1 => TaskInv'
         /\ FeedInv /\ jobs' = jobs => FeedInv'
         /\ ToolInv => ToolInv'
<1>1. Indexes' = Indexes /\ Active /\ Active'
  BY DEF Indexes, Active
<1>2. ASSUME TaskInv, icall'.next \in 1 .. Len(icall.tasks) + 1, inFlight' \subseteq 1 .. icall'.next - 1 PROVE TaskInv'
  BY <1>1, <1>2 DEF TaskInv
<1>3. ASSUME FeedInv, jobs' = jobs PROVE FeedInv'
  BY <1>1, <1>3 DEF FeedInv
<1>4. ASSUME ToolInv PROVE ToolInv'
  BY <1>1, <1>4 DEF ToolInv
<1> QED BY <1>2, <1>3, <1>4

(* A request leaves.                                                       *)
LEMMA SendHolds ==
  ASSUME InventoryAssumption, InventoryInv, SendDirect
  PROVE  InventoryInv'
<1> DEFINE n == icall.next
           members == icall.tasks[n]
<1>1. /\ icall.phase = "direct" /\ n <= Len(icall.tasks)
      /\ inFlight' = inFlight \cup {n}
      /\ written' = written \cup Range(DirectRequest(members))
      /\ icall' = [icall EXCEPT !.next = @ + 1]
      /\ UNCHANGED <<market, ipreview, stock, ignored, jobs>>
  BY DEF SendDirect
<1>2. Active /\ DOMAIN icall = CallFields
  BY <1>1 DEF Active, InventoryInv, CallInv
<1>3. /\ DOMAIN icall' = CallFields /\ icall'.phase = "direct" /\ icall'.via = icall.via /\ icall'.count = icall.count
      /\ icall'.resolved = icall.resolved /\ icall'.dropped = icall.dropped /\ icall'.tasks = icall.tasks
      /\ icall'.next = n + 1 /\ icall'.feed = icall.feed /\ icall'.outcomes = icall.outcomes
  BY <1>1, <1>2 DEF CallFields
<1>4. IsList(icall.tasks) /\ n \in 1 .. Len(icall.tasks) + 1 /\ inFlight \subseteq 1 .. n - 1
  BY <1>1 DEF InventoryInv, TaskInv
<1>5. PICK l \in Nat : l = Len(icall.tasks) /\ DOMAIN icall.tasks = 1 .. l
  BY <1>4 DEF IsList
<1>6. n \in 1 .. l
  BY <1>1, <1>4, <1>5
<1>7. IsList(members) /\ (market # "us" => Len(members) = 1)
  BY <1>1, <1>5, <1>6 DEF InventoryInv, TaskInv
<1>8. /\ IsList(DirectRequest(members))
      /\ Range(DirectRequest(members)) = {LineIn(market, u) : u \in Range(members)}
  BY <1>7, RequestIs
<1>9. Active' /\ icall' # Idle /\ Indexes' = Indexes
  BY <1>3 DEF Active, Idle, Indexes
<1>10. CallInv'
  BY <1>2, <1>3, <1>9 DEF InventoryInv, CallInv
<1>11. TaskInv'
  <2>1. n + 1 \in 1 .. l + 1 /\ (n + 1) - 1 = n
    BY <1>6
  <2>2. inFlight \subseteq 1 .. n
    BY <1>4, <1>6
  <2>3. inFlight' \subseteq 1 .. (n + 1) - 1
    BY <1>1, <1>6, <2>1, <2>2
  <2> HIDE DEF n, members
  <2> QED BY <1>1, <1>3, <1>5, <2>1, <2>3, CallStays DEF InventoryInv
<1>12. AnswerInv'
  <2>1. \A t : t \in 1 .. icall'.next - 1 /\ t \notin inFlight' <=> t \in 1 .. icall.next - 1 /\ t \notin inFlight
    BY <1>1, <1>3, <1>4, <1>6
  <2> HIDE DEF n, members
  <2>2. icall.next - 1 \in Nat /\ 1 .. icall.next - 1 \subseteq 1 .. icall'.next - 1
    BY <1>3, <1>6 DEF n
  <2>3. \A u, o : OutcomeOf(o, u)' <=> OutcomeOf(o, u)
    BY <1>1 DEF OutcomeOf
  <2>4. AnswerInv /\ icall.phase = "direct"
    BY <1>1 DEF InventoryInv
  <2>5. ASSUME NEW o \in icall.outcomes
        PROVE  \E t \in 1 .. icall'.next - 1 : t \notin inFlight' /\ \E u \in Range(icall.tasks[t]) : OutcomeOf(o, u)'
    <3>1. PICK t \in 1 .. icall.next - 1 : t \notin inFlight /\ \E u \in Range(icall.tasks[t]) : OutcomeOf(o, u)
      BY <2>4 DEF AnswerInv
    <3>2. PICK u \in Range(icall.tasks[t]) : OutcomeOf(o, u)
      BY <3>1
    <3> QED BY <2>1, <2>3, <3>1, <3>2
  <2>6. ASSUME NEW t \in 1 .. icall'.next - 1, t \notin inFlight', NEW u \in Range(icall.tasks[t])
        PROVE  \E o \in icall.outcomes : o.inputIndex = u.inputIndex
    BY <2>1, <2>4, <2>6 DEF AnswerInv
  <2>7. \A o, p \in icall.outcomes : o.inputIndex = p.inputIndex => o = p
    BY <1>2, <2>4 DEF AnswerInv
  <2> QED BY <1>3, <2>5, <2>6, <2>7 DEF AnswerInv
<1>13. FeedInv'
  BY <1>1, <1>3, CallStays DEF InventoryInv
<1>14. SentInv'
  <2>1. SentInv
    BY DEF InventoryInv
  <2>2. ASSUME NEW t \in 1 .. icall'.next - 1, NEW u \in Range(icall.tasks[t]) PROVE LineIn(market, u) \in written'
    <3>1. t \in 1 .. n - 1 \/ t = n
      BY <1>3, <1>6
    <3> QED BY <1>1, <1>8, <2>1, <3>1 DEF SentInv
  <2>3. ASSUME NEW x \in written'
        PROVE  \/ \E t \in DOMAIN icall.tasks : \E u \in Range(icall.tasks[t]) : x = LineIn(market, u)
               \/ \E u \in Range(icall.feed) : x = LineIn(market, u)
    <3>1. CASE x \in written
      BY <1>1, <2>1, <3>1 DEF SentInv
    <3>2. CASE x \notin written
      <4>1. PICK u \in Range(members) : x = LineIn(market, u)
        BY <1>1, <1>8, <3>2
      <4> QED BY <1>5, <1>6, <4>1
    <3> QED BY <3>1, <3>2
  <2> HIDE DEF n, members
  <2> QED BY <1>1, <1>3, <2>2, <2>3 DEF SentInv
<1>15. ToolInv'
  BY <1>1, <1>3, CallStays DEF InventoryInv
<1>16. StoreInv'
  <2>1. IsFiniteSet(Range(DirectRequest(members)))
    BY <1>8, FiniteRange
  <2>2. IsFiniteSet(written')
    BY <1>1, <2>1, FS_Union DEF InventoryInv, StoreInv
  <2> QED BY <1>1, <2>2, StoreGrows DEF InventoryInv
<1>17. TruthInv'
  <2>1. \A o : Backed(o) => Backed(o)'
    BY <1>1, BackedStays
  <2> QED BY <1>1, <1>2, <1>3, <2>1 DEF InventoryInv, TruthInv
<1>18. PreviewInv'
  BY <1>1, PreviewStays DEF InventoryInv
<1> QED BY <1>10, <1>11, <1>12, <1>13, <1>14, <1>15, <1>16, <1>17, <1>18 DEF InventoryInv

(* A request ends: its updates have their outcome.                         *)
LEMMA DirectEndsHolds ==
  ASSUME InventoryAssumption, InventoryInv, NEW t \in inFlight, DirectEnds(t)
  PROVE  InventoryInv'
<1> DEFINE members == icall.tasks[t]
<1>1. PICK status \in {"succeeded", "failed"} :
        /\ icall.phase = "direct" /\ inFlight' = inFlight \ {t}
        /\ \/ stock' = Stored(DirectRequest(members)) /\ ignored' = ignored
           \/ status = "failed" /\ stock' = stock /\ ignored' = ignored
           \/ /\ status = "succeeded" /\ stock' = stock
              /\ ignored' = ignored \cup {l[1] : l \in Range(DirectRequest(members))}
        /\ icall' = [icall EXCEPT !.outcomes = @ \cup {Outcome(u, status) : u \in Range(members)}]
        /\ UNCHANGED <<market, ipreview, written, jobs>>
  BY DEF DirectEnds
<1> DEFINE new == {Outcome(u, status) : u \in Range(members)}
<1>2. Active /\ DOMAIN icall = CallFields
  BY <1>1 DEF Active, InventoryInv, CallInv
<1>3. /\ DOMAIN icall' = CallFields /\ icall'.phase = "direct" /\ icall'.via = icall.via /\ icall'.count = icall.count
      /\ icall'.resolved = icall.resolved /\ icall'.dropped = icall.dropped /\ icall'.tasks = icall.tasks
      /\ icall'.next = icall.next /\ icall'.feed = icall.feed /\ icall'.outcomes = icall.outcomes \cup new
  BY <1>1, <1>2 DEF CallFields
<1>4. TaskInv /\ AnswerInv /\ SentInv /\ StoreInv /\ TruthInv
  BY DEF InventoryInv
<1>5. /\ IsList(icall.tasks) /\ icall.next \in 1 .. Len(icall.tasks) + 1 /\ inFlight \subseteq 1 .. icall.next - 1
  BY <1>1, <1>4 DEF TaskInv
<1>6. t \in 1 .. icall.next - 1 /\ t \in DOMAIN icall.tasks
  BY <1>5 DEF IsList
<1>7. IsList(members) /\ (market # "us" => Len(members) = 1)
  BY <1>1, <1>4, <1>6 DEF TaskInv
<1>8. /\ IsList(DirectRequest(members))
      /\ \A k \in DOMAIN DirectRequest(members) : k \in DOMAIN members /\ DirectRequest(members)[k] = LineIn(market, members[k])
      /\ Range(DirectRequest(members)) = {LineIn(market, u) : u \in Range(members)}
  BY <1>7, RequestIs
<1>9. ASSUME NEW u
      PROVE  OutcomeOf(Outcome(u, status), u) /\ Outcome(u, status).status = status
             /\ Outcome(u, status).inputIndex = u.inputIndex
  BY LineIs DEF OutcomeOf, Outcome
<1>10. Active' /\ icall' # Idle /\ Indexes' = Indexes
  BY <1>3 DEF Active, Idle, Indexes
<1>11. \A u \in Range(members) : LineIn(market, u) \in written
  BY <1>1, <1>4, <1>6 DEF SentInv
<1> HIDE DEF new, members
<1>12. CallInv'
  BY <1>2, <1>3, <1>10 DEF InventoryInv, CallInv
<1>13. TaskInv'
  <2>1. inFlight' \subseteq 1 .. icall.next - 1
    BY <1>1, <1>5
  <2> QED BY <1>1, <1>3, <1>4, <1>5, <2>1, CallStays
<1>14. \A o, u : OutcomeOf(o, u)' <=> OutcomeOf(o, u)
  BY <1>1 DEF OutcomeOf
<1>15. AnswerInv'
  <2>1. \A o \in new : \E u \in Range(members) : o = Outcome(u, status) /\ o.inputIndex = u.inputIndex /\ OutcomeOf(o, u)
    BY <1>9 DEF new
  <2>2. ASSUME NEW o \in icall.outcomes
        PROVE  \E s \in 1 .. icall.next - 1 : s \notin inFlight /\ \E u \in Range(icall.tasks[s]) : OutcomeOf(o, u)
    BY <1>1, <1>4 DEF AnswerInv
  <2>3. ASSUME NEW o \in icall.outcomes, NEW p \in new PROVE o.inputIndex # p.inputIndex
    <3>1. PICK s, u : s \in 1 .. icall.next - 1 /\ s \notin inFlight /\ u \in Range(icall.tasks[s]) /\ OutcomeOf(o, u)
      BY <2>2
    <3>2. PICK v \in Range(members) : p.inputIndex = v.inputIndex
      BY <2>1
    <3>3. s \in DOMAIN icall.tasks /\ s # t
      <4>1. s \in 1 .. icall.next - 1 /\ s \notin inFlight
        BY <3>1
      <4> QED BY <1>5, <4>1 DEF IsList
    <3>4. u.inputIndex # v.inputIndex
      BY <1>1, <1>4, <1>6, <3>1, <3>3 DEF TaskInv, members
    <3> QED BY <3>1, <3>2, <3>4 DEF OutcomeOf
  <2>4. ASSUME NEW o \in new, NEW p \in new, o.inputIndex = p.inputIndex PROVE o = p
    <3>1. PICK u \in Range(members) : o = Outcome(u, status) /\ o.inputIndex = u.inputIndex
      BY <2>1
    <3>2. PICK v \in Range(members) : p = Outcome(v, status) /\ p.inputIndex = v.inputIndex
      BY <2>1
    <3>3. u = v
      BY <1>1, <1>4, <1>6, <2>4, <3>1, <3>2 DEF TaskInv, members
    <3> QED BY <3>1, <3>2, <3>3
  <2>5. \A o, p \in icall.outcomes : o.inputIndex = p.inputIndex => o = p
    BY <1>2, <1>4 DEF AnswerInv
  <2>6. \A o, p \in icall'.outcomes : o.inputIndex = p.inputIndex => o = p
    BY <1>3, <2>3, <2>4, <2>5
  <2>7. ASSUME NEW o \in icall'.outcomes
        PROVE  \E s \in 1 .. icall.next - 1 : s \notin inFlight' /\ \E u \in Range(icall.tasks[s]) : OutcomeOf(o, u)'
    <3>1. CASE o \in icall.outcomes
      <4>1. PICK s, u : s \in 1 .. icall.next - 1 /\ s \notin inFlight /\ u \in Range(icall.tasks[s]) /\ OutcomeOf(o, u)
        BY <2>2, <3>1
      <4> QED BY <1>1, <1>14, <4>1
    <3>2. CASE o \in new
      <4>1. PICK u \in Range(members) : OutcomeOf(o, u)
        BY <2>1, <3>2
      <4> QED BY <1>1, <1>6, <1>14, <4>1 DEF members
    <3> QED BY <1>3, <3>1, <3>2
  <2>8. ASSUME NEW s \in 1 .. icall.next - 1, s \notin inFlight', NEW u \in Range(icall.tasks[s])
        PROVE  \E o \in icall'.outcomes : o.inputIndex = u.inputIndex
    <3>1. CASE s = t
      <4>1. Outcome(u, status) \in new
        BY <2>8, <3>1 DEF new, members
      <4> QED BY <1>3, <1>9, <4>1
    <3>2. CASE s # t
      BY <1>1, <1>3, <1>4, <2>8, <3>2 DEF AnswerInv
    <3> QED BY <3>1, <3>2
  <2> QED BY <1>3, <2>6, <2>7, <2>8 DEF AnswerInv
<1>16. FeedInv'
  BY <1>1, <1>3, CallStays DEF InventoryInv
<1>17. SentInv'
  BY <1>1, <1>3, <1>4 DEF SentInv
<1>18. ToolInv'
  BY <1>1, <1>3, CallStays DEF InventoryInv
<1>19. /\ DOMAIN stock \subseteq DOMAIN stock' /\ \A d \in DOMAIN stock' : <<d, stock'[d]>> \in written
       /\ ignored \subseteq ignored'
       /\ status = "succeeded" =>
            \A u \in Range(members) : DestinationIn(market, u) \in DOMAIN stock' \/ DestinationIn(market, u) \in ignored'
  <2>1. CASE stock' = stock /\ status = "failed" /\ ignored' = ignored
    BY <1>4, <2>1 DEF StoreInv
  <2>3. CASE stock' = stock /\ ignored' = ignored \cup {l[1] : l \in Range(DirectRequest(members))}
    <3>1. ASSUME NEW u \in Range(members) PROVE DestinationIn(market, u) \in ignored'
      <4>1. LineIn(market, u) \in Range(DirectRequest(members))
        BY <1>8
      <4>2. LineIn(market, u)[1] = DestinationIn(market, u)
        BY DEF LineIn
      <4> QED BY <2>3, <4>1, <4>2
    <3>2. \A d \in DOMAIN stock' : <<d, stock'[d]>> \in written
      BY <1>4, <2>3 DEF StoreInv
    <3> QED BY <2>3, <3>1, <3>2
  <2>2. CASE stock' = Stored(DirectRequest(members)) /\ ignored' = ignored
    <3> DEFINE lines == DirectRequest(members)
    <3> HIDE DEF lines
    <3>1. /\ \A d : d \in DOMAIN stock' <=> d \in DOMAIN stock \/ \E k \in DOMAIN lines : lines[k][1] = d
          /\ \A d \in DOMAIN stock' : \/ d \in DOMAIN stock /\ stock'[d] = stock[d]
                                      \/ \E k \in DOMAIN lines : lines[k][1] = d /\ stock'[d] = lines[k][2]
      BY <1>8, <2>2, StoredIs DEF lines
    <3>2. \A k \in DOMAIN lines : lines[k] = <<lines[k][1], lines[k][2]>> /\ lines[k] \in written
      BY <1>8, <1>11 DEF lines, LineIn, Range
    <3>3. ASSUME NEW u \in Range(members) PROVE \E k \in DOMAIN lines : lines[k][1] = DestinationIn(market, u)
      <4>1. LineIn(market, u) \in Range(lines)
        BY <1>8 DEF lines
      <4>2. PICK k \in DOMAIN lines : lines[k] = LineIn(market, u)
        BY <4>1 DEF Range
      <4>3. lines[k][1] = DestinationIn(market, u)
        BY <4>2 DEF LineIn
      <4> QED BY <4>3
    <3>4. ASSUME NEW d \in DOMAIN stock' PROVE <<d, stock'[d]>> \in written
      <4>1. CASE d \in DOMAIN stock /\ stock'[d] = stock[d]
        BY <1>4, <4>1 DEF StoreInv
      <4>2. CASE \E k \in DOMAIN lines : lines[k][1] = d /\ stock'[d] = lines[k][2]
        <5>1. PICK k \in DOMAIN lines : lines[k][1] = d /\ stock'[d] = lines[k][2]
          BY <4>2
        <5>2. <<d, stock'[d]>> = lines[k] /\ lines[k] \in written
          BY <3>2, <5>1
        <5> QED BY <5>2
      <4> QED BY <3>1, <4>1, <4>2
    <3> QED BY <2>2, <3>1, <3>3, <3>4
  <2> QED BY <1>1, <2>1, <2>2, <2>3
<1>20. StoreInv'
  BY <1>1, <1>4, <1>19 DEF StoreInv, Reached
<1>21. TruthInv'
  <2> SUFFICES ASSUME NEW o \in icall'.outcomes, o.status \in {"succeeded", "warning"}
               PROVE  Backed(o)' /\ <<o.destination, o.quantity>> \in written'
    BY DEF TruthInv
  <2>1. CASE o \in icall.outcomes
    <3>1. \A p : Backed(p) => Backed(p)'
      BY <1>1, <1>19, BackedStays
    <3> QED BY <1>1, <1>2, <1>4, <2>1, <3>1 DEF TruthInv
  <2>2. CASE o \in new
    <3>1. PICK u \in Range(members) : o = Outcome(u, status)
      BY <2>2 DEF new
    <3>2. o.destination = DestinationIn(market, u) /\ o.quantity = u.quantity /\ o.status = status
      BY <1>9, <3>1 DEF OutcomeOf
    <3>3. status = "succeeded"
      BY <1>1, <3>2
    <3>4. <<o.destination, o.quantity>> = LineIn(market, u)
      BY <3>2 DEF LineIn
    <3> QED BY <1>1, <1>11, <1>19, <3>2, <3>3, <3>4 DEF Backed, Reached
  <2> QED BY <1>3, <2>1, <2>2
<1>22. PreviewInv'
  BY <1>1, PreviewStays DEF InventoryInv
<1> QED BY <1>12, <1>13, <1>15, <1>16, <1>17, <1>18, <1>20, <1>21, <1>22 DEF InventoryInv

-----------------------------------------------------------------------------
(* The caller gives up.                                                    *)
LEMMA AbortHolds ==
  ASSUME InventoryInv, AbortUpdate
  PROVE  InventoryInv'
<1>1. /\ icall' = [phase |-> "thrown", via |-> icall.via] /\ inFlight' = {}
      /\ UNCHANGED <<market, ipreview, stock, ignored, written, jobs>>
  BY DEF AbortUpdate
<1>2. icall'.phase = "thrown"
  BY <1>1
<1> QED BY <1>1, <1>2, ThrownHolds, StoreStays, PreviewStays DEF InventoryInv

(* A read changes nothing else.                                            *)
LEMMA ReadHolds ==
  ASSUME InventoryInv, UNCHANGED <<market, icall, ipreview, stock, ignored, written, inFlight, jobs>>
  PROVE  InventoryInv'
<1>1. Active' = Active /\ Indexes' = Indexes
  BY DEF Active, Indexes
<1>2. \A o, u : OutcomeOf(o, u)' <=> OutcomeOf(o, u)
  BY DEF OutcomeOf
<1>3. StoreInv' /\ PreviewInv'
  BY StoreStays, PreviewStays DEF InventoryInv
<1>4. CallInv' /\ TaskInv'
  BY <1>1 DEF InventoryInv, CallInv, TaskInv
<1>5. AnswerInv'
  BY <1>1, <1>2 DEF InventoryInv, AnswerInv
<1>6. FeedInv' /\ SentInv' /\ TruthInv'
  <2>1. \A o : Backed(o) => Backed(o)'
    BY BackedStays
  <2> QED BY <1>1, <2>1 DEF InventoryInv, FeedInv, SentInv, TruthInv
<1>7. ToolInv'
  BY <1>1 DEF InventoryInv, ToolInv
<1> QED BY <1>3, <1>4, <1>5, <1>6, <1>7 DEF InventoryInv

(* When the direct requests are over their updates are answered, and every *)
(* line of theirs was sent.                                                *)
LEMMA DirectIsOver ==
  ASSUME InventoryInv, DirectIsDone
  PROVE  /\ \A t \in DOMAIN icall.tasks : t \in 1 .. icall.next - 1 /\ t \notin inFlight
         /\ \A t \in DOMAIN icall.tasks : \A u \in Range(icall.tasks[t]) :
              /\ LineIn(market, u) \in written
              /\ \E o \in icall.outcomes : o.inputIndex = u.inputIndex
         /\ \A o \in icall.outcomes :
              /\ o.inputIndex \in Indexes
              /\ \A u \in Range(icall.feed) : o.inputIndex # u.inputIndex
<1>1. icall.phase = "direct" /\ icall.next > Len(icall.tasks) /\ inFlight = {}
  BY DEF DirectIsDone
<1>2. TaskInv /\ AnswerInv /\ SentInv
  BY DEF InventoryInv
<1>3. IsList(icall.tasks) /\ icall.next \in 1 .. Len(icall.tasks) + 1
  BY <1>1, <1>2 DEF TaskInv
<1>4. \A t : t \in DOMAIN icall.tasks <=> t \in 1 .. icall.next - 1
  BY <1>1, <1>3 DEF IsList
<1>5. \A t \in DOMAIN icall.tasks : \A u \in Range(icall.tasks[t]) :
        LineIn(market, u) \in written /\ \E o \in icall.outcomes : o.inputIndex = u.inputIndex
  BY <1>1, <1>2, <1>4 DEF AnswerInv, SentInv
<1>6. ASSUME NEW o \in icall.outcomes
      PROVE  /\ o.inputIndex \in Indexes
             /\ \A u \in Range(icall.feed) : o.inputIndex # u.inputIndex
  <2>1. PICK t, u : t \in 1 .. icall.next - 1 /\ u \in Range(icall.tasks[t]) /\ OutcomeOf(o, u)
    BY <1>1, <1>2 DEF AnswerInv
  <2>2. t \in DOMAIN icall.tasks /\ o.inputIndex = u.inputIndex
    BY <1>4, <2>1 DEF OutcomeOf
  <2> QED BY <1>1, <1>2, <2>1, <2>2 DEF TaskInv
<1> QED BY <1>1, <1>4, <1>5, <1>6

(* The call returns when there is no feed.                                 *)
LEMMA AnswerHolds ==
  ASSUME InventoryAssumption, InventoryInv, Answer
  PROVE  InventoryInv'
<1>1. /\ DirectIsDone /\ icall.feed = <<>> /\ icall' = [icall EXCEPT !.phase = "done"]
      /\ icall.phase = "direct" /\ inFlight = {}
      /\ UNCHANGED <<market, ipreview, stock, ignored, written, inFlight, jobs>>
  BY DEF Answer, DirectIsDone
<1>2. Active /\ DOMAIN icall = CallFields
  BY <1>1 DEF Active, InventoryInv, CallInv
<1>3. /\ DOMAIN icall' = CallFields /\ icall'.phase = "done" /\ icall'.via = icall.via /\ icall'.count = icall.count
      /\ icall'.resolved = icall.resolved /\ icall'.dropped = icall.dropped /\ icall'.feed = icall.feed
      /\ icall'.outcomes = icall.outcomes
  BY <1>1, <1>2 DEF CallFields
<1>4. Active' /\ icall' # Idle /\ Indexes' = Indexes
  BY <1>3 DEF Active, Idle, Indexes
<1>5. Range(icall.feed) = {}
  BY <1>1 DEF Range
<1>6. CallInv'
  BY <1>1, <1>2, <1>3, <1>4 DEF InventoryInv, CallInv
<1>7. TaskInv' /\ SentInv'
  BY <1>3 DEF TaskInv, SentInv
<1>8. AnswerInv'
  <2>1. \A o, p \in icall.outcomes : o.inputIndex = p.inputIndex => o = p
    BY <1>2 DEF InventoryInv, AnswerInv
  <2>2. ASSUME NEW x \in Indexes PROVE \E o \in icall.outcomes : o.inputIndex = x
    <3>1. PICK t \in DOMAIN icall.tasks : \E u \in Range(icall.tasks[t]) : u.inputIndex = x
      BY <1>1, <1>5 DEF InventoryInv, TaskInv
    <3> QED BY <1>1, <3>1, DirectIsOver
  <2>3. \A o \in icall.outcomes : o.inputIndex \in Indexes
    BY <1>1, DirectIsOver
  <2> QED BY <1>3, <1>4, <2>1, <2>2, <2>3 DEF AnswerInv
<1>9. FeedInv'
  <2>1. FeedInv
    BY DEF InventoryInv
  <2>2. IsList(icall.feed) /\ Len(icall.feed) = 0
    BY <1>1 DEF IsList
  <2>3. Len(FeedChunks(icall.feed)) = 0
    <3>1. Len(FeedChunks(icall.feed)) = FeedChunkCount(0)
      BY <2>2, ChunksAre
    <3>2. FeedChunkCount(0) = 0
      <4>1. PICK n \in Nat \ {0} : n = INVENTORY_FEED_MAX_RECORDS
        BY DEF InventoryAssumption
      <4>2. (0 + n - 1) \div n = 0
        BY <4>1
      <4> QED BY <4>1, <4>2 DEF FeedChunkCount
    <3> QED BY <3>1, <3>2
  <2>4. Len(jobs) = 0
    <3>1. Len(jobs) \in Nat
      BY DEF InventoryInv, StoreInv, IsList
    <3> QED BY <1>2, <2>1, <2>3, <3>1 DEF FeedInv
  <2>5. Distinct(icall.feed)
    BY <1>2, <2>1 DEF FeedInv
  <2>6. \A c \in DOMAIN jobs : Range(jobs[c].lines) = {LineIn(market, u) : u \in Range(FeedChunks(icall.feed)[c])}
    BY <1>2, <2>1 DEF FeedInv
  <2> QED BY <1>1, <1>3, <1>5, <2>3, <2>4, <2>5, <2>6 DEF FeedInv
<1>10. ToolInv'
  <2> SUFFICES ASSUME icall.via = "tool" PROVE ToolInv'
    BY <1>3 DEF ToolInv
  <2>1. /\ ipreview # NoPreview /\ icall.resolved = ipreview.resolved
        /\ ipreview.plannedFeedCount = FeedChunkCount(Len(icall.feed))
        /\ \A u \in Range(ipreview.updates) :
             \E t \in DOMAIN icall.tasks : \E v \in Range(icall.tasks[t]) : LineIn(market, v) = LineIn(market, u)
        /\ \A t \in DOMAIN icall.tasks : \A v \in Range(icall.tasks[t]) :
             \E u \in Range(ipreview.updates) : LineIn(market, v) = LineIn(market, u)
    BY <1>1, <1>2, <1>5 DEF InventoryInv, ToolInv
  <2>2. \A l \in written : \E t \in DOMAIN icall.tasks : \E u \in Range(icall.tasks[t]) : l = LineIn(market, u)
    BY <1>1, <1>5 DEF InventoryInv, SentInv
  <2>3. ASSUME NEW l \in written PROVE \E u \in Range(ipreview.updates) : l = LineIn(market, u)
    <3>1. PICK t \in DOMAIN icall.tasks : \E u \in Range(icall.tasks[t]) : l = LineIn(market, u)
      BY <2>2
    <3>2. PICK v \in Range(icall.tasks[t]) : l = LineIn(market, v)
      BY <3>1
    <3> QED BY <2>1, <3>2
  <2>4. ASSUME NEW u \in Range(ipreview.updates) PROVE LineIn(market, u) \in written
    BY <1>1, <2>1, DirectIsOver
  <2>5. written = {LineIn(market, u) : u \in Range(ipreview.updates)}
    BY <2>3, <2>4
  <2> QED BY <1>1, <1>3, <2>1, <2>5 DEF ToolInv
<1>11. StoreInv' /\ PreviewInv'
  BY <1>1, StoreStays, PreviewStays DEF InventoryInv
<1>12. TruthInv'
  <2>1. \A o : Backed(o) => Backed(o)'
    BY <1>1, BackedStays
  <2> QED BY <1>1, <1>2, <1>3, <2>1 DEF InventoryInv, TruthInv
<1> QED BY <1>6, <1>7, <1>8, <1>9, <1>10, <1>11, <1>12 DEF InventoryInv

(* Newegg takes a feed, or drops it.                                       *)
LEMMA ProcessHolds ==
  ASSUME InventoryInv, NEW j \in DOMAIN jobs, ProcessFeed(j)
  PROVE  InventoryInv'
<1> DEFINE lines == jobs[j].lines
<1>1. jobs[j].status = "SUBMITTED" /\ UNCHANGED <<market, icall, ipreview, written, inFlight>>
  BY DEF ProcessFeed
<1>2. StoreInv /\ IsList(jobs) /\ DOMAIN jobs[j] = {"status", "lines", "records"}
      /\ IsList(lines) /\ Range(lines) \subseteq written
      /\ \A k \in DOMAIN lines : \E v : FeedItem(market, v) /\ lines[k] = LineIn(market, v)
  BY DEF InventoryInv, StoreInv
<1>3. /\ DOMAIN stock \subseteq DOMAIN stock' /\ \A d \in DOMAIN stock' : <<d, stock'[d]>> \in written
      /\ ignored \subseteq ignored'
      /\ \E job : /\ jobs' = [jobs EXCEPT ![j] = job] /\ job.lines = lines
                  /\ DOMAIN job = {"status", "lines", "records"}
                  /\ job.status = "FINISHED" =>
                       \A u : /\ FeedItem(market, u) /\ LineIn(market, u) \in Range(lines)
                              /\ FoldIn(market, u, job.records) \in {"succeeded", "warning"}
                              => \/ Reached(DestinationIn(market, u))'
                                 \/ MayWarn(market, u, job.records)
  <2>1. CASE jobs' = [jobs EXCEPT ![j].status = "CANCELLED"] /\ stock' = stock /\ ignored' = ignored
    <3> DEFINE job == [jobs[j] EXCEPT !.status = "CANCELLED"]
    <3>1. jobs' = [jobs EXCEPT ![j] = job]
      BY <2>1
    <3>2. DOMAIN job = {"status", "lines", "records"} /\ job.lines = lines /\ job.status = "CANCELLED"
      BY <1>2
    <3> HIDE DEF job
    <3> QED BY <1>2, <2>1, <3>1, <3>2 DEF StoreInv
  <2>2. CASE ~(jobs' = [jobs EXCEPT ![j].status = "CANCELLED"] /\ stock' = stock /\ ignored' = ignored)
    <3> DEFINE live(said, off) == {k \in {i \in DOMAIN lines : "Error" \notin said[i]} : lines[k][1][2] \notin off}
    <3>1. PICK said \in [DOMAIN lines -> {{}, {"Error"}, {"Note"}}], named \in BOOLEAN,
               off \in SUBSET {lines[k][1][2] : k \in DOMAIN lines} :
            /\ stock' = Stored(AtPlaces(lines, live(said, off)))
            /\ ignored' = ignored \cup {lines[k][1] : k \in {i \in DOMAIN lines : "Error" \notin said[i]} \ live(said, off)}
            /\ jobs' = [jobs EXCEPT ![j] = [status |-> "FINISHED", lines |-> lines, records |-> Reports(lines, said, named)]]
      BY <2>2 DEF ProcessFeed, RecordOf, Reports
    <3> DEFINE job == [status |-> "FINISHED", lines |-> lines, records |-> Reports(lines, said, named)]
               taken == AtPlaces(lines, live(said, off))
    <3>2. job.lines = lines /\ job.records = Reports(lines, said, named) /\ DOMAIN job = {"status", "lines", "records"}
      OBVIOUS
    <3>3. jobs' = [jobs EXCEPT ![j] = job]
      BY <3>1
    <3>4. PICK n \in Nat : DOMAIN lines = 1 .. n
      BY <1>2 DEF IsList
    <3>5. /\ IsList(taken)
          /\ \A k \in DOMAIN taken : \E i \in DOMAIN lines : taken[k] = lines[i]
          /\ \A i \in live(said, off) : \E k \in DOMAIN taken : taken[k] = lines[i]
      <4> DEFINE S == live(said, off)
      <4>1. S \in SUBSET (1 .. n) /\ \A i \in S : i \in DOMAIN lines
        BY <3>4
      <4> HIDE DEF S, lines
      <4>2. /\ IsList(AtPlaces(lines, S))
            /\ \A k \in DOMAIN AtPlaces(lines, S) : InOrder(S)[k] \in S /\ AtPlaces(lines, S)[k] = lines[InOrder(S)[k]]
        BY <4>1, AtPlacesAre
      <4>3. ASSUME NEW i \in S PROVE \E k \in DOMAIN AtPlaces(lines, S) : AtPlaces(lines, S)[k] = lines[i]
        <5>1. \E k \in DOMAIN AtPlaces(lines, S) : InOrder(S)[k] = i /\ AtPlaces(lines, S)[k] = lines[i]
          BY <4>1, AtPlacesReach
        <5> QED BY <5>1
      <4>4. taken = AtPlaces(lines, S) /\ live(said, off) = S
        BY DEF S
      <4> HIDE DEF taken, live
      <4> QED BY <4>1, <4>2, <4>3, <4>4
    <3>11. \A k \in DOMAIN lines : "Error" \notin said[k] => k \in live(said, off) \/ lines[k][1] \in ignored'
      BY <3>1
    <3>12. ignored \subseteq ignored'
      BY <3>1
    <3>13. stock' = Stored(taken)
      BY <3>1
    <3> HIDE DEF taken, lines, live
    <3>6. /\ \A d : d \in DOMAIN stock' <=> d \in DOMAIN stock \/ \E k \in DOMAIN taken : taken[k][1] = d
          /\ \A d \in DOMAIN stock' : \/ d \in DOMAIN stock /\ stock'[d] = stock[d]
                                      \/ \E k \in DOMAIN taken : taken[k][1] = d /\ stock'[d] = taken[k][2]
      BY <3>5, <3>13, StoredIs
    <3>7. \A k \in DOMAIN lines : lines[k] = <<lines[k][1], lines[k][2]>> /\ lines[k] \in written
      BY <1>2 DEF LineIn, Range
    <3>8. ASSUME NEW d \in DOMAIN stock' PROVE <<d, stock'[d]>> \in written
      <4>1. CASE d \in DOMAIN stock /\ stock'[d] = stock[d]
        BY <1>2, <4>1 DEF StoreInv
      <4>2. CASE \E k \in DOMAIN taken : taken[k][1] = d /\ stock'[d] = taken[k][2]
        <5>1. PICK i \in DOMAIN lines : lines[i][1] = d /\ stock'[d] = lines[i][2]
          BY <3>5, <4>2
        <5>2. <<d, stock'[d]>> = lines[i] /\ lines[i] \in written
          BY <3>7, <5>1
        <5> QED BY <5>2
      <4> QED BY <3>6, <4>1, <4>2
    <3>9. ASSUME NEW u, FeedItem(market, u), LineIn(market, u) \in Range(lines),
                 FoldIn(market, u, job.records) \in {"succeeded", "warning"}
          PROVE  Reached(DestinationIn(market, u))' \/ MayWarn(market, u, job.records)
      <4>1. FoldedResult(u, job.records) \in {"succeeded", "warning"}
        BY <3>9, FoldedResultIs
      <4>2. job.records = Reports(lines, said, named)
        BY <3>2
      <4> HIDE DEF job
      <4>3. IsList(lines) /\ \A k \in DOMAIN lines : \E v : FeedItem(market, v) /\ lines[k] = LineIn(market, v)
        BY <1>2
      <4>4. \/ \E k \in DOMAIN lines : "Error" \notin said[k] /\ lines[k][1] = DestinationIn(market, u)
            \/ FoldedResult(u, job.records) = "warning" /\ market = "us" /\ WarnedOver(job.records, u.value)
        <5>1. PICK reports : reports = job.records
          OBVIOUS
        <5>2. \/ \E k \in DOMAIN lines : "Error" \notin said[k] /\ lines[k][1] = DestinationIn(market, u)
              \/ FoldedResult(u, reports) = "warning" /\ market = "us" /\ WarnedOver(reports, u.value)
          BY <3>9, <4>1, <4>2, <4>3, <5>1, FoldIs
        <5> QED BY <5>1, <5>2
      <4>5. CASE FoldedResult(u, job.records) = "warning" /\ market = "us" /\ WarnedOver(job.records, u.value)
        BY <4>5, FoldedResultIs DEF MayWarn
      <4>6. CASE \E k \in DOMAIN lines : "Error" \notin said[k] /\ lines[k][1] = DestinationIn(market, u)
        <5>1. PICK k \in DOMAIN lines : "Error" \notin said[k] /\ lines[k][1] = DestinationIn(market, u)
          BY <4>6
        <5>2. CASE k \in live(said, off)
          <6>1. DestinationIn(market, u) \in DOMAIN stock'
            BY <3>5, <3>6, <5>1, <5>2
          <6> QED BY <1>1, <6>1 DEF Reached
        <5>3. CASE lines[k][1] \in ignored'
          BY <1>1, <5>1, <5>3 DEF Reached
        <5> QED BY <3>11, <5>1, <5>2, <5>3
      <4> QED BY <4>4, <4>5, <4>6
    <3>10. DOMAIN stock \subseteq DOMAIN stock'
      BY <3>6
    <3> HIDE DEF job
    <3> QED BY <3>2, <3>3, <3>8, <3>9, <3>10, <3>12
  <2> QED BY <2>1, <2>2
<1>4. PICK job :
        /\ jobs' = [jobs EXCEPT ![j] = job] /\ job.lines = lines
        /\ DOMAIN job = {"status", "lines", "records"}
        /\ job.status = "FINISHED" =>
             \A u : /\ FeedItem(market, u) /\ LineIn(market, u) \in Range(lines)
                    /\ FoldIn(market, u, job.records) \in {"succeeded", "warning"}
                    => \/ Reached(DestinationIn(market, u))'
                       \/ MayWarn(market, u, job.records)
  BY <1>3
<1>5. /\ IsList(jobs') /\ jobs' \in Seq(Range(jobs')) /\ DOMAIN jobs' = DOMAIN jobs /\ Len(jobs') = Len(jobs)
      /\ jobs'[j] = job /\ \A k \in DOMAIN jobs : k # j => jobs'[k] = jobs[k]
  <2>1. PICK n \in Nat : n = Len(jobs) /\ DOMAIN jobs = 1 .. n
    BY <1>2 DEF IsList
  <2>2. jobs' = [k \in 1 .. n |-> IF k = j THEN job ELSE jobs[k]]
    BY <1>4, <2>1
  <2>3. DOMAIN jobs' = 1 .. n /\ Len(jobs') = n
    BY <2>2
  <2>4. jobs' \in Seq(Range(jobs'))
    <3>1. \A k \in 1 .. n : jobs'[k] \in Range(jobs')
      BY <2>3 DEF Range
    <3>2. jobs' \in [1 .. n -> Range(jobs')]
      BY <2>2, <3>1
    <3> QED BY <3>2
  <2> QED BY <2>1, <2>2, <2>3, <2>4 DEF IsList
<1>6. \A k \in DOMAIN jobs : jobs'[k].lines = jobs[k].lines
  BY <1>4, <1>5
<1> HIDE DEF lines
<1>7. StoreInv'
  <2>1. ASSUME NEW k \in DOMAIN jobs'
        PROVE  /\ DOMAIN jobs'[k] = {"status", "lines", "records"}
               /\ IsList(jobs'[k].lines) /\ Range(jobs'[k].lines) \subseteq written
               /\ \A i \in DOMAIN jobs'[k].lines : \E v : FeedItem(market, v) /\ jobs'[k].lines[i] = LineIn(market, v)
               /\ jobs'[k].status = "FINISHED" =>
                    \A u : /\ FeedItem(market, u) /\ LineIn(market, u) \in Range(jobs'[k].lines)
                           /\ FoldIn(market, u, jobs'[k].records) \in {"succeeded", "warning"}
                           => \/ Reached(DestinationIn(market, u))'
                              \/ MayWarn(market, u, jobs'[k].records)
    <3>1. CASE k = j
      BY <1>2, <1>4, <1>5, <3>1
    <3>2. CASE k # j
      <4>1. jobs'[k] = jobs[k] /\ k \in DOMAIN jobs
        BY <1>5, <3>2
      <4>2. ASSUME NEW d, Reached(d) PROVE Reached(d)'
        BY <1>3, <4>2 DEF Reached
      <4>3. ASSUME NEW u, Reached(DestinationIn(market, u)) PROVE Reached(DestinationIn(market, u))'
        BY <1>1, <4>2, <4>3
      <4> QED BY <1>2, <4>1, <4>3 DEF StoreInv
    <3> QED BY <3>1, <3>2
  <2>2. IsFiniteSet(written)
    BY <1>2 DEF StoreInv
  <2> QED BY <1>1, <1>3, <1>5, <2>1, <2>2 DEF StoreInv
<1>8. Active' = Active /\ Indexes' = Indexes
  BY <1>1 DEF Active, Indexes
<1>9. \A o, u : OutcomeOf(o, u)' <=> OutcomeOf(o, u)
  BY <1>1 DEF OutcomeOf
<1>10. CallInv'
  <2>1. icall # Idle
    <3>1. DOMAIN jobs # {}
      OBVIOUS
    <3>2. DOMAIN <<>> = {}
      OBVIOUS
    <3> QED BY <3>1, <3>2 DEF InventoryInv, CallInv
  <2> QED BY <1>1, <1>8, <2>1 DEF InventoryInv, CallInv
<1>11. TaskInv' /\ SentInv' /\ PreviewInv'
  BY <1>1, <1>8, PreviewStays DEF InventoryInv, TaskInv, SentInv
<1>12. AnswerInv'
  BY <1>1, <1>8, <1>9 DEF InventoryInv, AnswerInv
<1>13. FeedInv'
  <2> SUFFICES ASSUME Active PROVE FeedInv'
    BY <1>8 DEF FeedInv
  <2>1. \A c \in DOMAIN jobs' : Range(jobs'[c].lines) = {LineIn(market, u) : u \in Range(FeedChunks(icall.feed)[c])}
    BY <1>5, <1>6 DEF InventoryInv, FeedInv
  <2>2. /\ Distinct(icall.feed) /\ \A u \in Range(icall.feed) : FeedItem(market, u) /\ u.inputIndex \in Indexes
        /\ Len(jobs) <= Len(FeedChunks(icall.feed))
        /\ icall.phase \in {"wait", "done"} => Len(jobs) = Len(FeedChunks(icall.feed))
        /\ icall.phase = "wait" => icall.next \in 1 .. Len(jobs)
    BY DEF InventoryInv, FeedInv
  <2> QED BY <1>1, <1>5, <1>8, <2>1, <2>2 DEF FeedInv
<1>14. ToolInv'
  BY <1>1, <1>8 DEF InventoryInv, ToolInv
<1>15. TruthInv'
  <2>1. \A o : Backed(o) => Backed(o)'
    <3>1. \A k \in DOMAIN jobs : k \in DOMAIN jobs' /\ (jobs[k].status = "FINISHED" => jobs'[k] = jobs[k])
      BY <1>1, <1>5
    <3> QED BY <1>1, <1>3, <3>1, BackedStays
  <2> QED BY <1>1, <1>8, <2>1 DEF InventoryInv, TruthInv
<1> QED BY <1>7, <1>10, <1>11, <1>12, <1>13, <1>14, <1>15 DEF InventoryInv

-----------------------------------------------------------------------------
(* A chunk is submitted.                                                   *)
LEMMA SubmitHolds ==
  ASSUME InventoryAssumption, InventoryInv, SubmitChunk
  PROVE  InventoryInv'
<1> DEFINE chunks == FeedChunks(icall.feed)
           c == Len(jobs) + 1
           lines == FeedLines(chunks[c])
           all == c = Len(chunks)
           job == [status |-> "SUBMITTED", lines |-> lines, records |-> <<>>]
           new == {Outcome(u, "submitted") : u \in Range(icall.feed)}
<1>1. DirectIsDone /\ icall.phase = "direct" /\ inFlight = {} /\ c <= Len(chunks)
  BY DEF SubmitChunk, DirectIsDone, InventoryInv, StoreInv, FeedInv, IsList, Active
<1>2. Active /\ DOMAIN icall = CallFields
  BY <1>1 DEF Active, InventoryInv, CallInv
<1>3. Distinct(icall.feed) /\ \A u \in Range(icall.feed) : FeedItem(market, u) /\ u.inputIndex \in Indexes
  BY <1>2 DEF InventoryInv, FeedInv
<1>4. /\ IsList(chunks)
      /\ \A d \in DOMAIN chunks : IsList(chunks[d]) /\ Range(chunks[d]) \subseteq Range(icall.feed)
      /\ \A u \in Range(icall.feed) : \E d \in DOMAIN chunks : u \in Range(chunks[d])
      /\ {icall.feed[a.inputIndex + 1] : a \in Assignments(icall.feed)} = Range(icall.feed)
  BY <1>3, ChunksAre DEF Distinct
<1>5. PICK n \in Nat : n = Len(jobs) /\ DOMAIN jobs = 1 .. n /\ c = n + 1
  BY DEF InventoryInv, StoreInv, IsList
<1>6. c \in DOMAIN chunks /\ DOMAIN chunks = 1 .. Len(chunks) /\ Len(chunks) \in Nat
  BY <1>1, <1>4, <1>5 DEF IsList
<1>7. /\ IsList(lines)
      /\ \A k \in DOMAIN lines : k \in DOMAIN chunks[c] /\ lines[k] = LineIn(market, chunks[c][k])
      /\ Range(lines) = {LineIn(market, u) : u \in Range(chunks[c])}
  BY <1>4, <1>6, FeedLinesAre
<1>8. /\ written' = written \cup Range(lines)
      /\ UNCHANGED <<market, ipreview, stock, ignored, inFlight>>
      /\ \/ /\ jobs' = Append(jobs, job)
            /\ icall' = IF ~all THEN icall
                        ELSE [icall EXCEPT !.outcomes = @ \cup new, !.next = 1, !.tasks = <<>>,
                                           !.phase = IF icall.wait THEN "wait" ELSE "done"]
         \/ /\ icall' = [phase |-> "thrown", via |-> icall.via]
            /\ UNCHANGED jobs
  BY <1>4 DEF SubmitChunk
<1>9. job.status = "SUBMITTED" /\ job.lines = lines /\ DOMAIN job = {"status", "lines", "records"}
  OBVIOUS
<1> HIDE DEF lines, job
<1>10. IsFiniteSet(written') /\ written \subseteq written'
  BY <1>7, <1>8, FiniteRange, FS_Union DEF InventoryInv, StoreInv
<1>11. PreviewInv'
  BY <1>8, PreviewStays DEF InventoryInv
<1>12. CASE icall' = [phase |-> "thrown", via |-> icall.via] /\ UNCHANGED jobs
  <2>1. StoreInv'
    BY <1>8, <1>10, <1>12, StoreGrows DEF InventoryInv
  <2>2. icall'.phase = "thrown" /\ inFlight' = {}
    BY <1>1, <1>8, <1>12
  <2> QED BY <1>11, <2>1, <2>2, ThrownHolds
<1>13. CASE /\ jobs' = Append(jobs, job)
            /\ icall' = IF ~all THEN icall
                        ELSE [icall EXCEPT !.outcomes = @ \cup new, !.next = 1, !.tasks = <<>>,
                                           !.phase = IF icall.wait THEN "wait" ELSE "done"]
  <2>1. /\ IsList(jobs') /\ jobs' \in Seq(Range(jobs')) /\ DOMAIN jobs' = 1 .. c /\ Len(jobs') = c
        /\ jobs'[c] = job /\ \A k \in DOMAIN jobs : jobs'[k] = jobs[k]
    <3> DEFINE S == Range(jobs) \cup {job}
    <3>1. jobs \in Seq(S)
      BY DEF InventoryInv, StoreInv
    <3>2. jobs' \in Seq(S) /\ Len(jobs') = n + 1 /\ jobs'[n + 1] = job /\ \A k \in 1 .. n : jobs'[k] = jobs[k]
      BY <1>5, <1>13, <3>1, AppendProperties
    <3>3. DOMAIN jobs' = 1 .. n + 1 /\ jobs' \in Seq(Range(jobs'))
      BY <3>2 DEF Range
    <3> QED BY <1>5, <3>2, <3>3 DEF IsList
  <2>2. \A k \in DOMAIN jobs' : k \in DOMAIN jobs \/ k = c
    BY <1>5, <2>1
  <2>3. \A k \in DOMAIN lines : \E v : FeedItem(market, v) /\ lines[k] = LineIn(market, v)
    <3> SUFFICES ASSUME NEW k \in DOMAIN lines PROVE \E v : FeedItem(market, v) /\ lines[k] = LineIn(market, v)
      OBVIOUS
    <3>1. chunks[c][k] \in Range(icall.feed)
      BY <1>4, <1>6, <1>7 DEF Range
    <3> QED BY <1>3, <1>7, <3>1
  <2>4. StoreInv'
    <3>1. ASSUME NEW k \in DOMAIN jobs'
          PROVE  /\ DOMAIN jobs'[k] = {"status", "lines", "records"}
                 /\ IsList(jobs'[k].lines) /\ Range(jobs'[k].lines) \subseteq written'
                 /\ \A i \in DOMAIN jobs'[k].lines : \E v : FeedItem(market, v) /\ jobs'[k].lines[i] = LineIn(market, v)
                 /\ jobs'[k].status = "FINISHED" =>
                      \A u : /\ FeedItem(market, u) /\ LineIn(market, u) \in Range(jobs'[k].lines)
                             /\ FoldIn(market, u, jobs'[k].records) \in {"succeeded", "warning"}
                             => \/ Reached(DestinationIn(market, u))'
                                \/ MayWarn(market, u, jobs'[k].records)
      <4>1. CASE k = c
        BY <1>7, <1>8, <1>9, <2>1, <2>3, <4>1
      <4>2. CASE k \in DOMAIN jobs
        <5>1. jobs'[k] = jobs[k]
          BY <2>1, <4>2
        <5>2. ASSUME NEW u, Reached(DestinationIn(market, u)) PROVE Reached(DestinationIn(market, u))'
          BY <1>8, <5>2 DEF Reached
        <5> QED BY <1>10, <4>2, <5>1, <5>2 DEF InventoryInv, StoreInv
      <4> QED BY <2>2, <4>1, <4>2
    <3>2. \A d \in DOMAIN stock : <<d, stock[d]>> \in written'
      BY <1>10 DEF InventoryInv, StoreInv
    <3> QED BY <1>8, <1>10, <2>1, <3>1, <3>2 DEF StoreInv
  <2>5. \A d \in DOMAIN jobs' : Range(jobs'[d].lines) = {LineIn(market, u) : u \in Range(chunks[d])}
    <3> SUFFICES ASSUME NEW d \in DOMAIN jobs' PROVE Range(jobs'[d].lines) = {LineIn(market, u) : u \in Range(chunks[d])}
      OBVIOUS
    <3>1. CASE d = c
      BY <1>7, <1>9, <2>1, <3>1
    <3>2. CASE d \in DOMAIN jobs
      BY <1>2, <2>1, <3>2 DEF InventoryInv, FeedInv
    <3> QED BY <2>2, <3>1, <3>2
  <2>6. \A l \in Range(lines) : \E u \in Range(icall.feed) : l = LineIn(market, u)
    BY <1>4, <1>6, <1>7
  <2>10. \A o : Backed(o) => Backed(o)'
    BY <1>5, <1>8, <2>1, BackedStays
  <2>7. CASE ~all
    <3>1. icall' = icall
      BY <1>13, <2>7
    <3>2. Indexes' = Indexes /\ Active'
      BY <1>2, <3>1 DEF Indexes, Active
    <3>3. CallInv'
      <4>1. icall # Idle
        BY <1>1 DEF Idle
      <4> QED BY <1>1, <1>2, <1>8, <3>1, <4>1 DEF InventoryInv, CallInv
    <3>4. TaskInv' /\ ToolInv'
      <4>1. icall.next \in 1 .. Len(icall.tasks) + 1 /\ inFlight \subseteq 1 .. icall.next - 1
        BY <1>1 DEF InventoryInv, TaskInv
      <4> QED BY <1>1, <1>8, <3>1, <4>1, CallStays DEF InventoryInv
    <3>5. AnswerInv'
      <4>1. \A o, u : OutcomeOf(o, u)' <=> OutcomeOf(o, u)
        BY <1>8 DEF OutcomeOf
      <4> QED BY <1>1, <1>2, <1>8, <3>1, <4>1 DEF InventoryInv, AnswerInv
    <3>6. FeedInv'
      BY <1>1, <1>3, <1>8, <2>1, <2>5, <3>1, <3>2 DEF FeedInv
    <3>7. SentInv'
      <4>1. \A t \in 1 .. icall.next - 1 : \A u \in Range(icall.tasks[t]) : LineIn(market, u) \in written'
        BY <1>1, <1>10 DEF InventoryInv, SentInv
      <4>2. ASSUME NEW l \in written'
            PROVE  \/ \E t \in DOMAIN icall.tasks : \E u \in Range(icall.tasks[t]) : l = LineIn(market, u)
                   \/ \E u \in Range(icall.feed) : l = LineIn(market, u)
        <5>1. CASE l \in written
          BY <1>1, <5>1 DEF InventoryInv, SentInv
        <5>2. CASE l \in Range(lines)
          BY <2>6, <5>2
        <5> QED BY <1>8, <5>1, <5>2
      <4> QED BY <1>8, <3>1, <4>1, <4>2 DEF SentInv
    <3>8. TruthInv'
      BY <1>2, <1>8, <1>10, <2>10, <3>1 DEF InventoryInv, TruthInv
    <3> QED BY <1>11, <2>4, <3>3, <3>4, <3>5, <3>6, <3>7, <3>8 DEF InventoryInv
  <2>8. CASE all
    <3>1. icall' = [icall EXCEPT !.outcomes = @ \cup new, !.next = 1, !.tasks = <<>>,
                                 !.phase = IF icall.wait THEN "wait" ELSE "done"]
      BY <1>13, <2>8
    <3>2. /\ DOMAIN icall' = CallFields /\ icall'.phase \in {"wait", "done"} /\ icall'.via = icall.via
          /\ icall'.count = icall.count /\ icall'.resolved = icall.resolved /\ icall'.dropped = icall.dropped
          /\ icall'.next = 1 /\ icall'.feed = icall.feed /\ icall'.outcomes = icall.outcomes \cup new
      <4> HIDE DEF new
      <4> QED BY <1>2, <3>1 DEF CallFields
    <3>3. Active' /\ icall' # Idle /\ Indexes' = Indexes /\ icall'.phase # "direct"
      BY <3>2 DEF Active, Idle, Indexes
    <3>4. \A o \in new : \E u \in Range(icall.feed) : /\ o = Outcome(u, "submitted") /\ o.inputIndex = u.inputIndex
                                                      /\ o.status = "submitted"
      BY DEF Outcome
    <3>5. ASSUME NEW u \in Range(icall.feed) PROVE \E o \in new : o.inputIndex = u.inputIndex
      <4>1. Outcome(u, "submitted") \in new
        OBVIOUS
      <4>2. Outcome(u, "submitted").inputIndex = u.inputIndex
        BY DEF Outcome
      <4> HIDE DEF new
      <4> QED BY <4>1, <4>2
    <3> HIDE DEF new
    <3>6. CallInv'
      BY <1>1, <1>2, <1>8, <3>2, <3>3 DEF InventoryInv, CallInv
    <3>7. TaskInv' /\ SentInv'
      BY <3>3 DEF TaskInv, SentInv
    <3>8. AnswerInv'
      <4>1. \A o, p \in icall.outcomes : o.inputIndex = p.inputIndex => o = p
        BY <1>2 DEF InventoryInv, AnswerInv
      <4>2. ASSUME NEW o \in icall.outcomes, NEW p \in new PROVE o.inputIndex # p.inputIndex
        BY <1>1, <3>4, DirectIsOver
      <4>3. ASSUME NEW o \in new, NEW p \in new, o.inputIndex = p.inputIndex PROVE o = p
        <5>1. PICK u \in Range(icall.feed) : o = Outcome(u, "submitted") /\ o.inputIndex = u.inputIndex
          BY <3>4
        <5>2. PICK v \in Range(icall.feed) : p = Outcome(v, "submitted") /\ p.inputIndex = v.inputIndex
          BY <3>4
        <5>3. u = v
          BY <1>3, <4>3, <5>1, <5>2 DEF Distinct, Range
        <5> QED BY <5>1, <5>2, <5>3
      <4>4. \A o, p \in icall'.outcomes : o.inputIndex = p.inputIndex => o = p
        BY <3>2, <4>1, <4>2, <4>3
      <4>5. ASSUME NEW o \in icall'.outcomes PROVE o.inputIndex \in Indexes
        <5>1. CASE o \in icall.outcomes
          BY <1>1, <5>1, DirectIsOver
        <5>2. CASE o \in new
          BY <1>3, <3>4, <5>2
        <5> QED BY <3>2, <5>1, <5>2
      <4>6. ASSUME NEW x \in Indexes PROVE \E o \in icall'.outcomes : o.inputIndex = x
        <5>1. CASE \E t \in DOMAIN icall.tasks : \E u \in Range(icall.tasks[t]) : u.inputIndex = x
          <6>1. PICK t \in DOMAIN icall.tasks : \E u \in Range(icall.tasks[t]) : u.inputIndex = x
            BY <5>1
          <6>2. PICK u \in Range(icall.tasks[t]) : u.inputIndex = x
            BY <6>1
          <6> QED BY <1>1, <3>2, <6>2, DirectIsOver
        <5>2. CASE \E u \in Range(icall.feed) : u.inputIndex = x
          BY <3>2, <3>5, <5>2
        <5> QED BY <1>1, <5>1, <5>2 DEF InventoryInv, TaskInv
      <4> QED BY <3>3, <4>4, <4>5, <4>6 DEF AnswerInv
    <3>9. FeedInv'
      <4>1. Len(jobs') = Len(chunks) /\ 1 \in 1 .. Len(jobs')
        BY <1>5, <2>1, <2>8
      <4>2. Distinct(icall.feed) /\ \A u \in Range(icall.feed) : FeedItem(market', u) /\ u.inputIndex \in Indexes'
        BY <1>3, <1>8, <3>3
      <4>3. Len(jobs') <= Len(chunks)
        BY <1>6, <4>1
      <4>4. \A d \in DOMAIN jobs' : Range(jobs'[d].lines) = {LineIn(market', u) : u \in Range(chunks[d])}
        BY <1>8, <2>5
      <4> HIDE DEF c
      <4> QED BY <3>2, <4>1, <4>2, <4>3, <4>4 DEF FeedInv
    <3>10. ToolInv'
      <4> SUFFICES ASSUME icall.via = "tool" PROVE ToolInv'
        BY <3>2 DEF ToolInv
      <4>1. /\ ipreview # NoPreview /\ icall.resolved = ipreview.resolved
            /\ ipreview.plannedFeedCount = FeedChunkCount(Len(icall.feed))
            /\ \A u \in Range(ipreview.updates) :
                 \/ \E t \in DOMAIN icall.tasks : \E v \in Range(icall.tasks[t]) : LineIn(market, v) = LineIn(market, u)
                 \/ \E v \in Range(icall.feed) : LineIn(market, v) = LineIn(market, u)
            /\ \A t \in DOMAIN icall.tasks : \A v \in Range(icall.tasks[t]) :
                 \E u \in Range(ipreview.updates) : LineIn(market, v) = LineIn(market, u)
            /\ \A v \in Range(icall.feed) : \E u \in Range(ipreview.updates) : LineIn(market, v) = LineIn(market, u)
        BY <1>1, <1>2 DEF InventoryInv, ToolInv
      <4>2. ASSUME NEW l \in written' PROVE \E u \in Range(ipreview.updates) : l = LineIn(market, u)
        <5>1. \/ \E t \in DOMAIN icall.tasks : \E v \in Range(icall.tasks[t]) : l = LineIn(market, v)
              \/ \E v \in Range(icall.feed) : l = LineIn(market, v)
          BY <1>1, <1>8, <2>6 DEF InventoryInv, SentInv
        <5>2. CASE \E t \in DOMAIN icall.tasks : \E v \in Range(icall.tasks[t]) : l = LineIn(market, v)
          <6>1. PICK t \in DOMAIN icall.tasks : \E v \in Range(icall.tasks[t]) : l = LineIn(market, v)
            BY <5>2
          <6>2. PICK v \in Range(icall.tasks[t]) : l = LineIn(market, v)
            BY <6>1
          <6> QED BY <4>1, <6>2
        <5>3. CASE \E v \in Range(icall.feed) : l = LineIn(market, v)
          BY <4>1, <5>3
        <5> QED BY <5>1, <5>2, <5>3
      <4>3. ASSUME NEW v \in Range(icall.feed) PROVE LineIn(market, v) \in written'
        <5>1. PICK d \in DOMAIN chunks : v \in Range(chunks[d])
          BY <1>4
        <5>2. d \in DOMAIN jobs'
          BY <1>6, <2>1, <2>8
        <5>3. LineIn(market, v) \in Range(jobs'[d].lines)
          BY <2>5, <5>1, <5>2
        <5> QED BY <2>4, <5>2, <5>3 DEF StoreInv
      <4>4. ASSUME NEW u \in Range(ipreview.updates) PROVE LineIn(market, u) \in written'
        <5>1. CASE \E v \in Range(icall.feed) : LineIn(market, v) = LineIn(market, u)
          BY <4>3, <5>1
        <5>2. CASE \E t \in DOMAIN icall.tasks : \E v \in Range(icall.tasks[t]) : LineIn(market, v) = LineIn(market, u)
          <6>1. PICK t \in DOMAIN icall.tasks : \E v \in Range(icall.tasks[t]) : LineIn(market, v) = LineIn(market, u)
            BY <5>2
          <6>2. PICK v \in Range(icall.tasks[t]) : LineIn(market, v) = LineIn(market, u)
            BY <6>1
          <6> QED BY <1>1, <1>10, <6>2, DirectIsOver
        <5> QED BY <4>1, <5>1, <5>2
      <4>5. written' = {LineIn(market, u) : u \in Range(ipreview.updates)}
        BY <4>2, <4>4
      <4> QED BY <1>8, <3>2, <4>1, <4>5 DEF ToolInv
    <3>11. TruthInv'
      <4> SUFFICES ASSUME NEW o \in icall'.outcomes, o.status \in {"succeeded", "warning"}
                   PROVE  Backed(o)' /\ <<o.destination, o.quantity>> \in written'
        BY DEF TruthInv
      <4>1. o \in icall.outcomes
        BY <3>2, <3>4
      <4> QED BY <1>2, <1>8, <1>10, <2>10, <4>1 DEF InventoryInv, TruthInv
    <3> QED BY <1>11, <2>4, <3>6, <3>7, <3>8, <3>9, <3>10, <3>11 DEF InventoryInv
  <2> QED BY <2>7, <2>8
<1> QED BY <1>8, <1>12, <1>13

-----------------------------------------------------------------------------
(* A feed has been waited for.                                             *)
LEMMA WaitHolds ==
  ASSUME InventoryAssumption, InventoryInv, WaitForResult
  PROVE  InventoryInv'
<1> DEFINE c == icall.next
           items == ItemsOf(icall.feed, c)
           untouched == {o \in icall.outcomes : ~\E u \in items : u.inputIndex = o.inputIndex}
           status(read, u) == IF read = "FINISHED" THEN FoldedResult(u, FeedResult(c))
                              ELSE IF read = "CANCELLED" THEN "failed" ELSE "submitted"
           new(read) == {Outcome(u, status(read, u)) : u \in items}
<1>1. icall.phase = "wait" /\ Active /\ DOMAIN icall = CallFields /\ icall # Idle /\ inFlight = {}
  BY DEF WaitForResult, Active, Idle, InventoryInv, CallInv
<1>2. /\ Distinct(icall.feed) /\ \A u \in Range(icall.feed) : FeedItem(market, u) /\ u.inputIndex \in Indexes
      /\ Len(jobs) = Len(FeedChunks(icall.feed)) /\ c \in 1 .. Len(jobs)
      /\ \A d \in DOMAIN jobs : Range(jobs[d].lines) = {LineIn(market, u) : u \in Range(FeedChunks(icall.feed)[d])}
  BY <1>1 DEF InventoryInv, FeedInv
<1>3. IsList(jobs) /\ c \in DOMAIN jobs /\ Len(jobs) \in Nat
  BY <1>2 DEF InventoryInv, StoreInv, IsList
<1>4. c \in DOMAIN FeedChunks(icall.feed) /\ items \subseteq Range(icall.feed)
      /\ items = Range(FeedChunks(icall.feed)[c])
  <2>1. IsList(icall.feed)
    BY <1>2 DEF Distinct
  <2>2. /\ IsList(FeedChunks(icall.feed))
        /\ \A d \in DOMAIN FeedChunks(icall.feed) :
             /\ Range(FeedChunks(icall.feed)[d]) \subseteq Range(icall.feed)
             /\ ItemsOf(icall.feed, d) = Range(FeedChunks(icall.feed)[d])
    BY <2>1, ChunksAre
  <2>3. c \in DOMAIN FeedChunks(icall.feed)
    BY <1>2, <2>2 DEF IsList
  <2> QED BY <2>2, <2>3
<1>5. /\ UNCHANGED <<market, ipreview, stock, ignored, written, inFlight, jobs>>
      /\ \E read \in SeenStatus(c) :
           \/ icall' = [icall EXCEPT !.outcomes = untouched \cup new(read),
                                     !.next = c + 1, !.phase = IF c = Len(jobs) THEN "done" ELSE "wait"]
           \/ icall' = [phase |-> "thrown", via |-> icall.via]
  BY DEF WaitForResult
<1>6. PreviewInv' /\ StoreInv'
  BY <1>5, StoreStays, PreviewStays DEF InventoryInv
<1>7. CASE icall' = [phase |-> "thrown", via |-> icall.via]
  BY <1>1, <1>5, <1>6, <1>7, ThrownHolds
<1>8. ASSUME NEW read \in SeenStatus(c),
             icall' = [icall EXCEPT !.outcomes = untouched \cup new(read),
                                    !.next = c + 1, !.phase = IF c = Len(jobs) THEN "done" ELSE "wait"]
      PROVE  InventoryInv'
  <2>1. \A o \in new(read) : \E u \in items :
          /\ o.inputIndex = u.inputIndex /\ o = Outcome(u, status(read, u)) /\ o.status = status(read, u)
          /\ o.destination = DestinationIn(market, u) /\ o.quantity = u.quantity
    <3> HIDE DEF status
    <3>1. ASSUME NEW u \in items
          PROVE  LET o == Outcome(u, status(read, u)) IN
                 /\ o.inputIndex = u.inputIndex /\ o.status = status(read, u)
                 /\ o.destination = DestinationIn(market, u) /\ o.quantity = u.quantity
      BY LineIs DEF Outcome
    <3> QED BY <3>1
  <2>2. \A u \in items : \E o \in new(read) : o.inputIndex = u.inputIndex
    <3> HIDE DEF status
    <3>1. ASSUME NEW u \in items PROVE \E o \in new(read) : o.inputIndex = u.inputIndex
      <4>1. Outcome(u, status(read, u)) \in new(read) /\ Outcome(u, status(read, u)).inputIndex = u.inputIndex
        BY DEF Outcome
      <4> QED BY <4>1
    <3> QED BY <3>1
  <2> HIDE DEF new
  <2>3. /\ DOMAIN icall' = CallFields /\ icall'.phase = (IF c = Len(jobs) THEN "done" ELSE "wait")
        /\ icall'.via = icall.via /\ icall'.count = icall.count /\ icall'.resolved = icall.resolved
        /\ icall'.dropped = icall.dropped /\ icall'.next = c + 1 /\ icall'.feed = icall.feed
        /\ icall'.outcomes = untouched \cup new(read)
    <3> HIDE DEF untouched
    <3> QED BY <1>1, <1>8 DEF CallFields
  <2>4. /\ icall'.phase \in {"wait", "done"} /\ icall'.phase # "direct" /\ Active'
        /\ icall' # Idle /\ Indexes' = Indexes
    BY <2>3 DEF Active, Idle, Indexes
  <2>5. CallInv'
    BY <1>1, <1>5, <2>3, <2>4 DEF InventoryInv, CallInv
  <2>6. TaskInv' /\ SentInv'
    BY <2>4 DEF TaskInv, SentInv
  <2>7. AnswerInv'
    <3>1. /\ \A o, p \in icall.outcomes : o.inputIndex = p.inputIndex => o = p
          /\ \A o \in icall.outcomes : o.inputIndex \in Indexes
          /\ \A x \in Indexes : \E o \in icall.outcomes : o.inputIndex = x
      BY <1>1 DEF InventoryInv, AnswerInv
    <3>2. ASSUME NEW o \in untouched, NEW p \in new(read) PROVE o.inputIndex # p.inputIndex
      BY <2>1
    <3>3. ASSUME NEW o \in new(read), NEW p \in new(read), o.inputIndex = p.inputIndex PROVE o = p
      <4>1. PICK u \in items : o.inputIndex = u.inputIndex /\ o = Outcome(u, status(read, u))
        BY <2>1
      <4>2. PICK v \in items : p.inputIndex = v.inputIndex /\ p = Outcome(v, status(read, v))
        BY <2>1
      <4>3. u \in Range(icall.feed) /\ v \in Range(icall.feed) /\ u.inputIndex = v.inputIndex
        BY <1>4, <3>3, <4>1, <4>2
      <4>4. u = v
        BY <1>2, <4>3 DEF Distinct, Range
      <4> QED BY <4>1, <4>2, <4>4
    <3>4. \A o, p \in icall'.outcomes : o.inputIndex = p.inputIndex => o = p
      BY <2>3, <3>1, <3>2, <3>3
    <3>5. \A o \in icall'.outcomes : o.inputIndex \in Indexes
      BY <1>2, <1>4, <2>1, <2>3, <3>1
    <3>6. ASSUME NEW x \in Indexes PROVE \E o \in icall'.outcomes : o.inputIndex = x
      <4>1. CASE \E u \in items : u.inputIndex = x
        BY <2>2, <2>3, <4>1
      <4>2. CASE ~\E u \in items : u.inputIndex = x
        <5>1. PICK o \in icall.outcomes : o.inputIndex = x
          BY <3>1
        <5>2. o \in untouched
          BY <4>2, <5>1
        <5> QED BY <2>3, <5>1, <5>2
      <4> QED BY <4>1, <4>2
    <3> QED BY <2>4, <3>4, <3>5, <3>6 DEF AnswerInv
  <2>8. FeedInv'
    <3>1. icall'.phase = "wait" => icall'.next \in 1 .. Len(jobs)
      BY <1>2, <1>3, <2>3
    <3>2. \A u \in Range(icall.feed) : FeedItem(market, u) /\ u.inputIndex \in Indexes'
      BY <1>2, <2>4
    <3>3. \A d \in DOMAIN jobs' : Range(jobs'[d].lines) = {LineIn(market', u) : u \in Range(FeedChunks(icall.feed)[d])}
      BY <1>2, <1>5
    <3>4. Len(jobs') = Len(FeedChunks(icall.feed)) /\ Len(jobs') <= Len(FeedChunks(icall.feed))
      BY <1>2, <1>3, <1>5
    <3> HIDE DEF c, items
    <3> QED BY <1>2, <1>5, <2>3, <3>1, <3>2, <3>3, <3>4 DEF FeedInv
  <2>9. ToolInv'
    <3>1. ToolInv
      BY DEF InventoryInv
    <3> QED BY <1>1, <1>5, <2>3, <2>4, <3>1 DEF ToolInv
  <2>10. TruthInv'
    <3> SUFFICES ASSUME NEW o \in icall'.outcomes, o.status \in {"succeeded", "warning"}
                 PROVE  Backed(o) /\ <<o.destination, o.quantity>> \in written
      <4>1. \A o : Backed(o) => Backed(o)'
        BY <1>5, BackedStays
      <4> QED BY <1>5, <4>1 DEF TruthInv
    <3>1. CASE o \in icall.outcomes
      BY <1>1, <3>1 DEF InventoryInv, TruthInv
    <3>2. CASE o \in new(read)
      <4>1. PICK u \in items : /\ o.status = status(read, u)
                               /\ o.destination = DestinationIn(market, u) /\ o.quantity = u.quantity
        BY <2>1, <3>2
      <4>2. read = "FINISHED" /\ jobs[c].status = "FINISHED"
        BY <4>1 DEF SeenStatus
      <4>3. FoldIn(market, u, jobs[c].records) \in {"succeeded", "warning"}
        BY <4>1, <4>2, FoldedResultIs DEF FeedResult
      <4>4. FeedItem(market, u) /\ LineIn(market, u) \in Range(jobs[c].lines)
        <5>1. u \in Range(icall.feed) /\ u \in Range(FeedChunks(icall.feed)[c])
          BY <1>4
        <5>2. Range(jobs[c].lines) = {LineIn(market, v) : v \in Range(FeedChunks(icall.feed)[c])}
          BY <1>2, <1>3
        <5> HIDE DEF c, items
        <5> QED BY <1>2, <5>1, <5>2
      <4>5. /\ Range(jobs[c].lines) \subseteq written
            /\ Reached(DestinationIn(market, u)) \/ MayWarn(market, u, jobs[c].records)
        <5> HIDE DEF c
        <5> QED BY <1>3, <4>2, <4>3, <4>4 DEF InventoryInv, StoreInv
      <4>6. LineIn(market, u) = <<o.destination, o.quantity>>
        BY <4>1 DEF LineIn
      <4>7. Backed(o)
        <5>1. CASE Reached(DestinationIn(market, u))
          BY <4>1, <5>1 DEF Backed
        <5>2. CASE MayWarn(market, u, jobs[c].records)
          <6>1. o.status = "warning"
            BY <4>1, <4>2, <5>2, FoldedResultIs DEF MayWarn, FeedResult
          <6>2. o.destination[2] = u.value
            BY <4>1 DEF DestinationIn
          <6> HIDE DEF c
          <6>3. ReadsAlike(o.destination)
            BY <1>3, <4>2, <5>2, <6>2 DEF ReadsAlike, MayWarn
          <6> QED BY <6>1, <6>3 DEF Backed
        <5> QED BY <4>5, <5>1, <5>2
      <4> QED BY <4>4, <4>5, <4>6, <4>7
    <3> QED BY <2>3, <3>1, <3>2
  <2> QED BY <1>6, <2>5, <2>6, <2>7, <2>8, <2>9, <2>10 DEF InventoryInv
<1> QED BY <1>5, <1>7, <1>8

(* Every step of the call, and of Newegg, preserves the invariant.         *)
LEMMA InventoryStep ==
  InventoryAssumption /\ InventoryInv /\ [InventoryNext]_inventoryVars => InventoryInv'
<1> SUFFICES ASSUME InventoryAssumption, InventoryInv, [InventoryNext]_inventoryVars
             PROVE  InventoryInv'
  OBVIOUS
<1>1. \A us \in Lists : IsList(us)
  <2> SUFFICES ASSUME NEW us \in Lists PROVE IsList(us)
    OBVIOUS
  <2>1. MaxUpdates \in Nat
    BY DEF InventoryAssumption
  <2>2. PICK n \in 1 .. MaxUpdates : us \in [1 .. n -> Updates]
    BY DEF Lists
  <2>3. DOMAIN us = 1 .. n /\ n \in Nat
    BY <2>1, <2>2
  <2>4. Len(us) = n
    BY <2>1, <2>2
  <2> QED BY <2>3, <2>4 DEF IsList
<1>2. ASSUME NEW us \in Lists, NEW strategy \in {"direct", "feed", "auto"}, PreviewInventory(us, strategy)
      PROVE  InventoryInv'
  BY <1>1, <1>2, PreviewHolds
<1>3. ASSUME NEW us \in Lists, NEW strategy \in {"direct", "feed", "auto"}, NEW wait \in BOOLEAN,
             UpdateMany(us, strategy, wait)
      PROVE  InventoryInv'
  <2>1. icall = Idle /\ UNCHANGED <<market, ipreview, stock, ignored, written, inFlight, jobs>>
    BY <1>3 DEF UpdateMany
  <2>2. IsList(us)
    BY <1>1
  <2>3. CASE ExecuteUpdate(us, strategy, "sdk", wait, DEFAULT_DIRECT_CONCURRENCY)
    <3>1. "sdk" = "tool" => ipreview # NoPreview /\ us = ipreview.updates /\ strategy = ipreview.strategy
      OBVIOUS
    <3> QED BY <2>1, <2>2, <2>3, <3>1, ExecuteHolds
  <2>4. CASE ExecuteUpdate(us, strategy, "sdk", FALSE, 1)
    <3>1. "sdk" = "tool" => ipreview # NoPreview /\ us = ipreview.updates /\ strategy = ipreview.strategy
      OBVIOUS
    <3> QED BY <2>1, <2>2, <2>4, <3>1, ExecuteHolds
  <2> QED BY <1>3, <2>3, <2>4 DEF UpdateMany
<1>4. ASSUME NEW us \in Lists, GetMany(DistinctIdentifiers(us))
      PROVE  InventoryInv'
  <2>1. UNCHANGED <<market, icall, ipreview, stock, ignored, written, inFlight, jobs>>
    BY <1>4 DEF GetMany
  <2> QED BY <2>1, ReadHolds
<1>5. CASE ApplyInventory
  <2>1. /\ icall = Idle /\ ipreview # NoPreview /\ UNCHANGED <<market, ipreview, stock, ignored, written, inFlight, jobs>>
        /\ ExecuteUpdate(ipreview.updates, ipreview.strategy, "tool", FALSE, DEFAULT_DIRECT_CONCURRENCY)
    BY <1>5 DEF ApplyInventory
  <2>2. IsList(ipreview.updates)
    BY <2>1 DEF InventoryInv, PreviewInv
  <2> QED BY <2>1, <2>2, ExecuteHolds
<1>6. CASE UNCHANGED inventoryVars
  BY <1>6, ReadHolds DEF inventoryVars
<1>7. ASSUME NEW t \in inFlight, DirectEnds(t) PROVE InventoryInv'
  BY <1>7, DirectEndsHolds
<1>8. ASSUME NEW j \in DOMAIN jobs, ProcessFeed(j) PROVE InventoryInv'
  BY <1>8, ProcessHolds
<1> QED BY <1>2, <1>3, <1>4, <1>5, <1>6, <1>7, <1>8, SendHolds, AbortHolds, SubmitHolds, WaitHolds, AnswerHolds
        DEF InventoryNext

-----------------------------------------------------------------------------
(* Every update of a call that has returned is answered, and truly.        *)
LEMMA AnsweredWhenDone ==
  ASSUME InventoryInv, Finished
  PROVE  UpdatesAnsweredTruly
<1> DEFINE told == {o.inputIndex : o \in icall.outcomes}
<1>1. Active /\ icall.phase = "done"
  BY DEF Finished, Active
<1>2. /\ \A o, p \in icall.outcomes : o.inputIndex = p.inputIndex => o = p
      /\ \A o \in icall.outcomes : o.inputIndex \in Indexes
      /\ \A x \in Indexes : \E o \in icall.outcomes : o.inputIndex = x
      /\ icall.dropped \subseteq 0 .. icall.count - 1
  BY <1>1 DEF InventoryInv, AnswerInv, CallInv
<1>3. told = Indexes
  BY <1>2
<1>4. told \cap icall.dropped = {} /\ told \cup icall.dropped = 0 .. icall.count - 1
  BY <1>2, <1>3 DEF Indexes
<1>5. Cardinality(told) = Cardinality(icall.outcomes)
  <2> DEFINE indexOf == [o \in icall.outcomes |-> o.inputIndex]
  <2>1. indexOf \in [icall.outcomes -> told]
    OBVIOUS
  <2>2. \A o, p \in icall.outcomes : indexOf[o] = indexOf[p] => o = p
    BY <1>2
  <2>3. \A x \in told : \E o \in icall.outcomes : indexOf[o] = x
    OBVIOUS
  <2>4. IsFiniteSet(told)
    <3>1. icall.count \in Nat /\ told \subseteq 0 .. icall.count - 1
      BY <1>1, <1>3 DEF Indexes, InventoryInv, CallInv
    <3>2. IsFiniteSet(0 .. icall.count - 1)
      BY <3>1, FS_Interval
    <3> QED BY <3>1, <3>2, FS_Subset
  <2> HIDE DEF indexOf, told
  <2>5. indexOf \in Bijection(icall.outcomes, told)
    BY <2>1, <2>2, <2>3, Fun_IsBij
  <2>6. ExistsBijection(told, icall.outcomes)
    BY <2>5, Fun_ExistsBijSymmetric DEF ExistsBijection
  <2> QED BY <2>4, <2>6, FS_Bijection
<1>6. ASSUME NEW o \in icall.outcomes, o.status \in {"succeeded", "warning"}, Unexcused(o)
      PROVE  o.destination \in DOMAIN stock /\ stock[o.destination] = o.quantity
  <2> DEFINE d == o.destination
             sent == {l \in written : l[1] = d}
  <2>1. d \in DOMAIN stock /\ <<d, o.quantity>> \in written
    BY <1>1, <1>6 DEF InventoryInv, TruthInv, Backed, Reached, Unexcused
  <2>2. <<d, stock[d]>> \in written /\ IsFiniteSet(written)
    BY <2>1 DEF InventoryInv, StoreInv
  <2>3. IsFiniteSet(sent) /\ Cardinality(sent) = 1
    BY <1>6, <2>2, FS_Subset DEF Settled, Unexcused
  <2>4. <<d, o.quantity>> \in sent /\ <<d, stock[d]>> \in sent
    BY <2>1, <2>2
  <2> HIDE DEF sent
  <2>5. PICK l : sent = {l}
    BY <2>3, FS_Singleton
  <2>6. <<d, o.quantity>> = <<d, stock[d]>>
    BY <2>4, <2>5
  <2> QED BY <2>1, <2>6
<1> QED BY <1>4, <1>5, <1>6 DEF UpdatesAnsweredTruly

(* A call of the tool that has returned did what its preview showed.       *)
LEMMA ExecutedWhenDone ==
  ASSUME InventoryAssumption, InventoryInv, Finished, icall.via = "tool"
  PROVE  PlanIsExecuted
<1>1. Active /\ icall.phase = "done"
  BY DEF Finished, Active
<1>2. /\ ipreview # NoPreview /\ icall.resolved = ipreview.resolved
      /\ ipreview.plannedFeedCount = FeedChunkCount(Len(icall.feed))
      /\ written = {LineIn(market, u) : u \in Range(ipreview.updates)}
  BY <1>1 DEF InventoryInv, ToolInv
<1>3. Len(jobs) = ipreview.plannedFeedCount
  <2>1. IsList(icall.feed) /\ Len(jobs) = Len(FeedChunks(icall.feed))
    BY <1>1 DEF InventoryInv, FeedInv, Distinct
  <2> QED BY <1>2, <2>1, ChunksAre
<1>4. \A u : LineIn(market, u) = <<Destination(u), u.quantity>>
  BY LineIs DEF LineIn
<1>5. written = {<<Destination(u), u.quantity>> : u \in Range(ipreview.updates)}
  BY <1>2, <1>4
<1>6. ASSUME NEW l \in written PROVE allowZeroQuantity \/ l[2] > 0
  <2>1. PICK u \in Range(ipreview.updates) : l = <<Destination(u), u.quantity>>
    BY <1>5
  <2>2. allowZeroQuantity \/ u.quantity > 0
    BY <1>2 DEF InventoryInv, PreviewInv
  <2> QED BY <2>1, <2>2
<1> QED BY <1>2, <1>3, <1>5, <1>6 DEF PlanIsExecuted

(* The invariant holds.                                                    *)
LEMMA InventorySafe == InventorySpec => []InventoryInv
<1>1. InventoryAssumption
  BY InventoryAssumption
<1> QED BY <1>1, InventoryInitHolds, InventoryStep, PTL DEF InventorySpec

(* Every update of a batch is dropped for a later one or has one outcome,  *)
(* in the index of the caller's list, and one that is reported succeeded   *)
(* is what Newegg holds (inventory/api.ts:427, 506, 569), unless its item  *)
(* is deactivated, another quantity was sent to the same place, or the     *)
(* record that warns of it names no warehouse and follows a failure: for   *)
(* lists of any length, any chunk size and concurrency, any number of      *)
(* feeds, and any order of answers.                                        *)
THEOREM UpdatesAreAnswered == InventorySpec => []UpdatesAnsweredTruly
<1>1. InventoryInv => UpdatesAnsweredTruly
  BY AnsweredWhenDone DEF UpdatesAnsweredTruly
<1> QED BY <1>1, InventorySafe, PTL

(* Applying a preview sends what it showed and nothing else, in as many    *)
(* feeds, although it is validated, deduplicated and planned a second time *)
(* (tools/inventory-apply.ts:48): a list without repetitions is kept as it *)
(* is, and one that asks for the same is planned alike.                    *)
THEOREM PreviewsAreExecuted == InventorySpec => []PlanIsExecuted
<1>1. InventoryInv => PlanIsExecuted
  BY InventoryAssumption, ExecutedWhenDone DEF PlanIsExecuted
<1> QED BY <1>1, InventorySafe, PTL
=============================================================================
