---------------------------- MODULE LabelLedger ----------------------------
(***************************************************************************)
(* The per-order ledger of shipping-label purchases: the `create` call of  *)
(* sdk/src/shippinglabel/api.ts, the LabelCreateLedger of ledger.ts, and   *)
(* the outcome classes of send.ts.  A label purchase is not idempotent, so *)
(* each call records `submitting` in a store shared by several processes   *)
(* before it sends, and settles the record afterwards.                     *)
(*                                                                         *)
(* Ledger keys never interact, so the module follows ONE order.  An        *)
(* attempt stands for one `create` call and the attempt id it draws.  Of   *)
(* the stored requestIds only the newest is kept: it is the only one any   *)
(* guard reads.                                                            *)
(***************************************************************************)
EXTENDS Integers

CONSTANTS
  Attempts,    \* create calls, each with its own attempt id
  Procs,       \* processes sharing the store; each has its own claim cache
  Home,        \* Home[a]: the process that runs call a
  NoRec,       \* no record
  NoAck,       \* the call acknowledges nothing
  TTL,         \* labelCreateGuardWindowMs, in ticks
  MaxPersist,  \* MAX_PERSIST_ATTEMPTS
  MaxTime,     \* bound on the clock
  HasCAS,      \* the store offers compareAndPut
  Persistent,  \* the store survives a crash of a process (a file)
  Patient,     \* records are acknowledged or cleared only once their call ended
  Prompt       \* a call ends within the guard window

ASSUME LedgerAssumption ==
  /\ Home \in [Attempts -> Procs]
  /\ NoAck \notin Attempts
  /\ TTL \in Nat /\ MaxPersist \in Nat \ {0} /\ MaxTime \in Nat
  /\ HasCAS \in BOOLEAN /\ Persistent \in BOOLEAN
  /\ Patient \in BOOLEAN /\ Prompt \in BOOLEAN

(***************************************************************************)
(* StoredOperation: state, newest attempt id, updatedAt.                   *)
(***************************************************************************)
Record == [state : {"submitting", "submitted", "failed"}, id : Attempts, at : Nat]

ASSUME NoRecAssumption == NoRec \notin Record

VARIABLES
  now,        \* the clock (Date.now)
  store,      \* the shared record of the order, or NoRec
  cache,      \* cache[p]: the claim cache of process p
  pc,         \* pc[a]: where call a is
  held,       \* held[a]: the record a read from, or is about to write to, the store
  prev,       \* prev[a]: what a's claim displaced from the cache
  ack,        \* ack[a]: the attempt a acknowledged, or NoAck
  tries,      \* tries[a]: compare-and-set rounds a has used
  claimedAt,  \* claimedAt[a]: updatedAt of a's claim
  fate,       \* fate[a]: what became of the request at Newegg
  waived      \* history: attempts superseded knowingly (acknowledged, cleared)

vars == <<now, store, cache, pc, held, prev, ack, tries, claimedAt, fate, waived>>

-----------------------------------------------------------------------------
Claim(a) == [state |-> "submitting", id |-> a, at |-> claimedAt[a]]

(***************************************************************************)
(* #active: a record blocks a new create unless it is `failed` or older    *)
(* than the guard window.                                                  *)
(***************************************************************************)
Active(r) == /\ r # NoRec
             /\ r.state # "failed"
             /\ now - r.at <= TTL

(* `read` prefers the cached record on a tie. *)
Newest(cached, stored) ==
  IF cached # NoRec /\ stored # NoRec
    THEN IF cached.at >= stored.at THEN cached ELSE stored
    ELSE IF cached # NoRec THEN cached ELSE stored

(* Calls that hold a claim, from the claim to the end of the settling write. *)
Busy == {"getting", "checking", "writing", "sending", "inflight",
         "refused", "accepted", "settling"}
(* Calls whose claim is in the store. *)
Recorded == {"sending", "inflight", "refused", "accepted", "settling"}

InProgress(a) == pc[a] \in Busy

CanDismiss(a) == Patient => ~InProgress(a)

Goto(a, l) == pc' = [pc EXCEPT ![a] = l]

(* A call past its last use of its local variables. *)
Locals == <<held, prev, ack, tries>>
DropLocals(a) ==
  /\ held'  = [held EXCEPT ![a] = NoRec]
  /\ prev'  = [prev EXCEPT ![a] = NoRec]
  /\ ack'   = [ack EXCEPT ![a] = NoAck]
  /\ tries' = [tries EXCEPT ![a] = 0]
End(a) == Goto(a, "done") /\ DropLocals(a)

-----------------------------------------------------------------------------
Init ==
  /\ now = 0
  /\ store = NoRec
  /\ cache = [p \in Procs |-> NoRec]
  /\ pc = [a \in Attempts |-> "idle"]
  /\ held = [a \in Attempts |-> NoRec]
  /\ prev = [a \in Attempts |-> NoRec]
  /\ ack = [a \in Attempts |-> NoAck]
  /\ tries = [a \in Attempts |-> 0]
  /\ claimedAt = [a \in Attempts |-> 0]
  /\ fate = [a \in Attempts |-> "unsent"]
  /\ waived = {}

(***************************************************************************)
(* #planCreate: the store is read; the continuation runs later.            *)
(***************************************************************************)
ReadStore(a) ==
  /\ pc[a] = "idle"
  /\ held' = [held EXCEPT ![a] = store]
  /\ Goto(a, "planning")
  /\ UNCHANGED <<now, store, cache, prev, ack, tries, claimedAt, fate, waived>>

(***************************************************************************)
(* The read refreshes the cache with the newer of cache and store.  The    *)
(* call goes on when nothing blocks or when the caller acknowledges        *)
(* exactly the blocking attempt; otherwise (also for a preview, a          *)
(* preflight, or an order that cannot ship) it ends here.                  *)
(***************************************************************************)
Plan(a) ==
  LET newest == Newest(cache[Home[a]], held[a]) IN
  /\ pc[a] = "planning"
  /\ cache' = [cache EXCEPT ![Home[a]] = newest]
  /\ \/ /\ Active(newest) => CanDismiss(newest.id)
        /\ ack' = [ack EXCEPT ![a] = IF Active(newest) THEN newest.id ELSE NoAck]
        /\ held' = [held EXCEPT ![a] = NoRec]
        /\ Goto(a, "planned")
        /\ UNCHANGED <<prev, tries>>
     \/ End(a)
  /\ UNCHANGED <<now, store, claimedAt, fate, waived>>

(***************************************************************************)
(* claim: check and record in one synchronous step, against the cache.     *)
(***************************************************************************)
MakeClaim(a) ==
  LET mine == cache[Home[a]] IN
  /\ pc[a] = "planned"
  /\ IF Active(mine) /\ mine.id # ack[a]
       THEN End(a) /\ UNCHANGED <<cache, claimedAt>>
       ELSE /\ prev' = [prev EXCEPT ![a] = mine]
            /\ claimedAt' = [claimedAt EXCEPT ![a] = now]
            /\ cache' = [cache EXCEPT ![Home[a]] =
                           [state |-> "submitting", id |-> a, at |-> now]]
            /\ Goto(a, "getting")
            /\ UNCHANGED <<held, ack, tries>>
  /\ UNCHANGED <<now, store, fate, waived>>

(* persist: the read right before the write. *)
PersistGet(a) ==
  /\ pc[a] = "getting"
  /\ held' = [held EXCEPT ![a] = store]
  /\ Goto(a, "checking")
  /\ UNCHANGED <<now, store, cache, prev, ack, tries, claimedAt, fate, waived>>

(***************************************************************************)
(* persist: a record that blocks and is not the acknowledged one wins over *)
(* the claim, which leaves the cache in its favour.                        *)
(***************************************************************************)
PersistCheck(a) ==
  /\ pc[a] = "checking"
  /\ IF Active(held[a]) /\ held[a].id # ack[a]
       THEN /\ cache' = [cache EXCEPT ![Home[a]] =
                           IF @ = Claim(a) THEN held[a] ELSE @]
            /\ End(a)
       ELSE Goto(a, "writing") /\ UNCHANGED <<cache, Locals>>
  /\ UNCHANGED <<now, store, claimedAt, fate, waived>>

(***************************************************************************)
(* The write of the claim.  With compareAndPut it succeeds only on the     *)
(* record that was read; without it, it always overwrites.  The attempt    *)
(* the caller acknowledged is superseded here.                             *)
(***************************************************************************)
WriteClaim(a) ==
  /\ pc[a] = "writing"
  /\ HasCAS => store = held[a]
  /\ store' = Claim(a)
  /\ waived' = waived \union ({ack[a]} \ {NoAck})

PersistWrite(a) ==
  /\ WriteClaim(a)
  /\ Goto(a, "sending")
  /\ DropLocals(a)
  /\ UNCHANGED <<now, cache, claimedAt, fate>>

(* rollback: the claim leaves the cache unless another one took its place. *)
Rollback(a) ==
  /\ cache' = [cache EXCEPT ![Home[a]] = IF @ = Claim(a) THEN prev[a] ELSE @]
  /\ End(a)

(* Mutant: a lost compare-and-set is repeated without reading again. *)
PersistLostNoReread(a) ==
  /\ pc[a] = "writing"
  /\ HasCAS /\ store # held[a]
  /\ Goto(a, "writing")
  /\ UNCHANGED <<now, store, cache, Locals, claimedAt, fate, waived>>

(* Mutant: after the last round the claim is written unconditionally. *)
PersistLostForces(a) ==
  /\ pc[a] = "writing"
  /\ HasCAS /\ store # held[a]
  /\ store' = Claim(a)
  /\ Goto(a, "sending")
  /\ DropLocals(a)
  /\ UNCHANGED <<now, cache, claimedAt, fate, waived>>

(* A lost compare-and-set goes back to the read, MaxPersist rounds at most. *)
PersistLost(a) ==
  /\ pc[a] = "writing"
  /\ HasCAS /\ store # held[a]
  /\ IF tries[a] + 1 < MaxPersist
       THEN /\ tries' = [tries EXCEPT ![a] = @ + 1]
            /\ held' = [held EXCEPT ![a] = NoRec]
            /\ Goto(a, "getting")
            /\ UNCHANGED <<cache, prev, ack>>
       ELSE Rollback(a)
  /\ UNCHANGED <<now, store, claimedAt, fate, waived>>

(***************************************************************************)
(* The store rejects during persist (unreadable file, lock timeout): the   *)
(* claim is rolled back and nothing is sent.                               *)
(***************************************************************************)
PersistFails(a) ==
  /\ pc[a] \in {"getting", "writing"}
  /\ Rollback(a)
  /\ UNCHANGED <<now, store, claimedAt, fate, waived>>

(***************************************************************************)
(* The store writes the record and then rejects (its lock file could not   *)
(* be removed): the claim is rolled back with the record left behind.      *)
(***************************************************************************)
PersistWritesThenFails(a) ==
  /\ WriteClaim(a)
  /\ Rollback(a)
  /\ UNCHANGED <<now, claimedAt, fate>>

-----------------------------------------------------------------------------
(***************************************************************************)
(* sendLabelWrite.  Waiting for the rate limiter and retrying provably     *)
(* unsent attempts happen inside "sending".                                *)
(***************************************************************************)
Dispatch(a) ==
  /\ pc[a] = "sending"
  /\ fate' = [fate EXCEPT ![a] = "sent"]
  /\ Goto(a, "inflight")
  /\ UNCHANGED <<now, store, cache, Locals, claimedAt, waived>>

(* Every try failed before dispatch, or the caller aborted before one: the
   error is marked as proof that nothing was bought. *)
FailsUnsent(a) ==
  /\ pc[a] = "sending"
  /\ Goto(a, "refused")
  /\ UNCHANGED <<now, store, cache, Locals, claimedAt, fate, waived>>

(* The caller aborts in the delay between two unsent tries: the abort
   escapes unmarked, so the record stays `submitting`. *)
AbortsInBackoff(a) ==
  /\ pc[a] = "sending"
  /\ Goto(a, "done")
  /\ UNCHANGED <<now, store, cache, Locals, claimedAt, fate, waived>>

(* Newegg decides a request it received, however late. *)
NeweggDecides(a) ==
  /\ fate[a] = "sent"
  /\ \E f \in {"bought", "rejected"} : fate' = [fate EXCEPT ![a] = f]
  /\ UNCHANGED <<now, store, cache, pc, Locals, claimedAt, waived>>

(* A 2xx with a label; a 4xx or every package explicitly refused. *)
Answered(a) ==
  /\ pc[a] = "inflight"
  /\ \/ fate[a] = "bought" /\ Goto(a, "accepted")
     \/ fate[a] = "rejected" /\ Goto(a, "refused")
  /\ UNCHANGED <<now, store, cache, Locals, claimedAt, fate, waived>>

(* Mutant: a timeout after dispatch counts as a refusal. *)
IndeterminateAsRefused(a) ==
  /\ pc[a] = "inflight"
  /\ Goto(a, "refused")
  /\ UNCHANGED <<now, store, cache, Locals, claimedAt, fate, waived>>

(* Timeout, reset, abort after dispatch, 408, 5xx, or an unreadable 2xx. *)
Indeterminate(a) ==
  /\ pc[a] = "inflight"
  /\ Goto(a, "done")
  /\ UNCHANGED <<now, store, cache, Locals, claimedAt, fate, waived>>

-----------------------------------------------------------------------------
(***************************************************************************)
(* settle: the cache is updated at once, if it still holds this attempt;   *)
(* the store is written afterwards, unconditionally.                       *)
(***************************************************************************)
Settle(a) ==
  LET mine    == cache[Home[a]]
      outcome == IF pc[a] = "accepted" THEN "submitted" ELSE "failed"
      op      == [state |-> outcome, id |-> a, at |-> now] IN
  /\ pc[a] \in {"accepted", "refused"}
  /\ IF mine # NoRec /\ mine.id = a
       THEN /\ cache' = [cache EXCEPT ![Home[a]] = op]
            /\ held' = [held EXCEPT ![a] = op]
            /\ Goto(a, "settling")
       ELSE Goto(a, "done") /\ UNCHANGED <<cache, held>>
  /\ UNCHANGED <<now, store, prev, ack, tries, claimedAt, fate, waived>>

SettlePut(a) ==
  /\ pc[a] = "settling"
  /\ store' = held[a]
  /\ End(a)
  /\ UNCHANGED <<now, cache, claimedAt, fate, waived>>

(* A failure of the settling write is swallowed. *)
SettleFails(a) ==
  /\ pc[a] = "settling"
  /\ End(a)
  /\ UNCHANGED <<now, store, cache, claimedAt, fate, waived>>

-----------------------------------------------------------------------------
(***************************************************************************)
(* A process dies and restarts: its calls and its cache are gone.  An      *)
(* in-memory store dies with it, which the project documents as a reset of *)
(* the guard.                                                              *)
(***************************************************************************)
Crash(p) ==
  LET lost == {a \in Attempts : Home[a] = p /\ pc[a] # "idle"} IN
  /\ pc' = [a \in Attempts |-> IF a \in lost THEN "done" ELSE pc[a]]
  /\ held' = [a \in Attempts |-> IF a \in lost THEN NoRec ELSE held[a]]
  /\ prev' = [a \in Attempts |-> IF a \in lost THEN NoRec ELSE prev[a]]
  /\ ack' = [a \in Attempts |-> IF a \in lost THEN NoAck ELSE ack[a]]
  /\ tries' = [a \in Attempts |-> IF a \in lost THEN 0 ELSE tries[a]]
  /\ cache' = [cache EXCEPT ![p] = NoRec]
  /\ IF Persistent THEN UNCHANGED <<store, waived>>
                   ELSE /\ store' = NoRec
                        /\ waived' = waived \union {a \in lost : fate[a] # "unsent"}
  /\ UNCHANGED <<now, claimedAt, fate>>

(* --clear-label-guard: the operator removes the record from the store. *)
ClearGuard ==
  /\ store # NoRec
  /\ CanDismiss(store.id)
  /\ store' = NoRec
  /\ waived' = waived \union {store.id}
  /\ UNCHANGED <<now, cache, pc, Locals, claimedAt, fate>>

(* Time.  Under Prompt no call outlives its guard window. *)
Tick ==
  /\ now < MaxTime
  /\ Prompt => \A a \in Attempts : InProgress(a) => now + 1 - claimedAt[a] <= TTL
  /\ now' = now + 1
  /\ UNCHANGED <<store, cache, pc, Locals, claimedAt, fate, waived>>

-----------------------------------------------------------------------------
(* The steps of a call that its process takes by itself. *)
Advance(a) ==
  \/ Plan(a) \/ MakeClaim(a)
  \/ PersistGet(a) \/ PersistCheck(a) \/ PersistWrite(a) \/ PersistLost(a)
  \/ Dispatch(a) \/ Answered(a) \/ Indeterminate(a)
  \/ Settle(a) \/ SettlePut(a)

(* What may go wrong with it. *)
Fail(a) ==
  \/ PersistFails(a) \/ PersistWritesThenFails(a)
  \/ FailsUnsent(a) \/ AbortsInBackoff(a) \/ SettleFails(a)

Next ==
  \/ \E a \in Attempts : ReadStore(a) \/ Advance(a) \/ Fail(a) \/ NeweggDecides(a)
  \/ \E p \in Procs : Crash(p)
  \/ ClearGuard
  \/ Tick

Spec == Init /\ [][Next]_vars

(***************************************************************************)
(* Promises of the store and of fetch settle (the lock wait and every      *)
(* request have a timeout), and the event loop runs every continuation, so *)
(* a call that can go on does.  Failures, crashes, the operator, Newegg    *)
(* and the clock owe nothing.                                              *)
(***************************************************************************)
FairSpec == Spec /\ \A a \in Attempts : WF_vars(Advance(a))

-----------------------------------------------------------------------------
TypeOK ==
  /\ now \in Nat
  /\ store \in Record \union {NoRec}
  /\ cache \in [Procs -> Record \union {NoRec}]
  /\ pc \in [Attempts -> {"idle", "planning", "planned", "done"} \union Busy]
  /\ held \in [Attempts -> Record \union {NoRec}]
  /\ prev \in [Attempts -> Record \union {NoRec}]
  /\ ack \in [Attempts -> Attempts \union {NoAck}]
  /\ tries \in [Attempts -> Nat]
  /\ claimedAt \in [Attempts -> Nat]
  /\ fate \in [Attempts -> {"unsent", "sent", "bought", "rejected"}]
  /\ waived \subseteq Attempts

(* The request may have bought a label, or has, or still may. *)
MayHaveBought(a) == fate[a] \in {"sent", "bought"}

(* The attempt no longer protects the order, by design: somebody dismissed
   it, or its guard window is over. *)
Excused(a) == a \in waived \/ now - claimedAt[a] > TTL

(***************************************************************************)
(* At most one request of an order may have bought a label without having  *)
(* been dismissed: no second label is bought behind the caller's back      *)
(* (ledger.ts, header; api.ts create), whatever the interleaving of        *)
(* processes, store failures and crashes.                                  *)
(***************************************************************************)
NoSilentSecondPurchase ==
  \A a, b \in Attempts :
    /\ MayHaveBought(a) /\ MayHaveBought(b)
    /\ ~Excused(a) /\ ~Excused(b)
    => a = b

(***************************************************************************)
(* An attempt that may have bought a label is the one the store names, and *)
(* not as failed: whatever process reads next, or restarts, is refused     *)
(* (nothing is sent without its trace, api.ts).                            *)
(***************************************************************************)
TracedWhileItCounts ==
  \A a \in Attempts :
    MayHaveBought(a) /\ ~Excused(a) =>
      store # NoRec /\ store.id = a /\ store.state # "failed"

(***************************************************************************)
(* The recorded outcome is true: `failed` is written only for a request    *)
(* that never bought a label, `submitted` only for one that did (ledger.ts *)
(* header; isDefinitelyNotBought).                                         *)
(***************************************************************************)
OutcomeTrue(r) ==
  r # NoRec => /\ r.state = "failed" => ~MayHaveBought(r.id)
               /\ r.state = "submitted" => fate[r.id] = "bought"

RecordedOutcomeIsTrue == OutcomeTrue(store) /\ \A p \in Procs : OutcomeTrue(cache[p])

(***************************************************************************)
(* A settled record is never reopened or re-judged under the same attempt  *)
(* id: only a new attempt may follow it.                                   *)
(***************************************************************************)
SettledIsFinal ==
  [][ store # NoRec /\ store' # NoRec /\ store'.id = store.id /\ store.state # "submitting"
        => store'.state = store.state ]_store

(***************************************************************************)
(* A create call always comes to an end, contention on the record          *)
(* included (MAX_PERSIST_ATTEMPTS).                                        *)
(***************************************************************************)
CallsEnd == \A a \in Attempts : pc[a] = "planning" ~> pc[a] = "done"

-----------------------------------------------------------------------------
(***************************************************************************)
(* The inductive invariant.  RecordsInv needs nothing of the deployment:   *)
(* every record, in the store, in a cache or in a call's hands, names a    *)
(* call that claimed and tells the truth about it.                         *)
(***************************************************************************)
GoodRecord(r) ==
  r # NoRec =>
    /\ pc[r.id] \in Busy \union {"done"}
    /\ claimedAt[r.id] <= r.at
    /\ r.state # "submitting" => pc[r.id] \in {"settling", "done"}
    /\ r.state = "failed" => fate[r.id] \in {"unsent", "rejected"}
    /\ r.state = "submitted" => fate[r.id] = "bought"

RecordsTrue == /\ GoodRecord(store)
               /\ \A p \in Procs : GoodRecord(cache[p])
               /\ \A a \in Attempts : GoodRecord(held[a]) /\ GoodRecord(prev[a])

SettledMeansOver ==
  store # NoRec /\ store.state # "submitting" => pc[store.id] = "done"

(* The position of a call tells what became of its request. *)
FateKnown ==
  \A a \in Attempts :
    /\ pc[a] \in {"idle", "planning", "planned", "getting", "checking", "writing", "sending"}
         => fate[a] = "unsent"
    /\ pc[a] = "refused" => fate[a] \in {"unsent", "rejected"}
    /\ pc[a] = "accepted" => fate[a] = "bought"

SettlesItself ==
  \A a \in Attempts :
    pc[a] = "settling" => held[a] # NoRec /\ held[a].id = a /\ held[a].state # "submitting"

ClaimedInPast == \A a \in Attempts : claimedAt[a] <= now

RecordsInv == RecordsTrue /\ SettledMeansOver /\ FateKnown /\ SettlesItself /\ ClaimedInPast

(***************************************************************************)
(* PurchaseInv holds in a safe deployment: a store with compare-and-set    *)
(* that survives its processes, nobody dismisses a call that still runs,   *)
(* and no call outlives the guard window.                                  *)
(***************************************************************************)
SafeDeployment == HasCAS /\ Persistent /\ Patient /\ Prompt

HoldsStore(a) == store # NoRec /\ store.id = a /\ store.state # "failed"

(* Only finished calls are dismissed. *)
DismissedAreOver ==
  /\ \A a \in Attempts : ack[a] # NoAck => pc[ack[a]] = "done"
  /\ \A a \in waived : pc[a] = "done"

RunningStillCounts ==
  \A a \in Attempts : InProgress(a) => now - claimedAt[a] <= TTL

CheckedBeforeWrite ==
  \A a \in Attempts : pc[a] = "writing" /\ Active(held[a]) => held[a].id = ack[a]

OneHolder ==
  \A a \in Attempts :
    (pc[a] \in Recorded \/ MayHaveBought(a)) /\ ~Excused(a) => HoldsStore(a)

PurchaseInv == DismissedAreOver /\ RunningStillCounts /\ CheckedBeforeWrite /\ OneHolder

(* RecordsInv in every deployment, PurchaseInv in a safe one (ledger.ts). *)
LedgerInv == RecordsInv /\ (SafeDeployment => PurchaseInv)
=============================================================================
