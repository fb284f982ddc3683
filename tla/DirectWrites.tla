---------------------------- MODULE DirectWrites ----------------------------
(***************************************************************************)
(* The writes of the SDK that keep no ledger, as they go through the HTTP  *)
(* core (client/http.ts): price updates with their read-back, direct       *)
(* inventory updates, order writes, and the service writes (RMAs, courtesy *)
(* refunds) with the checks that precede them.  Price and inventory writes *)
(* assign an absolute value and are retried like reads; the others are     *)
(* resent only if they provably never left.  Newegg, an external service,  *)
(* may apply a request and lose the answer, or apply it long after the     *)
(* client has given up.                                                    *)
(***************************************************************************)
EXTENDS Integers

CONSTANTS
  Calls,         \* write calls of the SDK's user; each call's name is also its price
  Mixes,         \* the operations that are called together: functions from Calls
  Old,           \* the price before any call
  MaxAttempts,   \* retry.maxAttempts
  Amount,        \* what one refund pays, in cents
  Total,         \* the order's total, in cents
  AbortReasons   \* how the caller's signal may abort

ASSUME DirectAssumption ==
  /\ Old \notin Calls
  /\ Mixes \subseteq [Calls -> {"price", "blind", "stock", "order", "rma", "refund"}]
  /\ MaxAttempts \in Nat \ {0} /\ Amount \in Nat \ {0} /\ Total \in Nat
  /\ AbortReasons \subseteq {"AbortError", "TimeoutError"}

VARIABLES
  kind,       \* kind[c]: the operation c calls
  pc,         \* pc[c]: where c is
  try,        \* try[c]: retries made so far
  signal,     \* signal[c]: the reason of an abort nobody has seen yet
  seen,       \* seen[c]: refunds c's checks have counted
  heard,      \* heard[c]: how the last try ended, for the client
  fate,       \* fate[c]: what became of the last try at Newegg
  loose,      \* loose[c]: abandoned requests of c that Newegg will still apply
  applied,    \* applied[c]: how often Newegg has applied c's write
  verdict,    \* verdict[c]: what the caller is told
  held,       \* the item's price at Newegg
  before,     \* the price it had before that one
  refunded,   \* refunded[k]: cents refunded on the order by RMAs, by courtesy refunds
  overlap,    \* a call started before all earlier ones had come to rest
  last        \* the last price update that started

vars == <<kind, pc, try, signal, seen, heard, fate, loose, applied, verdict,
          held, before, refunded, overlap, last>>
newegg == <<held, before, refunded>>

Priced   == {"price", "blind"}          \* with and without the read-back
Service  == {"rma", "refund"}
Once     == Service \cup {"order"}      \* not idempotent
Kinds    == Priced \cup Once \cup {"stock"}
Failures == {"unsent", "lost", "refused", "limited", "gateway", "http500",
             "again500", "redirect", "AbortError", "TimeoutError"}
Verdicts == {"none", "done", "accepted", "verified", "unverified", "unknown", "failed",
             "indeterminate", "unsent", "rejected", "blocked", "aborted", "thrown"}
Places   == {"idle", "rmas", "courtesies", "limiting", "sending", "flying",
             "backoff", "confirming", "resolving", "done"}

Running(c) == pc[c] \notin {"idle", "done"}
AtRest(c)  == ~Running(c) /\ loose[c] = 0
Goto(c, l) == pc' = [pc EXCEPT ![c] = l]
Hear(c, f) == heard' = [heard EXCEPT ![c] = f]
Tell(c, v) == Goto(c, "done") /\ verdict' = [verdict EXCEPT ![c] = v]

Init ==
  /\ kind \in Mixes
  /\ pc = [c \in Calls |-> "idle"]
  /\ try = [c \in Calls |-> 0]
  /\ signal = [c \in Calls |-> "none"]
  /\ seen = [c \in Calls |-> 0]
  /\ heard = [c \in Calls |-> "none"]
  /\ fate = [c \in Calls |-> "none"]
  /\ loose = [c \in Calls |-> 0]
  /\ applied = [c \in Calls |-> 0]
  /\ verdict = [c \in Calls |-> "none"]
  /\ held = Old /\ before = Old
  /\ refunded = [k \in Service |-> 0]
  /\ overlap = FALSE
  /\ last = Old

-----------------------------------------------------------------------------
(* How the client classifies the end of a try. *)

(* Mutant: a service write is resent after a timeout. *)
RetryableOnLoss(k, f) ==
  IF k \in Once THEN f \in {"unsent", "lost"}
                ELSE f \in {"unsent", "lost", "limited", "gateway", "again500"}

(* What is tried again: everything transient for an absolute assignment,
   only the provably unsent for the rest. *)
Retryable(k, f) ==
  IF k \in Once THEN f = "unsent"
                ELSE f \in {"unsent", "lost", "limited", "gateway", "again500"}

(* Mutant: the service writes use the narrower set of the order writes. *)
AmbiguousNarrow(k, f) == f \in {"lost", "gateway", "redirect"} /\ k # "stock"

(* After which failures the write may have been applied, as each API sees it. *)
Ambiguous(k, f) ==
  \/ k # "stock" /\ f \in {"lost", "gateway", "redirect"}
  \/ k \in Service /\ f \in {"http500", "again500"}

(* What a failed write is reported as when it is not tried again; a price
   update that may have been applied is first read back. *)
Conclude(c, f) ==
  LET k == kind[c] IN
  \/ /\ k = "price" /\ Ambiguous(k, f)
     /\ Goto(c, "resolving") /\ UNCHANGED verdict
  \/ /\ k = "blind" /\ Ambiguous(k, f)
     /\ Tell(c, "unknown")
  \/ /\ k \in Priced \cup {"stock"} /\ ~Ambiguous(k, f)
     /\ Tell(c, "failed")
  \/ /\ k \in Once
     /\ Tell(c, IF f = "unsent" THEN "unsent"
                ELSE IF Ambiguous(k, f) THEN "indeterminate" ELSE "rejected")

(* The catch block of the send loops. *)
Fail(c, f) ==
  /\ Hear(c, f)
  /\ \/ /\ Retryable(kind[c], f) /\ try[c] + 1 < MaxAttempts
        /\ Goto(c, "backoff") /\ UNCHANGED verdict
     \/ /\ ~(Retryable(kind[c], f) /\ try[c] + 1 < MaxAttempts)
        /\ Conclude(c, f)

(* What an abort is reported as.  An AbortError reaches the caller, except
   that a service write in flight becomes indeterminate; any other reason
   is an unexpected error. *)
Aborted(c, r, inFlight) ==
  IF r = "TimeoutError"
    THEN IF kind[c] \in Once THEN "thrown" ELSE "failed"
    ELSE IF kind[c] \in Service /\ inFlight THEN "indeterminate" ELSE "aborted"

-----------------------------------------------------------------------------
(* A call starts; the service writes read the order first. *)
Start(c) ==
  /\ pc[c] = "idle"
  /\ Goto(c, IF kind[c] \in Service THEN "rmas" ELSE "limiting")
  /\ overlap' = (overlap \/ \E d \in Calls \ {c} : ~AtRest(d))
  /\ last' = IF kind[c] \in Priced THEN c ELSE last
  /\ UNCHANGED <<kind, try, signal, seen, heard, fate, loose, applied, verdict>>
  /\ UNCHANGED newegg

(* The RMAs on the order have been read. *)
ReadRmas(c) ==
  /\ pc[c] = "rmas"
  /\ seen' = [seen EXCEPT ![c] = refunded["rma"]]
  /\ Goto(c, "courtesies")
  /\ UNCHANGED <<kind, try, signal, heard, fate, loose, applied, verdict, overlap, last>>
  /\ UNCHANGED newegg

(* Mutant: courtesy refunds do not count as prior refunds. *)
CheckRmasOnly(c) ==
  /\ pc[c] = "courtesies"
  /\ \/ Amount <= Total - seen[c] /\ Goto(c, "limiting") /\ UNCHANGED verdict
     \/ Amount > Total - seen[c] /\ Tell(c, "blocked")
  /\ UNCHANGED <<kind, try, signal, seen, heard, fate, loose, applied, overlap, last>>
  /\ UNCHANGED newegg

(* The courtesy refunds have been read too: the refund must fit in what is
   left of the order's total. *)
Check(c) ==
  /\ pc[c] = "courtesies"
  /\ LET left == Total - (seen[c] + refunded["refund"]) IN
       \/ Amount <= left /\ Goto(c, "limiting") /\ UNCHANGED verdict
       \/ Amount > left /\ Tell(c, "blocked")
  /\ UNCHANGED <<kind, try, signal, seen, heard, fate, loose, applied, overlap, last>>
  /\ UNCHANGED newegg

(* A read of the checks fails, or returns an order, RMAs or refunds that
   are incomplete or unreadable: nothing is sent. *)
CheckFails(c) ==
  /\ pc[c] \in {"rmas", "courtesies"}
  /\ Tell(c, "blocked")
  /\ UNCHANGED <<kind, try, signal, seen, heard, fate, loose, applied, overlap, last>>
  /\ UNCHANGED newegg

(* The rate limiter grants the request, or the backoff is over. *)
Proceed(c) ==
  /\ \/ pc[c] = "limiting" /\ UNCHANGED try
     \/ pc[c] = "backoff" /\ try' = [try EXCEPT ![c] = @ + 1]
  /\ Goto(c, "sending")
  /\ UNCHANGED <<kind, signal, seen, heard, fate, loose, applied, verdict, overlap, last>>
  /\ UNCHANGED newegg

(* executeOnce hands the request to fetch, which does not send it if the
   signal is aborted already. *)
Dispatch(c) ==
  /\ pc[c] = "sending"
  /\ \/ /\ signal[c] = "none"
        /\ fate' = [fate EXCEPT ![c] = "out"]
        /\ Goto(c, "flying")
        /\ UNCHANGED <<heard, verdict>>
     \/ /\ signal[c] # "none"
        /\ fate' = [fate EXCEPT ![c] = "void"]
        /\ Hear(c, signal[c])
        /\ Tell(c, Aborted(c, signal[c], FALSE))
  /\ UNCHANGED <<kind, try, signal, seen, loose, applied, overlap, last>>
  /\ UNCHANGED newegg

-----------------------------------------------------------------------------
(* Newegg. *)

(* A request of c takes effect. *)
Effect(c) ==
  /\ applied' = [applied EXCEPT ![c] = @ + 1]
  /\ IF kind[c] \in Priced THEN held' = c /\ before' = held
                           ELSE UNCHANGED <<held, before>>
  /\ refunded' = IF kind[c] \in Service
                   THEN [refunded EXCEPT ![kind[c]] = @ + Amount] ELSE refunded

(* The request in flight takes effect; the answer is yet to come. *)
TakesEffect(c) ==
  /\ fate[c] = "out"
  /\ Effect(c)
  /\ fate' = [fate EXCEPT ![c] = "applied"]
  /\ UNCHANGED <<kind, pc, try, signal, seen, heard, loose, verdict, overlap, last>>

(* A request the client has given up takes effect. *)
ArrivesLate(c) ==
  /\ loose[c] > 0
  /\ Effect(c)
  /\ loose' = [loose EXCEPT ![c] = @ - 1]
  /\ UNCHANGED <<kind, pc, try, signal, seen, heard, fate, verdict, overlap, last>>

(* The client is done with the request in flight: one that has not taken
   effect is dropped, or will take effect later. *)
LetGo(c) ==
  \/ /\ fate[c] = "applied" /\ UNCHANGED <<fate, loose>>
  \/ /\ fate[c] = "out"
     /\ \/ fate' = [fate EXCEPT ![c] = "void"] /\ UNCHANGED loose
        \/ fate' = [fate EXCEPT ![c] = "loose"]
           /\ loose' = [loose EXCEPT ![c] = @ + 1]

(* Newegg rejects the request. *)
Reject(c) == /\ fate[c] = "out"
             /\ fate' = [fate EXCEPT ![c] = "void"]
             /\ UNCHANGED loose

-----------------------------------------------------------------------------
(* How a try ends. *)

(* DNS failure or connection refused: the request never left. *)
NeverLeaves(c) ==
  /\ pc[c] = "flying"
  /\ Reject(c)
  /\ Fail(c, "unsent")
  /\ UNCHANGED <<kind, try, signal, seen, applied, overlap, last>>
  /\ UNCHANGED newegg

(* The request's own timeout, or a connection lost after dispatch. *)
GivesUp(c) ==
  /\ pc[c] = "flying"
  /\ LetGo(c)
  /\ Fail(c, "lost")
  /\ UNCHANGED <<kind, try, signal, seen, applied, overlap, last>>
  /\ UNCHANGED newegg

(* Newegg answers that it did not apply the write: 4xx, or 429. *)
AnswersNo(c) ==
  /\ pc[c] = "flying"
  /\ Reject(c)
  /\ \E f \in {"refused", "limited"} : Fail(c, f)
  /\ UNCHANGED <<kind, try, signal, seen, applied, overlap, last>>
  /\ UNCHANGED newegg

(* An answer that does not say: 408 or a gateway's 502-504, a bare 500, a
   500 that asks to try again, a redirect (never followed on a write). *)
AnswersUnclear(c) ==
  /\ pc[c] = "flying"
  /\ LetGo(c)
  /\ \E f \in {"gateway", "http500", "again500", "redirect"} : Fail(c, f)
  /\ UNCHANGED <<kind, try, signal, seen, applied, overlap, last>>
  /\ UNCHANGED newegg

(* A success answer.  Newegg reports success for a price it ignores (an
   inactive item), and for a courtesy refund it has only queued. *)
AnswersYes(c) ==
  /\ pc[c] = "flying"
  /\ \/ fate[c] = "applied" /\ UNCHANGED <<fate, loose>>
     \/ kind[c] \in Priced /\ Reject(c)
     \/ kind[c] = "refund" /\ fate[c] = "out"
        /\ fate' = [fate EXCEPT ![c] = "loose"]
        /\ loose' = [loose EXCEPT ![c] = @ + 1]
  /\ Hear(c, "ok")
  /\ \/ kind[c] = "price" /\ Goto(c, "confirming") /\ UNCHANGED verdict
     \/ kind[c] # "price" /\ Tell(c, IF kind[c] = "blind" THEN "accepted" ELSE "done")
  /\ UNCHANGED <<kind, try, signal, seen, applied, overlap, last>>
  /\ UNCHANGED newegg

(* A 2xx that does not name the RMA or the refund request; a 2xx that says
   the price was not set. *)
AnswersOddly(c) ==
  /\ pc[c] = "flying"
  /\ \/ /\ kind[c] \in Service /\ LetGo(c)
        /\ Tell(c, "indeterminate")
     \/ /\ kind[c] \in Priced /\ Reject(c)
        /\ Tell(c, "failed")
  /\ Hear(c, "odd")
  /\ UNCHANGED <<kind, try, signal, seen, applied, overlap, last>>
  /\ UNCHANGED newegg

(* The caller aborts while the request is in flight. *)
AbortInFlight(c, r) ==
  /\ pc[c] = "flying"
  /\ LetGo(c)
  /\ Hear(c, r)
  /\ Tell(c, Aborted(c, r, TRUE))
  /\ UNCHANGED <<kind, try, signal, seen, applied, overlap, last>>
  /\ UNCHANGED newegg

(* The caller aborts during the checks, in the limiter's queue or between
   two tries; or just before a request is sent, which Dispatch finds. *)
AbortWaiting(c, r) ==
  /\ \/ /\ pc[c] \in {"rmas", "courtesies", "limiting", "backoff"}
        /\ Hear(c, r)
        /\ Tell(c, IF pc[c] \in {"rmas", "courtesies"} /\ r = "TimeoutError"
                     THEN "blocked" ELSE Aborted(c, r, FALSE))
        /\ UNCHANGED signal
     \/ /\ pc[c] = "sending" /\ signal[c] = "none"
        /\ signal' = [signal EXCEPT ![c] = r]
        /\ UNCHANGED <<pc, heard, verdict>>
  /\ UNCHANGED <<kind, try, seen, fate, loose, applied, overlap, last>>
  /\ UNCHANGED newegg

-----------------------------------------------------------------------------
(* Mutant: an unreadable or different price counts as a match. *)
MatchesAnything(c, observed) == observed \in Calls \cup {Old}

(* The price read back is the price that was asked for. *)
Matches(c, observed) == observed = c

(* The read-back returns; reads may lag one write behind. *)
ReadsBack(c) ==
  /\ pc[c] \in {"confirming", "resolving"}
  /\ \E observed \in {held, before} :
       Tell(c, IF Matches(c, observed) THEN "verified"
               ELSE IF pc[c] = "confirming" THEN "unverified" ELSE "unknown")
  /\ UNCHANGED <<kind, try, signal, seen, heard, fate, loose, applied, overlap, last>>
  /\ UNCHANGED newegg

(* The read-back fails, or the caller aborts it. *)
ReadBackFails(c) ==
  /\ pc[c] \in {"confirming", "resolving"}
  /\ \/ Tell(c, IF pc[c] = "confirming" THEN "unverified" ELSE "unknown")
     \/ "AbortError" \in AbortReasons /\ Tell(c, "aborted")
  /\ UNCHANGED <<kind, try, signal, seen, heard, fate, loose, applied, overlap, last>>
  /\ UNCHANGED newegg

-----------------------------------------------------------------------------
Answers(c) == AnswersNo(c) \/ AnswersUnclear(c) \/ AnswersYes(c) \/ AnswersOddly(c)
Aborts(c)  == \E r \in AbortReasons : AbortInFlight(c, r) \/ AbortWaiting(c, r)
Checks(c)  == ReadRmas(c) \/ Check(c) \/ CheckFails(c)

(* What goes on by itself. *)
Advance(c) == \/ Checks(c) \/ Proceed(c) \/ Dispatch(c) \/ GivesUp(c)
              \/ ReadsBack(c) \/ ReadBackFails(c)

Next == \E c \in Calls :
          \/ Start(c) \/ Advance(c) \/ NeverLeaves(c) \/ Answers(c) \/ Aborts(c)
          \/ TakesEffect(c) \/ ArrivesLate(c)

Spec == Init /\ [][Next]_vars

-----------------------------------------------------------------------------
(* Type invariant of the model's variables. *)
TypeOK ==
  /\ kind \in [Calls -> Kinds]
  /\ pc \in [Calls -> Places]
  /\ try \in [Calls -> 0 .. MaxAttempts - 1]
  /\ signal \in [Calls -> {"none"} \cup AbortReasons]
  /\ seen \in [Calls -> Nat]
  /\ heard \in [Calls -> {"none", "ok", "odd"} \cup Failures]
  /\ fate \in [Calls -> {"none", "out", "applied", "loose", "void"}]
  /\ loose \in [Calls -> Nat]
  /\ applied \in [Calls -> Nat]
  /\ verdict \in [Calls -> Verdicts]
  /\ held \in Calls \cup {Old} /\ before \in Calls \cup {Old}
  /\ refunded \in [Service -> Nat]
  /\ overlap \in BOOLEAN
  /\ last \in Calls \cup {Old}

(* An order, RMA or refund write takes effect at most once, however its
   tries end and however late Newegg is: at no time are there two requests
   of one call that have taken effect or still may (ADR 0004). *)
WrittenOnce ==
  \A c \in Calls : kind[c] \in Once =>
    applied[c] + loose[c] + (IF fate[c] = "out" THEN 1 ELSE 0) <= 1

(* A service write that is reported as blocked, unsent, rejected or aborted
   has not taken effect and never will; so has an order write reported as
   unsent or rejected, an HTTP 500 apart, which the order writes take for a
   rejection (orders/api.ts:62). *)
DenialIsTrue ==
  \A c \in Calls :
    \/ kind[c] \in Service /\ verdict[c] \in {"blocked", "unsent", "rejected", "aborted"}
    \/ /\ kind[c] = "order" /\ verdict[c] \in {"unsent", "rejected"}
       /\ heard[c] \notin {"http500", "again500"}
    => applied[c] = 0 /\ loose[c] = 0

(* A verified price is the item's price until another update starts, if the
   updates did not overlap: retries, lagging reads and late requests of the
   update itself do not undo it. *)
VerifiedStands ==
  \A c \in Calls :
    verdict[c] = "verified" /\ last = c /\ ~overlap => held = c

(* Refunds whose calls did not overlap never exceed the order's total,
   whichever of the two ways they were paid (checkRefundBalance). *)
WithinBalance == ~overlap => refunded["rma"] + refunded["refund"] <= Total

=============================================================================
