----------------------------- MODULE FeedLedger -----------------------------
(***************************************************************************)
(* The deduplication ledger of feed submissions: submitLedgeredFeedChunk   *)
(* and submitChunk of sdk/src/feeds/submit-core.ts, driven chunk by chunk  *)
(* by submitInventoryFeed (feeds/api.ts).  A feed is not idempotent: its   *)
(* payload hash keys a record that is `submitting` before the request is   *)
(* sent and settled when the outcome is known.  There is no                *)
(* compare-and-set and no expiry.                                          *)
(***************************************************************************)
EXTENDS Integers, Sequences

CONSTANTS
  Calls,        \* submitInventoryFeed calls
  Payloads,     \* feed bodies, told apart by their hash
  Chunks,       \* Chunks[c]: the payloads call c submits, in order
  MaxAttempts,  \* retry.maxAttempts
  Faults,       \* what may go wrong besides refusals, timeouts and unsent requests
  Sequential,   \* the caller never overlaps calls that share a payload
  Durable       \* the injected store survives a restart

ASSUME FeedAssumption ==
  /\ Chunks \in [Calls -> Seq(Payloads)]
  /\ \A c \in Calls : Chunks[c] # <<>>
  /\ MaxAttempts \in Nat \ {0}
  /\ Faults \subseteq {"abort", "crash", "tls", "http500", "unreadable"}
  /\ Sequential \in BOOLEAN /\ Durable \in BOOLEAN

VARIABLES
  store,   \* store[p]: the recorded state of payload p
  pc,      \* pc[c]: where call c is
  at,      \* at[c]: index of the chunk c works on
  seen,    \* seen[c]: the record c read
  tries,   \* tries[c]: pre-send failures of the current chunk
  fate,    \* fate[c][p]: what became of c's request with payload p
  report   \* report[c]: how call c ended

feedVars == <<store, pc, at, seen, tries, fate, report>>

States  == {"none", "submitting", "submitted", "failed"}
Reports == {"none", "submitted", "indeterminate", "failed", "aborted", "timedout", "died"}
Working == {"checking", "limiting", "sending", "backoff", "inflight"}
Fates   == {"unsent", "inflight", "accepted", "refused"}

-----------------------------------------------------------------------------
Payload(c)   == Chunks[c][at[c]]
Body(c)      == {Chunks[c][i] : i \in DOMAIN Chunks[c]}
Started(c)   == pc[c] \in Working \/ (pc[c] = "idle" /\ at[c] > 1)
Reached(c, p) == fate[c][p] \in {"inflight", "accepted"}
Goto(c, l)   == pc' = [pc EXCEPT ![c] = l]
Mark(p, s)   == store' = [store EXCEPT ![p] = s]

(* The call ends; its locals are gone. *)
End(c, how) == /\ Goto(c, "done")
               /\ report' = [report EXCEPT ![c] = how]
               /\ seen' = [seen EXCEPT ![c] = "none"]
               /\ tries' = [tries EXCEPT ![c] = 0]
               /\ UNCHANGED at

FeedInit ==
  /\ store = [p \in Payloads |-> "none"]
  /\ pc = [c \in Calls |-> "idle"]
  /\ at = [c \in Calls |-> 1]
  /\ seen = [c \in Calls |-> "none"]
  /\ tries = [c \in Calls |-> 0]
  /\ fate = [c \in Calls |-> [p \in Payloads |-> "unsent"]]
  /\ report = [c \in Calls |-> "none"]

-----------------------------------------------------------------------------
(* The chunk's record is read; the continuation runs later. *)
Look(c) ==
  /\ pc[c] = "idle"
  /\ Sequential => \A d \in Calls \ {c} : Started(d) => Body(c) \cap Body(d) = {}
  /\ seen' = [seen EXCEPT ![c] = store[Payload(c)]]
  /\ Goto(c, "checking")
  /\ UNCHANGED <<store, at, tries, fate, report>>

(* Mutant: only a submitted payload is refused. *)
CheckSubmittedOnly(c) ==
  /\ pc[c] = "checking"
  /\ \/ /\ seen[c] = "submitted"
        /\ End(c, "indeterminate")
        /\ UNCHANGED store
     \/ /\ seen[c] # "submitted"
        /\ Mark(Payload(c), "submitting")
        /\ Goto(c, "limiting")
        /\ UNCHANGED <<at, seen, tries, report>>
  /\ UNCHANGED fate

(* A payload that is submitting or submitted is refused, else recorded. *)
Check(c) ==
  /\ pc[c] = "checking"
  /\ \/ /\ seen[c] \in {"submitting", "submitted"}
        /\ End(c, "indeterminate")
        /\ UNCHANGED store
     \/ /\ seen[c] \in {"none", "failed"}
        /\ Mark(Payload(c), "submitting")
        /\ Goto(c, "limiting")
        /\ UNCHANGED <<at, seen, tries, report>>
  /\ UNCHANGED fate

(* The local rate limiter grants the request, or the backoff is over. *)
Proceed(c) ==
  /\ pc[c] \in {"limiting", "backoff"}
  /\ Goto(c, "sending")
  /\ UNCHANGED <<store, at, seen, tries, fate, report>>

(* executeOnce hands the request to the network. *)
Dispatch(c) ==
  /\ pc[c] = "sending"
  /\ fate' = [fate EXCEPT ![c][Payload(c)] = "inflight"]
  /\ Goto(c, "inflight")
  /\ UNCHANGED <<store, at, seen, tries, report>>

(* No connection: provably unsent.  Retried up to MaxAttempts, then failed. *)
PreSendFails(c) ==
  /\ pc[c] = "sending"
  /\ \/ /\ tries[c] + 1 < MaxAttempts
        /\ tries' = [tries EXCEPT ![c] = @ + 1]
        /\ Goto(c, "backoff")
        /\ UNCHANGED <<store, at, seen, report>>
     \/ /\ tries[c] + 1 >= MaxAttempts
        /\ Mark(Payload(c), "failed")
        /\ End(c, "failed")
  /\ UNCHANGED fate

(* Newegg takes or refuses a request, whether or not the call still waits. *)
NeweggDecides(c, p) ==
  /\ fate[c][p] = "inflight"
  /\ \E o \in {"accepted", "refused"} : fate' = [fate EXCEPT ![c][p] = o]
  /\ UNCHANGED <<store, pc, at, seen, tries, report>>

(* Mutant: the record of an accepted chunk is not settled. *)
AcceptedUnrecorded(c) ==
  /\ pc[c] = "inflight"
  /\ fate[c][Payload(c)] = "accepted"
  /\ Mark(Payload(c), "failed")
  /\ End(c, "submitted")
  /\ UNCHANGED fate

(* A 2xx with IsSuccess and a request id: on to the next chunk, or done. *)
Accepted(c) ==
  /\ pc[c] = "inflight"
  /\ fate[c][Payload(c)] = "accepted"
  /\ Mark(Payload(c), "submitted")
  /\ \/ /\ at[c] = Len(Chunks[c])
        /\ End(c, "submitted")
     \/ /\ at[c] < Len(Chunks[c])
        /\ at' = [at EXCEPT ![c] = @ + 1]
        /\ seen' = [seen EXCEPT ![c] = "none"]
        /\ tries' = [tries EXCEPT ![c] = 0]
        /\ Goto(c, "idle")
        /\ UNCHANGED report
  /\ UNCHANGED fate

(***************************************************************************)
(* A definitive failure: an HTTP 4xx, or a 2xx that is no success.  With   *)
(* "http500" also any answer whose status is not in                        *)
(* AMBIGUOUS_HTTP_STATUSES, whatever became of the request; with           *)
(* "unreadable" also a 2xx whose body does not parse.                      *)
(***************************************************************************)
Rejected(c) ==
  /\ pc[c] = "inflight"
  /\ \/ fate[c][Payload(c)] = "refused"
     \/ "http500" \in Faults
     \/ "unreadable" \in Faults /\ fate[c][Payload(c)] = "accepted"
  /\ Mark(Payload(c), "failed")
  /\ End(c, "failed")
  /\ UNCHANGED fate

(* Mutant: an ambiguous failure surfaces as a plain failure. *)
AmbiguousUnnamed(c) ==
  /\ pc[c] = "inflight"
  /\ End(c, "failed")
  /\ UNCHANGED <<store, fate>>

(* A timeout, a reset or a 408/502/503/504: the record stays as it is. *)
Ambiguous(c) ==
  /\ \/ pc[c] = "inflight"
     \/ pc[c] = "sending" /\ "tls" \in Faults
  /\ End(c, "indeterminate")
  /\ UNCHANGED <<store, fate>>

(***************************************************************************)
(* The caller's signal.  What it was aborted with is rethrown and the      *)
(* record stays, except that isAbortError does not know the TimeoutError   *)
(* of an AbortSignal.timeout: when it ends the request itself, the chunk   *)
(* is recorded as failed before the error is rethrown.                     *)
(***************************************************************************)
Abort(c) ==
  /\ "abort" \in Faults
  /\ \/ /\ pc[c] \in {"limiting", "sending", "backoff", "inflight"}
        /\ End(c, "aborted")
        /\ UNCHANGED store
     \/ /\ pc[c] \in {"sending", "inflight"}
        /\ Mark(Payload(c), "failed")
        /\ End(c, "timedout")
  /\ UNCHANGED fate

(* A restart ends every call; an in-memory store forgets. *)
Crash ==
  /\ "crash" \in Faults
  /\ pc' = [c \in Calls |-> IF Started(c) THEN "done" ELSE pc[c]]
  /\ report' = [c \in Calls |-> IF pc'[c] # pc[c] THEN "died" ELSE report[c]]
  /\ seen' = [c \in Calls |-> "none"]
  /\ tries' = [c \in Calls |-> 0]
  /\ store' = IF Durable THEN store ELSE [p \in Payloads |-> "none"]
  /\ UNCHANGED <<at, fate>>

-----------------------------------------------------------------------------
Advance(c) == Look(c) \/ Check(c) \/ Proceed(c) \/ Dispatch(c) \/ PreSendFails(c)
                \/ Accepted(c) \/ Rejected(c) \/ Ambiguous(c)

FeedNext ==
  \/ \E c \in Calls : Advance(c) \/ Abort(c)
  \/ \E c \in Calls, p \in Payloads : NeweggDecides(c, p)
  \/ Crash

FeedSpec == FeedInit /\ [][FeedNext]_feedVars

-----------------------------------------------------------------------------
FeedTypeOK ==
  /\ store \in [Payloads -> States]
  /\ pc \in [Calls -> Working \cup {"idle", "done"}]
  /\ at \in [Calls -> Nat] /\ \A c \in Calls : at[c] \in DOMAIN Chunks[c]
  /\ seen \in [Calls -> States]
  /\ tries \in [Calls -> 0 .. MaxAttempts - 1]
  /\ fate \in [Calls -> [Payloads -> Fates]]
  /\ report \in [Calls -> Reports]

(* The TimeoutError of c's own signal made the ledger take its request     *)
(* with p for failed, whatever became of it (submit-core.ts:57, 103-108).  *)
Disowned(c, p) == report[c] = "timedout" /\ p = Payload(c)

(* At most one request with a given payload may be taken by Newegg: a      *)
(* second one is sent only when the first cannot have been (ADR 0004: "No  *)
(* silent double feeds").  Excepted is a request that an                   *)
(* AbortSignal.timeout of the caller's ended: the caller gets its own      *)
(* TimeoutError, and the payload may be fed again.                         *)
NoDoubleFeed ==
  \A p \in Payloads, c, d \in Calls :
    Reached(c, p) /\ Reached(d, p) => c = d \/ Disowned(c, p) \/ Disowned(d, p)

(* What counts as a failure has left no request Newegg may have taken: a   *)
(* call that ends with one (an open outcome is named, so that nobody takes *)
(* it for a failure: ADR 0004, decision 2; an abort is not named: see the  *)
(* README), and a record that is `failed` or absent, which lets the        *)
(* payload be sent again, whoever sends it.  The exception is the same.    *)
FailureIsDefinitive ==
  /\ \A c \in Calls : report[c] = "failed" => ~Reached(c, Payload(c))
  /\ \A p \in Payloads : store[p] \in {"none", "failed"} =>
       \A c \in Calls : Reached(c, p) => Disowned(c, p)

=============================================================================
