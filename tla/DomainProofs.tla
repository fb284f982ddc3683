---------------------------- MODULE DomainProofs ----------------------------
(***************************************************************************)
(* Proofs about modules that follow one call or one start: FeedLedger, for *)
(* any calls, payloads, chunks and number of attempts, on the terms that   *)
(* ADR 0004 sets; Startup, for any environment its variables can be spelt  *)
(* to and any number of sessions; Disclosure, for any page size, limits    *)
(* and reports; PriceChanges, for any lists of prices and discounts, any   *)
(* shelf and whatever the store does to a record; RmaWrites, for any       *)
(* order, any RMAs and refunds on it and any writes. They share no state   *)
(* and nothing is assumed of one in a proof about another.                 *)
(***************************************************************************)
EXTENDS FeedLedger, Startup, Disclosure, PriceChanges, RmaWrites, Induction, FiniteSetTheorems, SequenceTheorems, TLAPS

(* ADR 0004: the caller does not overlap calls that share a payload, and    *)
(* the store outlives a restart.  Of the faults, two make the ledger        *)
(* believe a refusal that was none (see the run feed_http500).              *)
ADR == Sequential /\ Durable /\ {"http500", "unreadable"} \cap Faults = {}

-----------------------------------------------------------------------------
(* A request the ledger answers for has been or may yet be taken: one that  *)
(* the TimeoutError of its caller's signal did not end.                     *)
Live(c, p) == Reached(c, p) /\ ~Disowned(c, p)

(* Nobody's request with payload p is one. *)
Untaken(p) == \A d \in Calls : ~Live(d, p)

(* Nobody else's is. *)
OthersUntaken(c) == \A d \in Calls \ {c} : ~Live(d, Payload(c))

(* Calls at work share no payload. *)
Apart == \A c, d \in Calls : Started(c) /\ Started(d) /\ c # d => Body(c) \cap Body(d) = {}

(* What each place of a call says of its record and of Newegg. *)
PlaceInv(c) ==
  /\ pc[c] = "checking" => seen[c] = store[Payload(c)]
  /\ pc[c] \in {"limiting", "sending", "backoff"} =>
       store[Payload(c)] = "submitting" /\ Untaken(Payload(c))
  /\ pc[c] = "inflight" => store[Payload(c)] = "submitting" /\ OthersUntaken(c)
  /\ report[c] # "none" => pc[c] = "done"

FeedInv ==
  /\ FeedTypeOK
  /\ Apart
  /\ \A c \in Calls : PlaceInv(c)
  /\ NoDoubleFeed
  /\ FailureIsDefinitive

-----------------------------------------------------------------------------
(* The chunk a call works on is one of its own. *)
LEMMA PayloadTypes ==
  ASSUME FeedTypeOK, NEW c \in Calls
  PROVE  /\ Payload(c) \in Payloads /\ Payload(c) \in Body(c)
         /\ at[c] \in Nat /\ at[c] \in 1 .. Len(Chunks[c]) /\ Chunks[c] \in Seq(Payloads)
BY FeedAssumption DEF FeedTypeOK, Payload, Body

(* Every step keeps the types. *)
LEMMA FeedTypeStep ==
  ASSUME FeedTypeOK, [FeedNext]_feedVars
  PROVE  FeedTypeOK'
<1>a. MaxAttempts \in Nat \ {0}
  BY FeedAssumption
<1>b. \A c \in Calls : /\ Payload(c) \in Payloads
                       /\ at[c] \in Nat /\ at[c] \in 1 .. Len(Chunks[c])
                       /\ Chunks[c] \in Seq(Payloads) /\ Len(Chunks[c]) \in Nat
  BY PayloadTypes
<1> USE DEF Goto, Mark, End, States, Reports, Working, Fates
<1>1. ASSUME NEW c \in Calls, Look(c) \/ Check(c) \/ Proceed(c)
      PROVE  FeedTypeOK'
  <2>1. CASE Look(c)
    BY <1>b, <2>1 DEF FeedTypeOK, Look
  <2>2. CASE Check(c)
    <3>1. CASE End(c, "indeterminate") /\ UNCHANGED <<store, fate>>
      BY <1>a, <1>b, <3>1 DEF FeedTypeOK
    <3>2. CASE /\ Mark(Payload(c), "submitting") /\ Goto(c, "limiting")
               /\ UNCHANGED <<at, seen, tries, report, fate>>
      BY <1>b, <3>2 DEF FeedTypeOK
    <3> QED BY <2>2, <3>1, <3>2 DEF Check
  <2>3. CASE Proceed(c)
    BY <1>b, <2>3 DEF FeedTypeOK, Proceed
  <2> QED BY <1>1, <2>1, <2>2, <2>3
<1>2. ASSUME NEW c \in Calls, Dispatch(c)
      PROVE  FeedTypeOK'
  BY <1>b, <1>2 DEF FeedTypeOK, Dispatch
<1>3. ASSUME NEW c \in Calls, PreSendFails(c)
      PROVE  FeedTypeOK'
  <2>1. CASE /\ tries[c] + 1 < MaxAttempts
             /\ tries' = [tries EXCEPT ![c] = @ + 1]
             /\ Goto(c, "backoff")
             /\ UNCHANGED <<store, at, seen, report, fate>>
    BY <1>a, <1>b, <2>1 DEF FeedTypeOK
  <2>2. CASE Mark(Payload(c), "failed") /\ End(c, "failed") /\ UNCHANGED fate
    BY <1>a, <1>b, <2>2 DEF FeedTypeOK
  <2> QED BY <1>3, <2>1, <2>2 DEF PreSendFails
<1>4. ASSUME NEW c \in Calls, Accepted(c)
      PROVE  FeedTypeOK'
  <2>1. CASE End(c, "submitted")
    BY <1>a, <1>b, <1>4, <2>1 DEF FeedTypeOK, Accepted
  <2>2. CASE /\ at[c] < Len(Chunks[c])
             /\ at' = [at EXCEPT ![c] = @ + 1]
             /\ seen' = [seen EXCEPT ![c] = "none"]
             /\ tries' = [tries EXCEPT ![c] = 0]
             /\ Goto(c, "idle")
             /\ UNCHANGED report
    <3>1. at' \in [Calls -> Nat] /\ \A d \in Calls : at'[d] \in DOMAIN Chunks[d]
      BY <1>b, <2>2 DEF FeedTypeOK
    <3> QED BY <1>a, <1>b, <1>4, <2>2, <3>1 DEF FeedTypeOK, Accepted
  <2> QED BY <1>4, <2>1, <2>2 DEF Accepted
<1>5. ASSUME NEW c \in Calls, Rejected(c) \/ Ambiguous(c) \/ Abort(c)
      PROVE  FeedTypeOK'
  <2>0. CASE \E how \in Reports : /\ End(c, how) /\ UNCHANGED fate
                                  /\ UNCHANGED store \/ Mark(Payload(c), "failed")
    BY <1>a, <1>b, <2>0 DEF FeedTypeOK
  <2>a. {"aborted", "indeterminate", "timedout", "failed"} \subseteq Reports
    OBVIOUS
  <2>1. CASE Rejected(c)
    BY <1>a, <1>b, <2>1 DEF FeedTypeOK, Rejected
  <2>2. CASE Ambiguous(c)
    BY <2>0, <2>a, <2>2 DEF Ambiguous
  <2>3. CASE Abort(c)
    BY <2>0, <2>a, <2>3 DEF Abort
  <2> QED BY <1>5, <2>1, <2>2, <2>3
<1>6. ASSUME NEW c \in Calls, NEW p \in Payloads, NeweggDecides(c, p)
      PROVE  FeedTypeOK'
  BY <1>6 DEF FeedTypeOK, NeweggDecides
<1>7. CASE Crash
  BY <1>a, <1>7 DEF FeedTypeOK, Crash
<1>8. CASE UNCHANGED feedVars
  BY <1>8 DEF FeedTypeOK, feedVars
<1> QED BY <1>1, <1>2, <1>3, <1>4, <1>5, <1>6, <1>7, <1>8 DEF FeedNext, Advance

-----------------------------------------------------------------------------
(* A call at work has its payloads for itself: the record of its chunk is   *)
(* not touched by the step of another call at work.                         *)
LEMMA OwnPayload ==
  ASSUME FeedTypeOK, Apart, NEW c \in Calls, NEW d \in Calls, c # d, Started(c), Started(d)
  PROVE  Payload(c) # Payload(d)
BY PayloadTypes DEF Apart

(* Calls stay apart: a call begins only when nobody at work shares a        *)
(* payload with it.                                                         *)
LEMMA ApartStep ==
  ASSUME ADR, FeedInv, [FeedNext]_feedVars
  PROVE  Apart'
<1>0. FeedTypeOK /\ FeedTypeOK' /\ Apart /\ Sequential
  BY FeedTypeStep DEF FeedInv, ADR
<1>1. \A c \in Calls : Body(c)' = Body(c)
  BY DEF Body
<1>2. CASE \E c \in Calls : Look(c)
  <2> PICK c \in Calls : Look(c)
    BY <1>2
  <2>1. \A d \in Calls \ {c} : Started(d)' <=> Started(d)
    BY <1>0 DEF Look, Goto, FeedTypeOK, Started
  <2>2. \A d \in Calls \ {c} : Started(d) => Body(c) \cap Body(d) = {}
    BY <1>0 DEF Look
  <2> QED BY <1>0, <1>1, <2>1, <2>2 DEF Apart
<1>3. ASSUME NEW c \in Calls,
             \/ Check(c) \/ Proceed(c) \/ Dispatch(c) \/ PreSendFails(c) \/ Accepted(c)
             \/ Rejected(c) \/ Ambiguous(c) \/ Abort(c)
      PROVE  Apart'
  <2>1. Started(c)
    BY <1>3 DEF Check, Proceed, Dispatch, PreSendFails, Accepted, Rejected, Ambiguous, Abort,
                Started, Working
  <2>2. \A d \in Calls \ {c} : pc'[d] = pc[d] /\ at'[d] = at[d]
    BY <1>0, <1>3 DEF Check, Proceed, Dispatch, PreSendFails, Accepted, Rejected, Ambiguous,
                      Abort, Goto, End, FeedTypeOK
  <2>3. \A d \in Calls : Started(d)' => Started(d)
    BY <2>1, <2>2 DEF Started
  <2> QED BY <1>0, <1>1, <2>3 DEF Apart
<1>4. CASE Crash \/ (\E c \in Calls, p \in Payloads : NeweggDecides(c, p)) \/ UNCHANGED feedVars
  <2>1. \A d \in Calls : Started(d)' => Started(d)
    BY <1>0, <1>4 DEF Crash, NeweggDecides, feedVars, Started, FeedTypeOK, Working
  <2> QED BY <1>0, <1>1, <2>1 DEF Apart
<1> QED BY <1>2, <1>3, <1>4 DEF FeedNext, Advance

-----------------------------------------------------------------------------
(* A step of c that changes no request leaves no request to answer for that *)
(* was none before.                                                         *)
LEMMA FewerLive ==
  ASSUME FeedInv, NEW c \in Calls, pc[c] # "done", fate' = fate,
         \A d \in Calls \ {c} : at'[d] = at[d] /\ report'[d] = report[d]
  PROVE  \A e \in Calls, p \in Payloads : Live(e, p)' => Live(e, p)
<1> SUFFICES ASSUME NEW e \in Calls, NEW p \in Payloads, Live(e, p)'
             PROVE  Live(e, p)
  OBVIOUS
<1>1. Reached(e, p)
  BY DEF Live, Reached
<1>2. CASE e = c
  BY <1>1, <1>2 DEF FeedInv, PlaceInv, Live, Disowned
<1>3. CASE e # c
  BY <1>1, <1>3 DEF Live, Disowned, Payload
<1> QED BY <1>2, <1>3

(* A step of c that changes no request and, of the records, that of its     *)
(* chunk at most, leaves what the other calls rely on.                      *)
LEMMA OthersKept ==
  ASSUME FeedInv, NEW c \in Calls, NEW s \in States, Started(c) \/ store' = store,
         pc[c] # "done",
         store' = store \/ store' = [store EXCEPT ![Payload(c)] = s],
         fate' = fate,
         \A d \in Calls \ {c} : /\ pc'[d] = pc[d] /\ at'[d] = at[d]
                                /\ seen'[d] = seen[d] /\ report'[d] = report[d]
  PROVE  \A d \in Calls \ {c} : PlaceInv(d)'
<1> SUFFICES ASSUME NEW d \in Calls \ {c} PROVE PlaceInv(d)'
  OBVIOUS
<1>1. FeedTypeOK /\ PlaceInv(d) /\ Apart
  BY DEF FeedInv
<1>2. Payload(d)' = Payload(d) /\ Payload(d) \in Payloads /\ Payload(c) \in Payloads
  BY <1>1, PayloadTypes DEF Payload
<1>3. pc[d] \in Working => store'[Payload(d)] = store[Payload(d)]
  <2>1. CASE store' = store
    BY <2>1
  <2>2. CASE Started(c) /\ pc[d] \in Working
    <3>1. Payload(c) # Payload(d)
      BY <1>1, <2>2, OwnPayload DEF Started
    <3> QED BY <1>1, <1>2, <3>1 DEF FeedTypeOK
  <2> QED BY <2>1, <2>2
<1>4. \A e \in Calls, p \in Payloads : Live(e, p)' => Live(e, p)
  BY FewerLive
<1> QED BY <1>1, <1>2, <1>3, <1>4 DEF PlaceInv, Untaken, OthersUntaken, Working

(* The steps by which a call goes on or ends without a request changing.    *)
LEMMA CallSteps ==
  ASSUME ADR, FeedInv, NEW c \in Calls,
         \/ Look(c) \/ Check(c) \/ Proceed(c) \/ PreSendFails(c) \/ Accepted(c)
         \/ Rejected(c) \/ Ambiguous(c) \/ Abort(c)
  PROVE  /\ \A d \in Calls : PlaceInv(d)'
         /\ NoDoubleFeed' /\ FailureIsDefinitive'
<1>0. FeedTypeOK /\ PlaceInv(c) /\ NoDoubleFeed /\ FailureIsDefinitive /\ FeedTypeOK'
  BY FeedTypeStep DEF FeedInv, FeedNext, Advance
<1>p. /\ Payload(c) \in Payloads
      /\ at[c] \in Nat /\ at[c] \in 1 .. Len(Chunks[c])
  BY <1>0, PayloadTypes
<1>1. /\ fate' = fate
      /\ \A d \in Calls \ {c} : /\ pc'[d] = pc[d] /\ at'[d] = at[d]
                                /\ seen'[d] = seen[d] /\ report'[d] = report[d]
  BY <1>0, SMTT(30) DEF FeedTypeOK, Look, Check, Proceed, PreSendFails, Accepted, Rejected, Ambiguous,
              Abort, Goto, End
<1>2. /\ Started(c) \/ store' = store
      /\ \E s \in States : store' = store \/ store' = [store EXCEPT ![Payload(c)] = s]
  BY DEF Look, Check, Proceed, PreSendFails, Accepted, Rejected, Ambiguous, Abort, Mark,
         Started, Working, States
<1>n. pc[c] # "done"
  BY DEF Look, Check, Proceed, PreSendFails, Accepted, Rejected, Ambiguous, Abort
<1>3. \A d \in Calls \ {c} : PlaceInv(d)'
  BY <1>1, <1>2, <1>n, OthersKept
<1>4. \A e \in Calls, p \in Payloads : Live(e, p)' => Live(e, p)
  BY <1>1, <1>n, FewerLive
<1>u. \A p \in Payloads : Untaken(p) => Untaken(p)'
  BY <1>4 DEF Untaken
<1>5. NoDoubleFeed'
  BY <1>0, <1>4 DEF NoDoubleFeed, Live
<1>6. \A d \in Calls \ {c} : Payload(d)' = Payload(d) /\ Payload(d) \in Payloads
  BY <1>0, <1>1, PayloadTypes DEF Payload
<1>7. ASSUME PlaceInv(c)',
             report'[c] = "failed" => ~Reached(c, Payload(c)'),
             \A p \in Payloads : store'[p] \in {"none", "failed"} /\ store'[p] # store[p] => Untaken(p)'
      PROVE  (\A d \in Calls : PlaceInv(d)') /\ NoDoubleFeed' /\ FailureIsDefinitive'
  <2>1. \A d \in Calls : report'[d] = "failed" => ~Reached(d, Payload(d))'
    <3> SUFFICES ASSUME NEW d \in Calls, report'[d] = "failed" PROVE ~Reached(d, Payload(d))'
      OBVIOUS
    <3>1. CASE d = c
      BY <1>7, <3>1, <1>1 DEF Reached
    <3>2. CASE d # c
      BY <3>2, <1>0, <1>1, <1>6 DEF Reached, FailureIsDefinitive
    <3> QED BY <3>1, <3>2
  <2>2. \A p \in Payloads : store'[p] \in {"none", "failed"} =>
          \A d \in Calls : Reached(d, p)' => Disowned(d, p)'
    <3> SUFFICES ASSUME NEW p \in Payloads, store'[p] \in {"none", "failed"} PROVE Untaken(p)'
      BY DEF Untaken, Live
    <3>1. CASE store'[p] = store[p]
      BY <1>0, <1>u, <3>1 DEF FailureIsDefinitive, Untaken, Live
    <3> QED BY <1>7, <3>1
  <2> QED BY <1>3, <1>5, <1>7, <2>1, <2>2 DEF FailureIsDefinitive
<1>8. \A p \in Payloads : p # Payload(c) => store'[p] = store[p]
  BY <1>0, <1>2, <1>p DEF FeedTypeOK
<1>9. CASE Look(c)
  <2>1. /\ pc'[c] = "checking" /\ seen'[c] = store[Payload(c)] /\ Payload(c)' = Payload(c)
        /\ store' = store /\ report'[c] = report[c] /\ report[c] = "none"
    BY <1>0, <1>9 DEF Look, Goto, FeedTypeOK, Payload, PlaceInv
  <2>2. PlaceInv(c)'
    BY <2>1 DEF PlaceInv
  <2> QED BY <1>7, <2>1, <2>2
<1>10. CASE Check(c)
  <2>1. CASE End(c, "indeterminate") /\ UNCHANGED store
    <3>1. pc'[c] = "done" /\ report'[c] = "indeterminate" /\ store' = store
      BY <1>0, <2>1 DEF End, Goto, FeedTypeOK
    <3>2. PlaceInv(c)'
      BY <3>1 DEF PlaceInv
    <3> QED BY <1>7, <3>1, <3>2
  <2>2. CASE /\ pc[c] = "checking" /\ seen[c] \in {"none", "failed"}
             /\ Mark(Payload(c), "submitting") /\ Goto(c, "limiting")
             /\ UNCHANGED <<at, seen, tries, report>>
    <3>1. /\ pc'[c] = "limiting" /\ Payload(c)' = Payload(c) /\ report'[c] = report[c]
          /\ store'[Payload(c)] = "submitting"
      BY <1>0, <1>p, <2>2 DEF Mark, Goto, FeedTypeOK, Payload
    <3>2. Untaken(Payload(c)) /\ report[c] = "none"
      BY <1>0, <1>p, <2>2 DEF PlaceInv, FailureIsDefinitive, Untaken, Live
    <3>3. Untaken(Payload(c))'
      BY <3>1, <3>2, <1>4, <1>p DEF Untaken
    <3>4. PlaceInv(c)'
      BY <3>1, <3>2, <3>3 DEF PlaceInv
    <3> QED BY <1>7, <1>8, <3>1, <3>2, <3>4
  <2> QED BY <1>10, <2>1, <2>2 DEF Check
<1>11. CASE Proceed(c)
  <2>1. /\ pc'[c] = "sending" /\ Payload(c)' = Payload(c) /\ store' = store
        /\ report'[c] = report[c] /\ pc[c] \in {"limiting", "backoff"}
    BY <1>0, <1>11 DEF Proceed, Goto, FeedTypeOK, Payload
  <2>2. Untaken(Payload(c))' /\ store[Payload(c)] = "submitting" /\ report[c] = "none"
    BY <1>0, <1>4, <1>p, <2>1 DEF PlaceInv, Untaken
  <2>3. PlaceInv(c)'
    BY <2>1, <2>2 DEF PlaceInv
  <2> QED BY <1>7, <2>1, <2>2, <2>3
<1>12. CASE PreSendFails(c)
  <2>0. store[Payload(c)] = "submitting" /\ Untaken(Payload(c)) /\ report[c] = "none"
    BY <1>0, <1>12 DEF PreSendFails, PlaceInv
  <2>1. CASE Goto(c, "backoff") /\ UNCHANGED <<store, at, seen, report>>
    <3>1. pc'[c] = "backoff" /\ Payload(c)' = Payload(c) /\ store' = store /\ report' = report
      BY <1>0, <2>1 DEF Goto, FeedTypeOK, Payload
    <3>2. Untaken(Payload(c))'
      BY <2>0, <3>1, <1>4, <1>p DEF Untaken
    <3>3. PlaceInv(c)'
      BY <2>0, <3>1, <3>2 DEF PlaceInv
    <3> QED BY <1>7, <2>0, <3>1, <3>3
  <2>2. CASE Mark(Payload(c), "failed") /\ End(c, "failed")
    <3>1. pc'[c] = "done" /\ report'[c] = "failed" /\ Payload(c)' = Payload(c)
      BY <1>0, <2>2 DEF End, Goto, FeedTypeOK, Payload
    <3>2. PlaceInv(c)'
      BY <3>1 DEF PlaceInv
    <3>3. ~Reached(c, Payload(c)) /\ Untaken(Payload(c))'
      <4>1. ~Reached(c, Payload(c))
        BY <2>0 DEF Untaken, Live, Disowned
      <4> QED BY <1>p, <1>u, <2>0, <3>1, <4>1
    <3> QED BY <1>7, <1>8, <1>p, <2>0, <3>1, <3>2, <3>3
  <2> QED BY <1>12, <2>1, <2>2 DEF PreSendFails
<1>13. CASE Accepted(c)
  <2>0. store'[Payload(c)] = "submitted" /\ report[c] = "none"
    BY <1>0, <1>p, <1>13 DEF Accepted, Mark, FeedTypeOK, PlaceInv
  <2>1. CASE End(c, "submitted")
    <3>1. pc'[c] = "done" /\ report'[c] = "submitted"
      BY <1>0, <2>1 DEF End, Goto, FeedTypeOK
    <3>2. PlaceInv(c)'
      BY <3>1 DEF PlaceInv
    <3> QED BY <1>7, <1>8, <2>0, <3>1, <3>2
  <2>2. CASE Goto(c, "idle") /\ UNCHANGED report
    <3>1. pc'[c] = "idle" /\ report'[c] = "none"
      BY <1>0, <2>0, <2>2 DEF Goto, FeedTypeOK
    <3>2. PlaceInv(c)'
      BY <3>1 DEF PlaceInv
    <3> QED BY <1>7, <1>8, <2>0, <3>1, <3>2
  <2> QED BY <1>13, <2>1, <2>2 DEF Accepted
<1>14. CASE Rejected(c)
  <2>1. pc[c] = "inflight" /\ fate[c][Payload(c)] = "refused"
    BY <1>14 DEF Rejected, ADR
  <2>2. Untaken(Payload(c)) /\ ~Reached(c, Payload(c))
    BY <1>0, <2>1 DEF PlaceInv, OthersUntaken, Untaken, Live, Reached
  <2>3. pc'[c] = "done" /\ report'[c] = "failed" /\ Payload(c)' = Payload(c)
    BY <1>0, <1>14 DEF Rejected, End, Goto, FeedTypeOK, Payload
  <2>4. PlaceInv(c)'
    BY <2>3 DEF PlaceInv
  <2>5. Untaken(Payload(c))'
    BY <1>p, <1>u, <2>2, <2>3
  <2> QED BY <1>7, <1>8, <1>p, <2>2, <2>3, <2>4, <2>5
<1>15. CASE Ambiguous(c) \/ (Abort(c) /\ store' = store)
  <2>1. pc'[c] = "done" /\ report'[c] # "failed" /\ store' = store
    BY <1>0, <1>15 DEF Ambiguous, Abort, End, Goto, FeedTypeOK
  <2>2. PlaceInv(c)'
    BY <2>1 DEF PlaceInv
  <2> QED BY <1>7, <2>1, <2>2
<1>16. CASE Abort(c) /\ store' # store
  <2>1. /\ pc[c] \in {"sending", "inflight"} /\ pc'[c] = "done" /\ report'[c] = "timedout"
        /\ Payload(c)' = Payload(c)
    BY <1>0, <1>16 DEF Abort, End, Goto, FeedTypeOK, Payload
  <2>2. OthersUntaken(c)
    BY <1>0, <2>1 DEF PlaceInv, OthersUntaken, Untaken
  <2>3. Untaken(Payload(c))'
    <3> SUFFICES ASSUME NEW d \in Calls PROVE ~Live(d, Payload(c))'
      BY <2>1 DEF Untaken
    <3>1. CASE d = c
      BY <2>1, <3>1 DEF Live, Disowned
    <3>2. CASE d # c
      BY <1>4, <1>p, <2>1, <2>2, <3>2 DEF OthersUntaken
    <3> QED BY <3>1, <3>2
  <2>4. PlaceInv(c)'
    BY <2>1 DEF PlaceInv
  <2> QED BY <1>7, <1>8, <2>1, <2>3, <2>4
<1> QED BY <1>9, <1>10, <1>11, <1>12, <1>13, <1>14, <1>15, <1>16

(* The one step that sends: nobody's request with the payload has been      *)
(* taken, and from here on the record keeps it from being sent again.       *)
LEMMA DispatchStep ==
  ASSUME FeedInv, NEW c \in Calls, Dispatch(c)
  PROVE  /\ \A d \in Calls : PlaceInv(d)'
         /\ NoDoubleFeed' /\ FailureIsDefinitive'
<1>0. FeedTypeOK /\ PlaceInv(c) /\ NoDoubleFeed /\ FailureIsDefinitive /\ Apart
  BY DEF FeedInv
<1>p. \A d \in Calls : Payload(d) \in Payloads /\ Payload(d)' = Payload(d)
  BY <1>0, PayloadTypes DEF Dispatch, Payload
<1>1. store[Payload(c)] = "submitting" /\ Untaken(Payload(c)) /\ report[c] = "none"
  BY <1>0 DEF Dispatch, PlaceInv
<1>2. /\ store' = store /\ at' = at /\ seen' = seen /\ report' = report
      /\ pc'[c] = "inflight" /\ \A d \in Calls \ {c} : pc'[d] = pc[d]
  BY <1>0 DEF Dispatch, Goto, FeedTypeOK
<1>3. \A d \in Calls, p \in Payloads :
        /\ Reached(d, p)' <=> Reached(d, p) \/ (d = c /\ p = Payload(c))
        /\ Disowned(d, p)' <=> Disowned(d, p)
  BY <1>0, <1>p, <1>2 DEF Dispatch, Reached, Disowned, FeedTypeOK
<1>a. \A d \in Calls, p \in Payloads : Live(d, p)' => Live(d, p) \/ (d = c /\ p = Payload(c))
  BY <1>3 DEF Live
<1>4. NoDoubleFeed'
  BY <1>0, <1>1, <1>3 DEF NoDoubleFeed, Untaken, Live
<1>5. PlaceInv(c)'
  BY <1>1, <1>2, <1>a, <1>p DEF PlaceInv, OthersUntaken, Untaken
<1>6. ASSUME NEW d \in Calls \ {c}
      PROVE  PlaceInv(d)'
  <2>1. PlaceInv(d)
    BY DEF FeedInv
  <2>2. pc[d] \in Working => Payload(d) # Payload(c)
    BY <1>0, OwnPayload DEF Started, Dispatch, Working
  <2>3. pc[d] \in Working /\ Untaken(Payload(d)) => Untaken(Payload(d))'
    BY <1>a, <1>p, <2>2 DEF Untaken
  <2>4. pc[d] \in Working /\ OthersUntaken(d) => OthersUntaken(d)'
    BY <1>a, <1>p, <2>2 DEF OthersUntaken
  <2> QED BY <1>2, <1>p, <2>1, <2>3, <2>4 DEF PlaceInv, Working
<1>7. \A d \in Calls : report'[d] = "failed" => ~Reached(d, Payload(d))'
  BY <1>0, <1>1, <1>2, <1>3, <1>p DEF FailureIsDefinitive, Reached
<1>8. \A p \in Payloads : store'[p] \in {"none", "failed"} =>
        \A d \in Calls : Reached(d, p)' => Disowned(d, p)'
  BY <1>0, <1>1, <1>2, <1>3 DEF FailureIsDefinitive
<1> QED BY <1>4, <1>5, <1>6, <1>7, <1>8 DEF FailureIsDefinitive

(* Newegg's decision and a restart: no request becomes taken that could not *)
(* have been before, and a durable record is still there.                   *)
LEMMA OutsideStep ==
  ASSUME ADR, FeedInv,
         (\E c \in Calls, p \in Payloads : NeweggDecides(c, p)) \/ Crash \/ UNCHANGED feedVars
  PROVE  /\ \A d \in Calls : PlaceInv(d)'
         /\ NoDoubleFeed' /\ FailureIsDefinitive'
<1>0. FeedTypeOK /\ NoDoubleFeed /\ FailureIsDefinitive /\ \A d \in Calls : PlaceInv(d)
  BY DEF FeedInv
<1>1. store' = store /\ at' = at
  BY DEF NeweggDecides, Crash, feedVars, ADR
<1>p. \A d \in Calls : Payload(d) \in Payloads /\ Payload(d)' = Payload(d)
  BY <1>0, <1>1, PayloadTypes DEF Payload
<1>2. \A d \in Calls, p \in Payloads : Reached(d, p)' => Reached(d, p)
  BY <1>0 DEF NeweggDecides, Crash, feedVars, Reached, FeedTypeOK
<1>3. \A d \in Calls : /\ report'[d] \in {report[d], "died"}
                       /\ pc'[d] = "done" \/ (pc'[d] = pc[d] /\ report'[d] = report[d])
                       /\ pc'[d] = "checking" => seen'[d] = seen[d]
  <2>1. CASE \E c \in Calls, p \in Payloads : NeweggDecides(c, p)
    BY <2>1 DEF NeweggDecides
  <2>2. CASE UNCHANGED feedVars
    BY <2>2 DEF feedVars
  <2>3. CASE Crash
    BY <2>3, <1>0 DEF Crash, Started, Working, FeedTypeOK
  <2> QED BY <2>1, <2>2, <2>3
<1>a. \A d \in Calls, p \in Payloads : Disowned(d, p) => Disowned(d, p)'
  <2> SUFFICES ASSUME NEW d \in Calls, report[d] = "timedout" PROVE report'[d] = "timedout"
    BY <1>p DEF Disowned
  <2>1. pc[d] = "done" /\ ~Started(d)
    BY <1>0 DEF PlaceInv, Started, Working
  <2> QED BY <1>0, <2>1 DEF NeweggDecides, Crash, feedVars, FeedTypeOK
<1>b. \A d \in Calls, p \in Payloads : Live(d, p)' => Live(d, p)
  BY <1>2, <1>a DEF Live
<1>4. \A d \in Calls : PlaceInv(d)'
  BY <1>0, <1>1, <1>b, <1>3, <1>p DEF PlaceInv, Untaken, OthersUntaken
<1>5. NoDoubleFeed'
  BY <1>0, <1>2, <1>a DEF NoDoubleFeed
<1>6. \A d \in Calls : report'[d] = "failed" => ~Reached(d, Payload(d))'
  BY <1>0, <1>2, <1>3, <1>p DEF FailureIsDefinitive, Reached
<1>7. \A p \in Payloads : store'[p] \in {"none", "failed"} =>
        \A d \in Calls : Reached(d, p)' => Disowned(d, p)'
  BY <1>0, <1>1, <1>2, <1>a DEF FailureIsDefinitive
<1> QED BY <1>4, <1>5, <1>6, <1>7 DEF FailureIsDefinitive

-----------------------------------------------------------------------------
(* Every step keeps the invariant.                                          *)
LEMMA FeedStepSafe ==
  ASSUME ADR, FeedInv, [FeedNext]_feedVars
  PROVE  FeedInv'
<1>1. FeedTypeOK' /\ Apart'
  BY FeedTypeStep, ApartStep DEF FeedInv
<1>2. (\A d \in Calls : PlaceInv(d)') /\ NoDoubleFeed' /\ FailureIsDefinitive'
  BY CallSteps, DispatchStep, OutsideStep DEF FeedNext, Advance
<1> QED BY <1>1, <1>2 DEF FeedInv

(* The ledger starts out empty.                                             *)
LEMMA FeedInitSafe == FeedInit => FeedInv
<1> SUFFICES ASSUME FeedInit PROVE FeedInv
  OBVIOUS
<1>1. FeedTypeOK
  BY FeedAssumption DEF FeedInit, FeedTypeOK, States, Reports, Working, Fates
<1>2. \A c \in Calls : ~Started(c)
  <2>1. \A c \in Calls : pc[c] = "idle" /\ at[c] = 1
    BY DEF FeedInit
  <2>2. \A c \in Calls : pc[c] \notin Working /\ ~(at[c] > 1)
    <3> SUFFICES ASSUME NEW c \in Calls PROVE pc[c] \notin Working /\ ~(at[c] > 1)
      OBVIOUS
    <3>1. at[c] = 1 /\ ~(1 > 1)
      BY <2>1
    <3>2. pc[c] = "idle" /\ "idle" \notin Working
      BY <2>1 DEF Working
    <3> QED BY <3>1, <3>2
  <2> QED BY <2>2 DEF Started
<1>3. \A c \in Calls, p \in Payloads : ~Reached(c, p)
  BY DEF FeedInit, Reached
<1>4. \A c \in Calls : Payload(c) \in Payloads
  BY <1>1, PayloadTypes
<1> QED BY <1>1, <1>2, <1>3, <1>4
        DEF FeedInit, FeedInv, Apart, PlaceInv, NoDoubleFeed, FailureIsDefinitive

(* The types, on no terms but the constants' own.                           *)
THEOREM FeedTyped == FeedSpec => []FeedTypeOK
<1>1. FeedInit => FeedTypeOK
  BY FeedInitSafe DEF FeedInv
<1> QED BY <1>1, FeedTypeStep, PTL DEF FeedSpec

(* No silent double feeds (ADR 0004): on its terms, Newegg takes at most    *)
(* one request with a given payload, through retries, aborts and restarts:  *)
(* but for a payload whose call an AbortSignal.timeout ended in flight.     *)
THEOREM NoSilentDoubleFeed == ADR => (FeedSpec => []NoDoubleFeed)
<1> SUFFICES ASSUME ADR PROVE FeedSpec => []NoDoubleFeed
  OBVIOUS
<1>1. FeedInv /\ [FeedNext]_feedVars => FeedInv'
  BY FeedStepSafe
<1>2. FeedInv => NoDoubleFeed
  BY DEF FeedInv
<1> QED BY <1>1, <1>2, FeedInitSafe, PTL DEF FeedSpec

(* A failure is told, and a payload freed, only for what was not taken      *)
(* (ADR 0004, decision 2), with the same exception.                         *)
THEOREM FeedFailuresAreTrue == ADR => (FeedSpec => []FailureIsDefinitive)
<1> SUFFICES ASSUME ADR PROVE FeedSpec => []FailureIsDefinitive
  OBVIOUS
<1>1. FeedInv /\ [FeedNext]_feedVars => FeedInv'
  BY FeedStepSafe
<1>2. FeedInv => FailureIsDefinitive
  BY DEF FeedInv
<1> QED BY <1>1, <1>2, FeedInitSafe, PTL DEF FeedSpec

-----------------------------------------------------------------------------
(* What a configuration that loads has in common with its environment.      *)
LEMMA LoadedConfig ==
  ASSUME NEW e, LoadConfig(e) # NoConfig
  PROVE  LET c == LoadConfig(e) IN
         /\ Valid(e) /\ FtpsOk(e)
         /\ c.marketplace = Normalize(e.NEWEGG_MARKETPLACE)
         /\ c.credentials = ResolveCredentials(e, c.marketplace) /\ c.credentials # NoKeys
         /\ c.allowWrites = Gate(e.ALLOW_WRITES) /\ c.operationStoreFile = e.STORE_FILE
         /\ c.reportFtps = Gate(e.REPORT_FTPS) /\ c.pin = e.FTPS_CERT_SHA256 /\ c.ca = e.FTPS_CA_FILE
         /\ c.maxLabelAmount = Cap(e.MAX_LABEL_AMOUNT, 100) /\ c.bearerToken = e.BEARER_TOKEN
<1> DEFINE market == Normalize(e.NEWEGG_MARKETPLACE)
           keys   == IF market = "none" THEN NoKeys ELSE ResolveCredentials(e, market)
<1>1. Valid(e) /\ keys # NoKeys /\ FtpsOk(e)
  BY DEF LoadConfig
<1>2. keys = ResolveCredentials(e, market)
  BY <1>1
<1> QED BY <1>1, <1>2 DEF LoadConfig

(* A preview and an apply for each of two lists of flows.                   *)
LEMMA BothOfUnion ==
  ASSUME NEW f, NEW g
  PROVE  Both(f \cup g) = Both(f) \cup Both(g)
BY DEF Both

(* The tools that are registered are the ones that are advertised, and the  *)
(* reads alone without writes (build.ts).                                   *)
LEMMA RegisteredAsAdvertised ==
  ASSUME NEW writes \in BOOLEAN
  PROVE  /\ Registered(writes) = Advertised(writes)
         /\ ~writes => Registered(writes) = Reads
<1>1. CASE ~writes
  BY <1>1 DEF Registered, Advertised
<1>2. CASE writes
  <2> DEFINE two   == {"inventory"} \cup {"listing"}
             three == two \cup {"volumeDiscount"}
             four  == three \cup {"pricing"}
             nine  == four \cup {"rmaSubmit", "rmaEdit", "rmaProcess", "rmaReject", "refundIssue"}
             all   == nine \cup {"labelCreate", "labelReprint"}
  <2>1. WriteFlows = all
    BY DEF WriteFlows, Preview
  <2>2. /\ Both(two) = Both({"inventory"}) \cup Both({"listing"})
        /\ Both(three) = Both(two) \cup Both({"volumeDiscount"})
        /\ Both(four) = Both(three) \cup Both({"pricing"})
        /\ Both(nine) = Both(four) \cup
             Both({"rmaSubmit", "rmaEdit", "rmaProcess", "rmaReject", "refundIssue"})
        /\ Both(all) = Both(nine) \cup Both({"labelCreate", "labelReprint"})
    <3> HIDE DEF two, three, four, nine
    <3>1. Both(all) = Both(nine) \cup Both({"labelCreate", "labelReprint"})
      BY BothOfUnion
    <3>2. Both(nine) = Both(four) \cup
             Both({"rmaSubmit", "rmaEdit", "rmaProcess", "rmaReject", "refundIssue"})
      BY BothOfUnion DEF nine
    <3>3. Both(four) = Both(three) \cup Both({"pricing"})
      BY BothOfUnion DEF four
    <3>4. Both(three) = Both(two) \cup Both({"volumeDiscount"})
      BY BothOfUnion DEF three
    <3>5. Both(two) = Both({"inventory"}) \cup Both({"listing"})
      BY BothOfUnion DEF two
    <3> QED BY <3>1, <3>2, <3>3, <3>4, <3>5
  <2> HIDE DEF two, three, four, nine, all
  <2> QED BY <1>2, <2>1, <2>2 DEF Registered, Advertised
<1> QED BY <1>1, <1>2

-----------------------------------------------------------------------------
(* The invariant of a process: the token is spelt as it may be, a           *)
(* configuration in use is the environment's, and a session that is served  *)
(* is one this configuration makes, with the ledger of the process.         *)
InUse == {"checked", "listening", "closing"}

Served(s) ==
  /\ phase \in {"listening", "closing"}
  /\ SdkAccepts(ClientConfig(config))
  /\ client[s].of = ClientConfig(config) /\ client[s].ledger = ledger
  /\ client[s].tools = Registered(config.allowWrites)
  /\ ledger # "none"

StartupInv ==
  /\ DOMAIN env = Var /\ env.BEARER_TOKEN \in Spellings.BEARER_TOKEN
  /\ client = [s \in Session |-> client[s]]
  /\ phase \in InUse => config = LoadConfig(env) /\ config # NoConfig
  /\ phase \in {"listening", "closing"} /\ "http" \in args => HttpStarts(config)
  /\ phase \in {"idle", "configured"} => ledger = "none"
  /\ phase \in InUse /\ ledger # "none" => ledger = IF env.STORE_FILE = "" THEN "memory" ELSE "file"
  /\ \A s \in Serving : Served(s)

(* How the bearer token may be spelt.                                       *)
LEMMA SpelledTokens ==
  /\ "BEARER_TOKEN" \in Var
  /\ Spellings["BEARER_TOKEN"] = {"", "strong", "weak"}
BY DEF Var, Spellings

(* A session is made from the configuration in use, or refused.             *)
LEMMA CreatedOrRefused ==
  ASSUME StartupInv, NEW s \in Session, phase \in InUse, CreateServer(s)
  PROVE  /\ client'[s].state = "serving" =>
              /\ SdkAccepts(ClientConfig(config))
              /\ client'[s].of = ClientConfig(config) /\ client'[s].ledger = ledger'
              /\ client'[s].tools = Registered(config.allowWrites)
              /\ ledger' # "none"
         /\ \A x \in Session \ {s} : client'[x] = client[x]
         /\ client' = [x \in Session |-> client'[x]]
         /\ ledger' # "none" => ledger' = IF env.STORE_FILE = "" THEN "memory" ELSE "file"
         /\ ledger # "none" => ledger' = ledger
<1> DEFINE kept == OperationStoreFor
           asked == ClientConfig(config)
           made  == [state |-> "serving", of |-> asked, ledger |-> kept, tools |-> Registered(config.allowWrites)]
<1>1. config.operationStoreFile = env.STORE_FILE
  BY LoadedConfig DEF StartupInv
<1>2. /\ kept \in {"memory", "file", "unusable"} \/ kept = ledger
      /\ kept \notin {"unusable", "none"} => kept = IF env.STORE_FILE = "" THEN "memory" ELSE "file"
      /\ ledger # "none" => kept = ledger /\ kept # "unusable"
  BY <1>1 DEF OperationStoreFor, StartupInv
<1>3. /\ ledger' = IF kept = "unusable" \/ config.hmacKey = "weak" THEN ledger ELSE kept
      /\ client' = [client EXCEPT ![s] =
           IF config.hmacKey # "weak" /\ kept # "unusable" /\ SdkAccepts(asked) THEN made ELSE Refused]
  BY DEF CreateServer
<1>4. made.state = "serving" /\ made.of = asked /\ made.ledger = kept
      /\ made.tools = Registered(config.allowWrites) /\ Refused.state = "refused"
  BY DEF Refused
<1> HIDE DEF made, asked
<1>5. /\ client'[s] = IF config.hmacKey # "weak" /\ kept # "unusable" /\ SdkAccepts(asked) THEN made ELSE Refused
      /\ \A x \in Session \ {s} : client'[x] = client[x]
      /\ client' = [x \in Session |-> client'[x]]
  BY <1>3 DEF StartupInv
<1>6. kept # "none"
  BY DEF OperationStoreFor
<1> HIDE DEF kept
<1>7. ledger' # "none" => ledger' = IF env.STORE_FILE = "" THEN "memory" ELSE "file"
  BY <1>2, <1>3 DEF StartupInv
<1> QED BY <1>2, <1>3, <1>4, <1>5, <1>6, <1>7 DEF asked

(* A step that keeps the environment, the configuration, the command line,  *)
(* the ledger and the sessions may move the process on.                     *)
LEMMA PhaseMoves ==
  ASSUME StartupInv, UNCHANGED <<env, args, ledger, client>>,
         phase' \in InUse => phase \in InUse /\ config' = config,
         phase' \in {"listening", "closing"} /\ "http" \in args =>
           phase \in {"listening", "closing"} \/ HttpStarts(config),
         phase' \in {"idle", "configured"} => phase \in {"idle", "configured"},
         phase \in {"listening", "closing"} => phase' \in {"listening", "closing"}
  PROVE  StartupInv'
<1>1. ASSUME NEW s \in Session, client'[s].state = "serving" PROVE Served(s)'
  <2>1. Served(s)
    BY <1>1 DEF StartupInv, Serving
  <2> QED BY <2>1 DEF Served, InUse
<1> QED BY <1>1 DEF StartupInv, InUse, Serving

(* A variable is set before the process starts, when nobody is served.      *)
LEMMA SetVariableSafe ==
  ASSUME StartupInv, SetVariable
  PROVE  StartupInv'
<1>1. PICK v \in Var : \E spelling \in Spellings[v] \ {Plain[v]} :
        env[v] = Plain[v] /\ env' = [env EXCEPT ![v] = spelling]
  BY DEF SetVariable
<1>2. DOMAIN env' = Var /\ env'["BEARER_TOKEN"] \in Spellings["BEARER_TOKEN"]
  <2>1. PICK spelling \in Spellings[v] : env' = [env EXCEPT ![v] = spelling]
    BY <1>1
  <2>2. DOMAIN env' = Var /\ \A x \in Var : env'[x] = IF x = v THEN spelling ELSE env[x]
    BY <2>1 DEF StartupInv
  <2> QED BY <2>1, <2>2, SpelledTokens DEF StartupInv
<1>3. phase = "idle" /\ UNCHANGED <<args, phase, config, ledger, client>>
  BY DEF SetVariable
<1>4. \A s \in Session : client'[s].state # "serving"
  BY <1>3 DEF StartupInv, Serving, Served
<1> QED BY <1>2, <1>3, <1>4 DEF StartupInv, InUse, Serving

(* The command line is read, the configuration loaded and checked, and the  *)
(* HTTP server starts, if the configuration is one it starts with.          *)
LEMMA LaunchSafe ==
  ASSUME StartupInv, Launch \/ Configure \/ RunHttp
  PROVE  StartupInv'
<1>0. \A s \in Session : client[s].state = "serving" => phase \in {"listening", "closing"}
  BY DEF StartupInv, Serving, Served
<1>1. CASE Launch
  <2>1. phase = "idle" /\ UNCHANGED <<env, config, ledger, client>> /\ phase' \in {"exited", "configured"}
    BY <1>1 DEF Launch, Exit
  <2> QED BY <1>0, <2>1 DEF StartupInv, InUse, Serving
<1>2. CASE Configure
  <2>1. /\ phase = "configured" /\ UNCHANGED <<env, args, ledger, client>>
        /\ phase' \in {"exited", "checked"}
        /\ phase' = "checked" => config' = LoadConfig(env) /\ config' # NoConfig
    BY <1>2 DEF Configure, Exit
  <2> QED BY <1>0, <2>1 DEF StartupInv, InUse, Serving
<1>3. CASE RunHttp
  <2>1. /\ phase = "checked" /\ UNCHANGED <<env, args, config, ledger, client>>
        /\ phase' \in {"exited", "listening"} /\ (phase' = "listening" => HttpStarts(config))
    BY <1>3 DEF RunHttp, Exit
  <2> QED BY <2>1, PhaseMoves DEF InUse
<1> QED BY <1>1, <1>2, <1>3

(* A server is made for a session: the first one of stdio, or one more.     *)
LEMMA OpenSafe ==
  ASSUME StartupInv, NEW s \in Session, phase \in {"checked", "listening"}, CreateServer(s),
         UNCHANGED <<env, args, config>>,
         phase' \in {"listening", "exited"}, phase = "listening" => phase' = "listening",
         phase = "checked" => "http" \notin args,
         phase' = "exited" => client'[s].state # "serving"
  PROVE  StartupInv'
<1>1. /\ client'[s].state = "serving" =>
           /\ SdkAccepts(ClientConfig(config))
           /\ client'[s].of = ClientConfig(config) /\ client'[s].ledger = ledger'
           /\ client'[s].tools = Registered(config.allowWrites)
           /\ ledger' # "none"
      /\ \A x \in Session \ {s} : client'[x] = client[x]
      /\ client' = [x \in Session |-> client'[x]]
      /\ ledger' # "none" => ledger' = IF env.STORE_FILE = "" THEN "memory" ELSE "file"
      /\ ledger # "none" => ledger' = ledger
  BY CreatedOrRefused DEF InUse
<1>2. ASSUME NEW x \in Session, client'[x].state = "serving" PROVE Served(x)'
  <2>1. CASE x = s
    BY <1>1, <1>2, <2>1 DEF Served
  <2>2. CASE x # s
    <3>1. Served(x) /\ client'[x] = client[x]
      BY <1>1, <1>2, <2>2 DEF StartupInv, Serving
    <3> QED BY <1>1, <3>1 DEF Served
  <2> QED BY <2>1, <2>2
<1> QED BY <1>1, <1>2 DEF StartupInv, InUse, Serving

(* Every step of a start keeps the invariant ...                            *)
LEMMA StartupStepSafe ==
  ASSUME StartupInv, [StartupNext]_startupVars, StartupAssumption
  PROVE  StartupInv'
<1>1. CASE RunStdio
  <2> DEFINE s == CHOOSE x \in Session : TRUE
  <2>1. s \in Session
    BY DEF StartupAssumption
  <2>2. /\ CreateServer(s) /\ phase = "checked" /\ "http" \notin args /\ UNCHANGED <<env, args, config>>
        /\ IF client'[s] = Refused THEN Exit(1) ELSE phase' = "listening" /\ UNCHANGED exitCode
    BY <1>1 DEF RunStdio
  <2> HIDE DEF s
  <2>3. Refused.state # "serving"
    BY DEF Refused
  <2> QED BY <2>1, <2>2, <2>3, OpenSafe DEF Exit
<1>2. ASSUME NEW s \in Session, OpenSession(s) PROVE StartupInv'
  BY <1>2, OpenSafe DEF OpenSession
<1>3. CASE SpoilFile \/ Signal
  BY <1>3, PhaseMoves DEF SpoilFile, Signal, InUse
<1>4. CASE Closed \/ SignalAgain
  <2>1. /\ phase' = "exited" /\ UNCHANGED <<env, args, config>> /\ ledger' = "none"
        /\ client' = [s \in Session |-> NoClient] /\ NoClient.state = "none"
    BY <1>4 DEF Closed, SignalAgain, ProcessEnds, Exit, NoClient
  <2> QED BY <2>1 DEF StartupInv, InUse, Serving
<1>5. CASE UNCHANGED startupVars
  <2>1. UNCHANGED <<env, args, ledger, client, phase, config>>
    BY <1>5 DEF startupVars
  <2> QED BY <2>1, PhaseMoves DEF StartupInv, InUse
<1> QED BY <1>1, <1>2, <1>3, <1>4, <1>5, SetVariableSafe, LaunchSafe DEF StartupNext

(* ... and a process that was not started has it.                           *)
LEMMA StartupStarts == StartupInit => StartupInv
<1> SUFFICES ASSUME StartupInit PROVE StartupInv
  OBVIOUS
<1>1. env = Plain /\ phase = "idle" /\ ledger = "none" /\ client = [s \in Session |-> NoClient]
      /\ NoClient.state = "none"
  BY DEF StartupInit, NoClient
<1>2. DOMAIN Plain = Var /\ Plain["BEARER_TOKEN"] = ""
  BY SpelledTokens DEF Plain
<1>3. Plain["BEARER_TOKEN"] \in Spellings["BEARER_TOKEN"]
  BY <1>2, SpelledTokens
<1> QED BY <1>1, <1>2, <1>3 DEF StartupInv, InUse, Serving

(* As long as the declaration of the keys is true, no session is served     *)
(* with keys of another marketplace, for any number of sessions, any        *)
(* environment the variables can be spelt to, and a damaged ledger file.    *)
THEOREM KeysAreTheMarkets == StartupSpec => []KeysServeTheirAccount
<1>1. StartupInv => KeysServeTheirAccount
  <2> SUFFICES ASSUME StartupInv, NEW s \in Serving
               PROVE  \/ client[s].of.keys.issuedFor = client[s].of.marketplace
                      \/ env.LEGACY_KEYS # "" /\ Normalize(env.NEWEGG_CREDENTIALS_MARKETPLACE)
                                                    \in Marketplaces \ {env.LEGACY_KEYS}
    BY DEF KeysServeTheirAccount
  <2>1. Served(s) /\ config = LoadConfig(env) /\ config # NoConfig
    BY DEF StartupInv, Served, InUse
  <2>2. /\ config.credentials = ResolveCredentials(env, config.marketplace)
        /\ config.credentials # NoKeys
    BY <2>1, LoadedConfig
  <2>3. /\ client[s].of.keys = config.credentials /\ client[s].of.marketplace = config.marketplace
        /\ config.marketplace \in Marketplaces
    <3> DEFINE asked == ClientConfig(config)
    <3>1. asked.keys = config.credentials /\ asked.marketplace = config.marketplace
      BY DEF ClientConfig
    <3>2. client[s].of = asked /\ SdkAccepts(asked)
      BY <2>1 DEF Served
    <3> HIDE DEF asked
    <3> QED BY <3>1, <3>2 DEF SdkAccepts
  <2> DEFINE m == config.marketplace
             declared == Normalize(env.NEWEGG_CREDENTIALS_MARKETPLACE)
  <2>4. \/ config.credentials = Keys(m)
        \/ /\ config.credentials = Keys(env.LEGACY_KEYS) /\ env.LEGACY_KEYS \in Marketplaces
           /\ declared = m
    BY <2>2 DEF ResolveCredentials
  <2>5. Keys(m).issuedFor = m /\ Keys(env.LEGACY_KEYS).issuedFor = env.LEGACY_KEYS
    BY DEF Keys
  <2> HIDE DEF m, declared
  <2> QED BY <2>3, <2>4, <2>5 DEF Marketplaces, m, declared
<1> QED BY <1>1, StartupStarts, StartupStepSafe, StartupAssumption, PTL DEF StartupSpec

(* A session is what its environment says, from the label cap, the pin and  *)
(* the token to the tools and the ledger, for any number of sessions.       *)
THEOREM SessionsAreAsConfigured == StartupSpec => []ConfigurationIsHonoured
<1>1. StartupInv => ConfigurationIsHonoured
  <2> SUFFICES ASSUME StartupInv, NEW s \in Serving
               PROVE  /\ config.maxLabelAmount = NoCap => env.MAX_LABEL_AMOUNT \in {"OFF", "off", "unlimited"}
                      /\ env.FTPS_CERT_SHA256 # "" \/ env.FTPS_CA_FILE # ""
                           => client[s].of.ftp = [ftps |-> TRUE, pin |-> env.FTPS_CERT_SHA256, ca |-> env.FTPS_CA_FILE]
                      /\ "http" \in args /\ client[s].tools # Reads => env.BEARER_TOKEN = "strong"
                      /\ client[s].tools = Advertised(config.allowWrites)
                      /\ env.ALLOW_WRITES # "true" => client[s].tools \subseteq Reads
                      /\ client[s].ledger = ledger
                      /\ env.STORE_FILE # "" => client[s].ledger = "file"
    BY DEF ConfigurationIsHonoured
  <2>1. Served(s) /\ config = LoadConfig(env) /\ config # NoConfig
    BY DEF StartupInv, Served, InUse
  <2>2. /\ Valid(env) /\ FtpsOk(env)
        /\ config.allowWrites = Gate(env.ALLOW_WRITES)
        /\ config.reportFtps = Gate(env.REPORT_FTPS) /\ config.pin = env.FTPS_CERT_SHA256
        /\ config.ca = env.FTPS_CA_FILE
        /\ config.maxLabelAmount = Cap(env.MAX_LABEL_AMOUNT, 100) /\ config.bearerToken = env.BEARER_TOKEN
    BY <2>1, LoadedConfig
  <2>3. config.maxLabelAmount = NoCap => env.MAX_LABEL_AMOUNT \in {"OFF", "off", "unlimited"}
    <3> DEFINE raw == env.MAX_LABEL_AMOUNT
    <3>1. CapOk(raw) /\ config.maxLabelAmount = Cap(raw, 100)
      BY <2>2 DEF Valid
    <3>2. CASE raw \in DOMAIN Plainly /\ Folded(raw) \notin {"unlimited", "off"}
      <4>1. raw \in {"0", "20", "720", "721"} /\ Plainly[raw] \in {0, 20, 720, 721}
        BY <3>2 DEF Plainly
      <4>2. Cap(raw, 100) = Plainly[raw]
        <5> HIDE DEF raw
        <5>1. raw # ""
          BY <4>1
        <5>2. Folded(raw) \notin {"unlimited", "off"}
          BY <3>2
        <5> QED BY <5>1, <5>2 DEF Cap
      <4> HIDE DEF raw
      <4> QED BY <3>1, <4>1, <4>2 DEF NoCap
    <3>3. CASE Folded(raw) \in {"unlimited", "off"}
      BY <3>3 DEF Folded
    <3>4. CASE raw = ""
      <4>1. Cap(raw, 100) = 100
        BY <3>4 DEF Cap
      <4> HIDE DEF raw
      <4> QED BY <3>1, <4>1 DEF NoCap
    <3> QED BY <3>1, <3>2, <3>3, <3>4 DEF CapOk
  <2>4. env.FTPS_CERT_SHA256 # "" \/ env.FTPS_CA_FILE # ""
          => client[s].of.ftp = [ftps |-> TRUE, pin |-> env.FTPS_CERT_SHA256, ca |-> env.FTPS_CA_FILE]
    <3>1. client[s].of.ftp = [ftps |-> config.reportFtps, pin |-> config.pin, ca |-> config.ca]
      <4> DEFINE asked == ClientConfig(config)
      <4>1. asked.ftp = [ftps |-> config.reportFtps, pin |-> config.pin, ca |-> config.ca]
        BY DEF ClientConfig
      <4>2. client[s].of = asked
        BY <2>1 DEF Served
      <4> HIDE DEF asked
      <4> QED BY <4>1, <4>2
    <3>2. env.FTPS_CERT_SHA256 # "" \/ env.FTPS_CA_FILE # "" => config.reportFtps = TRUE
      BY <2>2 DEF FtpsOk, Gate
    <3> QED BY <2>2, <3>1, <3>2
  <2>5. config.allowWrites \in BOOLEAN /\ (env.ALLOW_WRITES # "true" => ~config.allowWrites)
    BY <2>2 DEF Gate
  <2>6. client[s].tools = Advertised(config.allowWrites) /\ (~config.allowWrites => client[s].tools = Reads)
    BY <2>1, <2>5, RegisteredAsAdvertised DEF Served
  <2>7. "http" \in args /\ client[s].tools # Reads => env.BEARER_TOKEN = "strong"
    <3>1. "http" \in args => HttpStarts(config)
      BY <2>1 DEF StartupInv, Served
    <3>2. env.BEARER_TOKEN \in {"", "strong", "weak"}
      BY SpelledTokens DEF StartupInv
    <3> QED BY <2>2, <2>6, <3>1, <3>2 DEF HttpStarts
  <2>8. env.STORE_FILE # "" => client[s].ledger = "file"
    BY <2>1 DEF StartupInv, Served, InUse
  <2> QED BY <2>1, <2>3, <2>4, <2>5, <2>6, <2>7, <2>8 DEF Served
<1> QED BY <1>1, StartupStarts, StartupStepSafe, StartupAssumption, PTL DEF StartupSpec

-----------------------------------------------------------------------------
(* What may be shown: the property of everything that was seen.             *)
Personal == {"customer", "note", "itemMemo", "issueUser", "noteToCustomer", "users", "tracking", "packageMemo"}
OpenReports == {"settlementSummary", "dailyInventory", "dailyPrice"}

MayShow(tool, type, field) ==
  /\ field \in Personal => tool \in OrderTools
  /\ field = "unknown" => type \in OpenReports

(* The report at Newegg has the columns of its type and a column nobody     *)
(* knows, and without PageInfo it fits on a page.                           *)
Job(j) ==
  /\ j.type \in ReportTypes /\ j.columns = ReportColumns(j.type) \cup {"unknown"}
  /\ j.rows \in Nat /\ j.pageInfo \in BOOLEAN /\ (j.pageInfo \/ j.rows <= PAGE_SIZE)

(* The invariant of the reads.                                              *)
DisclosureInv ==
  /\ job = NoJob \/ Job(job)
  /\ \A s \in shown : MayShow(s.tool, s.type, s.field)
  /\ PersonalDataIsHeldBack
  /\ lastAnswer.kind = "rows" => job # NoJob
  /\ TruncationIsTold

(* Orders and RMAs are mapped field by field, whatever their record holds.  *)
LEMMA FieldsHeldBack ==
  ASSUME NEW w
  PROVE  /\ \A f \in SerializeOrderRow(w) \cup SerializeRma(w) \cup SerializeItemRow(w) :
              f \notin Personal /\ f # "unknown"
         /\ \A f \in SerializeRefund(w) \cup SerializeRequestStatus(w) : f \notin Personal /\ f # "unknown"
         /\ \A f \in TransactionRow(w) \cup ParseOrderStatus(w) \cup ParseAdditionalInfo(w) :
              f \notin Personal /\ f # "unknown"
         /\ "unknown" \notin SerializeOrder(w)
BY DEF SerializeOrderRow, SerializeRma, SerializeItemRow, SerializeRefund, SerializeRequestStatus,
       TransactionRow, ParseOrderStatus, ParseAdditionalInfo, SerializeOrder, OrderFields, Personal

(* The columns of a file have nobody's name in them.                        *)
LEMMA FilesAreImpersonal ==
  ASSUME NEW type \in FileReports \cup {"settlementSummary"}
  PROVE  (ReportColumns(type) \cup {"unknown"}) \cap Personal = {}
BY DEF FileReports, ReportColumns, InventoryColumns, PriceColumns, ItemColumns, SummaryFields, Personal

(* Every type of report, with its columns and with the row that is made of  *)
(* them, or of the columns of another file. The price report, which passes  *)
(* on what it does not know, is for the US marketplace.                     *)
LEMMA RowsHoldBack ==
  ASSUME NEW j, Job(j), NEW type \in ReportTypes,
         j.type = type \/ (type \in FileReports /\ j.type \in FileReports),
         NEW f \in SerializeRow(type, ReportRow(type, j.columns))
  PROVE  f \notin Personal /\ (f = "unknown" => type \in OpenReports)
<1> DEFINE w == j.columns
           row == ReportRow(type, w)
<1>1. CASE type \in {"orderList", "itemBasicInfo", "rmaList"}
  <2>1. SerializeRow(type, row) \in {SerializeOrderRow(row), SerializeItemRow(row), SerializeRma(row)}
    BY <1>1 DEF SerializeRow
  <2> HIDE DEF row
  <2> QED BY <2>1, FieldsHeldBack DEF row
<1>2. CASE type = "settlementTransactions"
  <2>1. SerializeRow(type, row) = TransactionRow(w)
    BY <1>2 DEF SerializeRow, ReportRow, IdentityRow
  <2> QED BY <2>1, FieldsHeldBack
<1>3. CASE type \in OpenReports
  <2>1. SerializeRow(type, row) = row
    BY <1>3 DEF SerializeRow, IdentityRow, OpenReports
  <2>2. row \in {SummaryRow(w), InventoryRow(w), PriceRow(w)}
    BY <1>3 DEF ReportRow, OpenReports
  <2>3. SummaryRow(w) = w /\ InventoryRow(w) = w /\ PriceRow(w) = w
    BY DEF SummaryRow, InventoryRow, PriceRow, Extras
  <2>4. j.type \in FileReports \cup {"settlementSummary"}
    BY <1>3 DEF OpenReports, FileReports
  <2>5. w = ReportColumns(j.type) \cup {"unknown"}
    BY DEF Job
  <2>6. w \cap Personal = {}
    BY <2>4, <2>5, FilesAreImpersonal
  <2> HIDE DEF row, w
  <2> QED BY <1>3, <2>1, <2>2, <2>3, <2>6 DEF row, w
<1> QED BY <1>1, <1>2, <1>3 DEF ReportTypes, PagedReports, FileReports, OpenReports

(* The pages a caller needs hold as many rows as the caller allows.         *)
LEMMA PagesReach ==
  ASSUME NEW n \in Nat
  PROVE  /\ Ceiling(n, PAGE_SIZE) \in Int /\ Ceiling(n, PAGE_SIZE) * PAGE_SIZE >= n
         /\ Most(1, Ceiling(n, PAGE_SIZE)) \in Nat
         /\ Most(1, Ceiling(n, PAGE_SIZE)) * PAGE_SIZE >= n
<1> DEFINE c == Ceiling(n, PAGE_SIZE)
<1>1. PAGE_SIZE \in Nat /\ PAGE_SIZE >= 1
  BY DisclosureAssumption
<1>2. c \in Int /\ c * PAGE_SIZE >= n
  BY <1>1 DEF Ceiling
<1> HIDE DEF c
<1> QED BY <1>1, <1>2 DEF Most, c

(* A report read as what it is has all of its rows in the count, and as     *)
(* many kept as the caller allows, or more (reports/common.ts).             *)
LEMMA AllIsCounted ==
  ASSUME NEW j, Job(j), NEW limit \in Nat, limit >= 1
  PROVE  LET got == IF j.type \in FileReports THEN Downloaded(j, limit) ELSE Collected(j, j.type, limit)
         IN got.total = j.rows /\ Least(got.rows, limit) = Least(j.rows, limit)
<1> DEFINE wanted == PagesWanted(limit)
           there == Most(1, Ceiling(j.rows, PAGE_SIZE))
           pages == IF j.pageInfo THEN Least(there, wanted) ELSE 1
           rows == Least(j.rows, pages * PAGE_SIZE)
           total == IF j.pageInfo /\ j.rows > 0 THEN j.rows ELSE rows
<1>1. j.rows \in Nat /\ PAGE_SIZE \in Nat /\ PAGE_SIZE >= 1 /\ j.pageInfo \in BOOLEAN
      /\ (j.pageInfo \/ j.rows <= PAGE_SIZE)
  BY DisclosureAssumption DEF Job
<1>2. Downloaded(j, limit).total = j.rows /\ Least(Downloaded(j, limit).rows, limit) = Least(j.rows, limit)
  BY <1>1 DEF Downloaded, Least
<1>3. Collected(j, j.type, limit) = [rows |-> rows, total |-> Most(total, rows)]
  BY DEF Collected, RowsUnderKey
<1>4. /\ wanted \in Nat /\ wanted * PAGE_SIZE >= limit
      /\ there \in Nat /\ there * PAGE_SIZE >= j.rows
  BY <1>1, PagesReach DEF PagesWanted
<1>5. pages \in Nat /\ pages * PAGE_SIZE \in Nat
      /\ (pages * PAGE_SIZE >= limit \/ pages * PAGE_SIZE >= j.rows)
  <2>1. CASE j.pageInfo
    <3>1. pages \in {there, wanted}
      BY <2>1 DEF Least
    <3> HIDE DEF pages, there, wanted
    <3> QED BY <1>1, <1>4, <3>1
  <2>2. CASE ~j.pageInfo
    <3>1. pages = 1 /\ j.rows <= PAGE_SIZE
      BY <1>1, <2>2
    <3> HIDE DEF pages
    <3> QED BY <1>1, <3>1
  <2> QED BY <2>1, <2>2
<1> DEFINE room == pages * PAGE_SIZE
<1>6. room \in Nat /\ (room >= limit \/ room >= j.rows) /\ (~j.pageInfo => room = PAGE_SIZE) /\ room >= 0
  BY <1>1, <1>5
<1>7. rows = Least(j.rows, room)
  OBVIOUS
<1> HIDE DEF room, pages
<1>8. Most(total, rows) = j.rows /\ Least(rows, limit) = Least(j.rows, limit)
  <2>1. rows \in Nat /\ rows <= j.rows /\ Least(rows, limit) = Least(j.rows, limit)
    BY <1>1, <1>6, <1>7 DEF Least
  <2>2. total = j.rows
    <3>1. CASE j.pageInfo
      BY <1>1, <2>1, <3>1
    <3>2. CASE ~j.pageInfo
      BY <1>1, <1>6, <1>7, <3>2 DEF Least
    <3> QED BY <3>1, <3>2
  <2> HIDE DEF rows, total
  <2> QED BY <1>1, <2>1, <2>2 DEF Most
<1>9. Collected(j, j.type, limit).total = j.rows /\ Least(Collected(j, j.type, limit).rows, limit) = Least(j.rows, limit)
  <2> HIDE DEF rows, total
  <2> QED BY <1>3, <1>8
<1> QED BY <1>2, <1>9

(* A read that shows what may be shown, and leaves reports and documents.   *)
LEMMA Shows ==
  ASSUME DisclosureInv, NEW tool, NEW type, NEW fields, Sees(tool, type, fields),
         \A f \in fields : MayShow(tool, type, f)
  PROVE  \A s \in shown' : MayShow(s.tool, s.type, s.field)
BY DEF DisclosureInv, Sees

(* The steps that leave the report and its last answer.                     *)
LEMMA ReadSafe ==
  ASSUME DisclosureInv, UNCHANGED <<job, lastAnswer>>,
         \A s \in shown' : MayShow(s.tool, s.type, s.field),
         PersonalDataIsHeldBack'
  PROVE  DisclosureInv'
BY DEF DisclosureInv, TruncationIsTold

(* What the documents disclosed stands when none is shown.                  *)
LEMMA SameIdentity ==
  ASSUME DisclosureInv, UNCHANGED identity, \A s \in shown' : MayShow(s.tool, s.type, s.field)
  PROVE  PersonalDataIsHeldBack'
<1>1. identity.visible <= ID_NUMBER_VISIBLE_CHARS
      /\ (identity.length > 0 => identity.visible < identity.length)
      /\ (identity.images => identity.asked)
      /\ (identity.held => identity.images \/ identity.withheld)
  BY DEF DisclosureInv, PersonalDataIsHeldBack
<1> QED BY <1>1 DEF PersonalDataIsHeldBack, MayShow, Personal, OpenReports

(* Single records.                                                          *)
LEMMA RecordsSafe ==
  ASSUME DisclosureInv,
         \/ ReadFails \/ OrdersGetStatus \/ RmaList \/ RefundList \/ RefundStatus
         \/ \E page \in SUBSET OrderRecords : OrdersList(page) \/ OrdersGet(page)
         \/ \E numbers \in SUBSET {"asked", "other"} : RmaGet(numbers, "asked")
  PROVE  DisclosureInv'
<1>1. UNCHANGED <<job, lastAnswer, identity>>
  BY DEF ReadFails, OrdersGetStatus, RmaList, RefundList, RefundStatus, OrdersList, OrdersGet, RmaGet
<1>2. \A s \in shown' : MayShow(s.tool, s.type, s.field)
  <2>0. CASE UNCHANGED shown
    BY <2>0 DEF DisclosureInv
  <2>1. CASE ReadFails
    BY <2>0, <2>1 DEF ReadFails
  <2>2. CASE OrdersGetStatus
    BY <2>2, Shows, FieldsHeldBack DEF OrdersGetStatus, MayShow
  <2>3. CASE RmaList \/ \E numbers \in SUBSET {"asked", "other"} : RmaGet(numbers, "asked")
    BY <2>0, <2>3, Shows, FieldsHeldBack DEF RmaList, RmaGet, MayShow
  <2>4. CASE RefundList \/ RefundStatus
    BY <2>4, Shows, FieldsHeldBack DEF RefundList, RefundStatus, MayShow
  <2>5. ASSUME NEW page \in SUBSET OrderRecords, OrdersList(page) PROVE \A s \in shown' : MayShow(s.tool, s.type, s.field)
    <3> DEFINE fields == UNION {SerializeOrder(ParseOrder(o.wire)) : o \in page}
    <3>1. Sees("orders_list", "order", fields)
      BY <2>5 DEF OrdersList
    <3>2. \A f \in fields : f # "unknown"
      BY FieldsHeldBack
    <3>3. \A f \in fields : MayShow("orders_list", "order", f)
      BY <3>2 DEF MayShow, OrderTools
    <3> HIDE DEF fields
    <3> QED BY <3>1, <3>3, Shows
  <2>6. ASSUME NEW page \in SUBSET OrderRecords, OrdersGet(page) PROVE \A s \in shown' : MayShow(s.tool, s.type, s.field)
    <3>1. CASE UNCHANGED shown
      BY <2>0, <3>1
    <3>2. ASSUME NEW o \in page, Sees("orders_get", "order", SerializeOrder(ParseOrder(o.wire)))
          PROVE  \A s \in shown' : MayShow(s.tool, s.type, s.field)
      <4>1. \A f \in SerializeOrder(ParseOrder(o.wire)) : MayShow("orders_get", "order", f)
        BY FieldsHeldBack DEF MayShow, OrderTools
      <4> QED BY <3>2, <4>1, Shows
    <3> QED BY <2>6, <3>1, <3>2 DEF OrdersGet
  <2> QED BY <2>1, <2>2, <2>3, <2>4, <2>5, <2>6
<1> QED BY <1>1, <1>2, SameIdentity, ReadSafe

(* The document of an order, with its number masked (tools/orders.ts).      *)
LEMMA DocumentSafe ==
  ASSUME DisclosureInv, NEW length \in 0 .. MaxIdLength, NEW has \in BOOLEAN, NEW asked \in BOOLEAN,
         OrdersGetAdditionalInfo(length, has, asked)
  PROVE  DisclosureInv'
<1>1. UNCHANGED <<job, lastAnswer>>
  BY DEF OrdersGetAdditionalInfo
<1>2. \A s \in shown' : MayShow(s.tool, s.type, s.field)
  <2> DEFINE fields == ParseAdditionalInfo({"numbers", "idType", "recipients", "designations", "reserved", "unknown"})
  <2>1. Sees("orders_get_additional_info", "order", fields)
    BY DEF OrdersGetAdditionalInfo
  <2>2. \A f \in fields : MayShow("orders_get_additional_info", "order", f)
    BY FieldsHeldBack DEF MayShow
  <2> HIDE DEF fields
  <2> QED BY <2>1, <2>2, Shows
<1>3. /\ identity'.length = length /\ identity'.visible = MaskIdNumber(length)
      /\ identity'.images = (has /\ asked) /\ identity'.asked = asked /\ identity'.held = has
      /\ identity'.withheld = (has /\ ~asked)
  BY DEF OrdersGetAdditionalInfo
<1>4. /\ length \in Nat /\ ID_NUMBER_VISIBLE_CHARS \in Nat
      /\ MaskIdNumber(length) <= ID_NUMBER_VISIBLE_CHARS
      /\ length > 0 => MaskIdNumber(length) < length
  BY DisclosureAssumption DEF MaskIdNumber
<1>5. PersonalDataIsHeldBack'
  BY <1>2, <1>3, <1>4 DEF PersonalDataIsHeldBack, MayShow, Personal, OpenReports
<1> QED BY <1>1, <1>2, <1>5, ReadSafe

(* The rows of a report, read as its own type or as that of another file.   *)
LEMMA DeliversSafe ==
  ASSUME DisclosureInv, NEW j, Job(j), NEW type \in ReportTypes, NEW limit \in Limits, NEW tool,
         type \in FileReports => j.type \in FileReports,
         Delivers(tool, j, type, limit)
  PROVE  /\ \A s \in shown' : MayShow(s.tool, s.type, s.field)
         /\ type = j.type => /\ lastAnswer'.returned = Least(j.rows, lastAnswer'.limit)
                             /\ lastAnswer'.truncated <=> (lastAnswer'.returned < j.rows)
         /\ lastAnswer'.type = type
<1> DEFINE got == IF type \in FileReports THEN Downloaded(j, limit) ELSE Collected(j, type, limit)
           fields == IF got.rows = 0 \/ limit = 0 THEN {} ELSE SerializeRow(type, ReportRow(type, j.columns))
<1>1. lastAnswer' = Output(got, type, limit) /\ Sees(tool, type, fields)
  BY DEF Delivers
<1>2. limit \in Nat /\ limit >= 1 /\ PAGE_SIZE \in Nat /\ PAGE_SIZE >= 1 /\ j.rows \in Nat
  BY DisclosureAssumption DEF Job
<1>3. ASSUME NEW f \in fields PROVE MayShow(tool, type, f)
  <2>1. f \in SerializeRow(type, ReportRow(type, j.columns)) /\ got.rows # 0
    BY <1>3
  <2>2. j.type = type \/ type \in FileReports
    <3> SUFFICES ASSUME type \notin FileReports, j.type # type PROVE FALSE
      OBVIOUS
    <3> DEFINE pages == IF j.pageInfo THEN Least(Most(1, Ceiling(j.rows, PAGE_SIZE)), PagesWanted(limit)) ELSE 1
    <3>1. got.rows = Least(0, pages * PAGE_SIZE)
      BY DEF Collected, RowsUnderKey
    <3>2. pages \in Nat
      BY <1>2, PagesReach DEF Least, PagesWanted
    <3> HIDE DEF pages, got
    <3>3. pages * PAGE_SIZE \in Nat
      BY <1>2, <3>2
    <3> QED BY <2>1, <3>1, <3>3 DEF Least
  <2>3. f \notin Personal /\ (f = "unknown" => type \in OpenReports)
    BY <2>1, <2>2, RowsHoldBack
  <2> QED BY <2>3 DEF MayShow
<1>4. \A s \in shown' : MayShow(s.tool, s.type, s.field)
  <2> HIDE DEF fields
  <2> QED BY <1>1, <1>3, Shows
<1>5. type = j.type => got.total = j.rows /\ Least(got.rows, limit) = Least(j.rows, limit)
  BY <1>2, AllIsCounted
<1> HIDE DEF got
<1> QED BY <1>1, <1>4, <1>5 DEF Output

(* A report of the caller's own, and one that is asked for again.           *)
LEMMA ReportsSafe ==
  ASSUME DisclosureInv, NEW type \in ReportTypes, NEW limit \in Limits,
         \/ \E rows \in 0 .. MaxReportRows, pageInfo \in BOOLEAN : AskReport(type, rows, pageInfo, limit)
         \/ ReportsStatus(type, limit)
  PROVE  DisclosureInv'
<1>1. ASSUME NEW rows \in 0 .. MaxReportRows, NEW pageInfo \in BOOLEAN, AskReport(type, rows, pageInfo, limit)
      PROVE  DisclosureInv'
  <2> DEFINE j == [state |-> "finished", type |-> type, rows |-> rows, pageInfo |-> pageInfo,
                   columns |-> ReportColumns(type) \cup {"unknown"}]
  <2>1. UNCHANGED identity /\ (pageInfo \/ rows <= PAGE_SIZE)
    BY <1>1 DEF AskReport
  <2>2. Job(j) /\ j.type = type /\ j.state = "finished"
    BY <2>1, DisclosureAssumption DEF Job
  <2>3. \A s \in {"inProgress", "cancelled"} :
          LET k == [j EXCEPT !.state = s] IN Job(k) /\ k.state = s /\ k # NoJob
    BY <2>2 DEF Job, NoJob
  <2>4. \/ job' = j /\ Delivers("report", j, type, limit)
        \/ /\ \E s \in {"inProgress", "cancelled"} : job' = [j EXCEPT !.state = s]
           /\ lastAnswer' = [kind |-> "pending", type |-> type] \/ lastAnswer' = [kind |-> "error"]
           /\ UNCHANGED shown
    BY <1>1 DEF AskReport
  <2>5. j # NoJob
    BY <2>2 DEF NoJob
  <2> HIDE DEF j
  <2>6. CASE job' = j /\ Delivers("report", j, type, limit)
    <3>1. /\ \A s \in shown' : MayShow(s.tool, s.type, s.field)
          /\ lastAnswer'.returned = Least(j.rows, lastAnswer'.limit)
          /\ lastAnswer'.truncated <=> (lastAnswer'.returned < j.rows)
      BY <2>2, <2>6, DeliversSafe
    <3>2. PersonalDataIsHeldBack'
      BY <2>1, <3>1, SameIdentity
    <3> QED BY <2>2, <2>5, <2>6, <3>1, <3>2 DEF DisclosureInv, TruncationIsTold
  <2>7. CASE /\ \E s \in {"inProgress", "cancelled"} : job' = [j EXCEPT !.state = s]
             /\ lastAnswer' = [kind |-> "pending", type |-> type] \/ lastAnswer' = [kind |-> "error"]
             /\ UNCHANGED shown
    <3>1. Job(job') /\ job' # NoJob /\ lastAnswer'.kind # "rows"
      BY <2>3, <2>7
    <3>2. \A s \in shown' : MayShow(s.tool, s.type, s.field)
      BY <2>7 DEF DisclosureInv
    <3>3. PersonalDataIsHeldBack'
      BY <2>1, <3>2, SameIdentity
    <3> QED BY <3>1, <3>2, <3>3 DEF DisclosureInv, TruncationIsTold
  <2> QED BY <2>4, <2>6, <2>7
<1>2. CASE ReportsStatus(type, limit)
  <2>1. UNCHANGED <<job, identity>> /\ job # NoJob /\ Job(job)
    BY <1>2 DEF ReportsStatus, DisclosureInv
  <2>2. \/ /\ lastAnswer' = [kind |-> "status", state |-> job.state] \/ lastAnswer' = [kind |-> "error"]
           /\ UNCHANGED shown
        \/ CanBeReadAs(job, type) /\ Delivers("reports_status", job, type, limit)
    BY <1>2 DEF ReportsStatus
  <2>3. CASE /\ lastAnswer' = [kind |-> "status", state |-> job.state] \/ lastAnswer' = [kind |-> "error"]
             /\ UNCHANGED shown
    <3>1. lastAnswer'.kind # "rows"
      BY <2>3
    <3>2. \A s \in shown' : MayShow(s.tool, s.type, s.field)
      BY <2>3 DEF DisclosureInv
    <3>3. PersonalDataIsHeldBack'
      BY <2>1, <3>2, SameIdentity
    <3> QED BY <2>1, <3>1, <3>2, <3>3 DEF DisclosureInv, TruncationIsTold
  <2>4. CASE CanBeReadAs(job, type) /\ Delivers("reports_status", job, type, limit)
    <3>1. type \in FileReports => job.type \in FileReports
      BY <2>4 DEF CanBeReadAs
    <3>2. /\ \A s \in shown' : MayShow(s.tool, s.type, s.field)
          /\ type = job.type => /\ lastAnswer'.returned = Least(job.rows, lastAnswer'.limit)
                                /\ lastAnswer'.truncated <=> (lastAnswer'.returned < job.rows)
          /\ lastAnswer'.type = type
      BY <2>1, <2>4, <3>1, DeliversSafe
    <3>3. PersonalDataIsHeldBack'
      BY <2>1, <3>2, SameIdentity
    <3> QED BY <2>1, <3>2, <3>3 DEF DisclosureInv, TruncationIsTold
  <2> QED BY <2>2, <2>3, <2>4
<1> QED BY <1>1, <1>2

(* Every read keeps the invariant, and a job that ends while nobody reads.  *)
LEMMA DisclosureStepSafe ==
  ASSUME DisclosureInv, [DisclosureNext]_disclosureVars
  PROVE  DisclosureInv'
<1>1. CASE JobEnds
  <2>1. UNCHANGED <<shown, identity, lastAnswer>> /\ job # NoJob
        /\ \E s \in {"finished", "cancelled"} : job' = [job EXCEPT !.state = s]
    BY <1>1 DEF JobEnds, NoJob
  <2>2. Job(job)
    BY <2>1 DEF DisclosureInv
  <2>3. /\ job'.type = job.type /\ job'.rows = job.rows /\ Job(job') /\ job' # NoJob
    BY <2>1, <2>2 DEF Job, NoJob
  <2>4. \A s \in shown' : MayShow(s.tool, s.type, s.field)
    BY <2>1 DEF DisclosureInv
  <2>5. PersonalDataIsHeldBack'
    BY <2>1, <2>4, SameIdentity
  <2> QED BY <2>1, <2>3, <2>4, <2>5 DEF DisclosureInv, TruncationIsTold
<1>2. CASE UNCHANGED disclosureVars
  <2>1. UNCHANGED <<job, lastAnswer, shown, identity>>
    BY <1>2 DEF disclosureVars
  <2>2. \A s \in shown' : MayShow(s.tool, s.type, s.field)
    BY <2>1 DEF DisclosureInv
  <2> QED BY <2>1, <2>2, SameIdentity, ReadSafe
<1> QED BY <1>1, <1>2, RecordsSafe, DocumentSafe, ReportsSafe DEF DisclosureNext

(* Nothing was shown and nothing asked for.                                 *)
LEMMA DisclosureStarts == DisclosureInit => DisclosureInv
<1> SUFFICES ASSUME DisclosureInit PROVE DisclosureInv
  OBVIOUS
<1>1. job = NoJob /\ shown = {} /\ lastAnswer.kind = "none"
      /\ identity.length = 0 /\ identity.visible = 0 /\ identity.images = FALSE /\ identity.held = FALSE
  BY DEF DisclosureInit, NoAnswer, NoIdentity
<1> QED BY <1>1, DisclosureAssumption DEF DisclosureInv, PersonalDataIsHeldBack, TruncationIsTold

(* Personal data is held back by every tool but those for orders, and what  *)
(* nobody has looked at by every report but the money and stock reports,    *)
(* through any sequence of reads, for any limits, sizes of reports and      *)
(* lengths of ID numbers (docs/mcp-security.md, tools/rma.ts).              *)
THEOREM PersonalDataStays == DisclosureSpec => []PersonalDataIsHeldBack
<1>1. DisclosureInv => PersonalDataIsHeldBack
  BY DEF DisclosureInv
<1> QED BY <1>1, DisclosureStarts, DisclosureStepSafe, PTL DEF DisclosureSpec

(* A report's answer has the rows the caller allows and says whether there  *)
(* are more, for any page size, limit and size of report (reports/common.ts)*)
THEOREM TruncationIsAlwaysTold == DisclosureSpec => []TruncationIsTold
<1>1. DisclosureInv => TruncationIsTold
  BY DEF DisclosureInv
<1> QED BY <1>1, DisclosureStarts, DisclosureStepSafe, PTL DEF DisclosureSpec
-----------------------------------------------------------------------------
(* Volume discounts.                                                       *)

(* Rounding to a cent a second time changes nothing.                       *)
LEMMA RoundedTwice ==
  ASSUME NEW p \in Int
  PROVE  RoundToCent(p) \in Int /\ RoundToCent(RoundToCent(p)) = RoundToCent(p)
<1>1. PICK q \in Int : q = (p + 5) \div 10
  OBVIOUS
<1>2. (10 * q + 5) \div 10 = q
  BY <1>1
<1> QED BY <1>1, <1>2 DEF RoundToCent

DiscountTier(t) == t.quantity \in Int /\ t.price \in Int

(* The types of a list of discounts, before and after it was normalised.   *)
DiscountList(ds) ==
  /\ DOMAIN ds = 1 .. Len(ds) /\ Len(ds) \in Nat
  /\ \A i \in DOMAIN ds :
       /\ DOMAIN ds[i].tiers = 1 .. Len(ds[i].tiers) /\ Len(ds[i].tiers) \in Nat
       /\ \A t \in DOMAIN ds[i].tiers : DiscountTier(ds[i].tiers[t])

(* A tier that was normalised.                                             *)
NewTier(tiers, t) ==
  [priority |-> t, quantity |-> tiers[t].quantity, price |-> RoundToCent(tiers[t].price),
   freeShipping |-> tiers[t].freeShipping]

NewTiers(tiers) == [t \in DOMAIN tiers |-> NewTier(tiers, t)]

(* What a normalised list is, entry by entry.                              *)
LEMMA NormalizedIs ==
  ASSUME NEW ds, DiscountList(ds)
  PROVE  /\ DOMAIN NormalizedDiscounts(ds) = DOMAIN ds /\ Len(NormalizedDiscounts(ds)) = Len(ds)
         /\ \A i \in DOMAIN ds :
              NormalizedDiscounts(ds)[i] =
                [number |-> ds[i].number, sku |-> ds[i].sku, inputIndex |-> i - 1, tiers |-> NewTiers(ds[i].tiers)]
<1>1. NormalizedDiscounts(ds) =
        [i \in DOMAIN ds |->
           [number |-> ds[i].number, sku |-> ds[i].sku, inputIndex |-> i - 1, tiers |-> NewTiers(ds[i].tiers)]]
  BY DEF NormalizedDiscounts, NewTiers, NewTier
<1>2. DOMAIN ds = 1 .. Len(ds) /\ Len(ds) \in Nat
  BY DEF DiscountList
<1> QED BY <1>1, <1>2

(* Normalising tiers keeps their number and quantities and rounds their    *)
(* prices, once and for all.                                               *)
LEMMA TiersAreSettled ==
  ASSUME NEW tiers, DOMAIN tiers = 1 .. Len(tiers), Len(tiers) \in Nat,
         \A t \in DOMAIN tiers : DiscountTier(tiers[t])
  PROVE  /\ DOMAIN NewTiers(tiers) = DOMAIN tiers /\ Len(NewTiers(tiers)) = Len(tiers)
         /\ \A t \in DOMAIN tiers :
              /\ DiscountTier(NewTiers(tiers)[t]) /\ NewTiers(tiers)[t].quantity = tiers[t].quantity
              /\ NewTiers(tiers)[t].price = RoundToCent(tiers[t].price)
              /\ RoundToCent(NewTiers(tiers)[t].price) = RoundToCent(tiers[t].price)
         /\ NewTiers(NewTiers(tiers)) = NewTiers(tiers)
<1>1. DOMAIN NewTiers(tiers) = DOMAIN tiers /\ Len(NewTiers(tiers)) = Len(tiers)
  BY DEF NewTiers
<1>2. ASSUME NEW t \in DOMAIN tiers
      PROVE  /\ DiscountTier(NewTiers(tiers)[t]) /\ NewTiers(tiers)[t].quantity = tiers[t].quantity
             /\ NewTiers(tiers)[t].price = RoundToCent(tiers[t].price)
             /\ RoundToCent(NewTiers(tiers)[t].price) = RoundToCent(tiers[t].price)
             /\ NewTier(NewTiers(tiers), t) = NewTier(tiers, t)
  <2>1. NewTiers(tiers)[t] = NewTier(tiers, t)
    BY DEF NewTiers
  <2>2. tiers[t].price \in Int /\ tiers[t].quantity \in Int
    BY <1>2 DEF DiscountTier
  <2>3. RoundToCent(tiers[t].price) \in Int
        /\ RoundToCent(RoundToCent(tiers[t].price)) = RoundToCent(tiers[t].price)
    BY <2>2, RoundedTwice
  <2>4. /\ NewTier(tiers, t).quantity = tiers[t].quantity /\ NewTier(tiers, t).price = RoundToCent(tiers[t].price)
        /\ NewTier(tiers, t).freeShipping = tiers[t].freeShipping
    BY DEF NewTier
  <2>5. NewTier(NewTiers(tiers), t) = NewTier(tiers, t)
    BY <2>1, <2>3, <2>4 DEF NewTier
  <2> QED BY <2>1, <2>2, <2>3, <2>4, <2>5 DEF DiscountTier
<1>3. NewTiers(NewTiers(tiers)) = [t \in DOMAIN tiers |-> NewTier(NewTiers(tiers), t)]
  BY <1>1 DEF NewTiers
<1>4. NewTiers(tiers) = [t \in DOMAIN tiers |-> NewTier(tiers, t)]
  BY DEF NewTiers
<1> QED BY <1>1, <1>2, <1>3, <1>4

(* Normalising a list twice is normalising it once.                        *)
LEMMA NormalizedTwice ==
  ASSUME NEW ds, DiscountList(ds)
  PROVE  DiscountList(NormalizedDiscounts(ds))
         /\ NormalizedDiscounts(NormalizedDiscounts(ds)) = NormalizedDiscounts(ds)
<1> DEFINE ns == NormalizedDiscounts(ds)
<1>1. /\ DOMAIN ns = DOMAIN ds /\ Len(ns) = Len(ds)
      /\ \A i \in DOMAIN ds :
           ns[i] = [number |-> ds[i].number, sku |-> ds[i].sku, inputIndex |-> i - 1, tiers |-> NewTiers(ds[i].tiers)]
  BY NormalizedIs
<1>2. DOMAIN ds = 1 .. Len(ds) /\ Len(ds) \in Nat
  BY DEF DiscountList
<1> HIDE DEF ns
<1>3. ASSUME NEW i \in DOMAIN ds
      PROVE  /\ ns[i].number = ds[i].number /\ ns[i].sku = ds[i].sku /\ ns[i].inputIndex = i - 1
             /\ ns[i].tiers = NewTiers(ds[i].tiers)
             /\ DOMAIN ns[i].tiers = 1 .. Len(ns[i].tiers) /\ Len(ns[i].tiers) \in Nat
             /\ \A t \in DOMAIN ns[i].tiers : DiscountTier(ns[i].tiers[t])
             /\ NewTiers(ns[i].tiers) = ns[i].tiers
  <2>1. ns[i].tiers = NewTiers(ds[i].tiers) /\ ns[i].number = ds[i].number /\ ns[i].sku = ds[i].sku
        /\ ns[i].inputIndex = i - 1
    BY <1>1, <1>3
  <2>2. DOMAIN ds[i].tiers = 1 .. Len(ds[i].tiers) /\ Len(ds[i].tiers) \in Nat
        /\ \A t \in DOMAIN ds[i].tiers : DiscountTier(ds[i].tiers[t])
    BY <1>3 DEF DiscountList
  <2> QED BY <2>1, <2>2, TiersAreSettled
<1>4. DiscountList(ns)
  BY <1>1, <1>2, <1>3 DEF DiscountList
<1>5. NormalizedDiscounts(ns) =
        [i \in DOMAIN ds |->
           [number |-> ns[i].number, sku |-> ns[i].sku, inputIndex |-> i - 1, tiers |-> NewTiers(ns[i].tiers)]]
  BY <1>1 DEF NormalizedDiscounts, NewTiers, NewTier
<1>6. ns = [i \in DOMAIN ds |->
           [number |-> ds[i].number, sku |-> ds[i].sku, inputIndex |-> i - 1, tiers |-> NewTiers(ds[i].tiers)]]
  BY DEF ns, NormalizedDiscounts, NewTiers, NewTier
<1>7. NormalizedDiscounts(ns) = ns
  BY <1>3, <1>5, <1>6
<1> QED BY <1>4, <1>7 DEF ns

(* What a preview accepts it accepts again once normalised.                *)
LEMMA NormalizedIsValid ==
  ASSUME NEW ds, DiscountList(ds), ValidDiscounts(ds)
  PROVE  ValidDiscounts(NormalizedDiscounts(ds))
<1> DEFINE ns == NormalizedDiscounts(ds)
<1>1. /\ DOMAIN ns = DOMAIN ds /\ Len(ns) = Len(ds)
      /\ \A i \in DOMAIN ds :
           ns[i] = [number |-> ds[i].number, sku |-> ds[i].sku, inputIndex |-> i - 1, tiers |-> NewTiers(ds[i].tiers)]
  BY NormalizedIs
<1>2. DOMAIN ds = 1 .. Len(ds) /\ Len(ds) \in Nat
  BY DEF DiscountList
<1> HIDE DEF ns
<1>3. ASSUME NEW i \in DOMAIN ds
      PROVE  /\ ns[i].number = ds[i].number /\ ns[i].sku = ds[i].sku /\ ns[i].tiers = NewTiers(ds[i].tiers)
             /\ DOMAIN ns[i].tiers = DOMAIN ds[i].tiers /\ Len(ns[i].tiers) = Len(ds[i].tiers)
             /\ \A t \in DOMAIN ds[i].tiers :
                  /\ ns[i].tiers[t].quantity = ds[i].tiers[t].quantity
                  /\ RoundToCent(ns[i].tiers[t].price) = RoundToCent(ds[i].tiers[t].price)
  <2>1. ns[i].tiers = NewTiers(ds[i].tiers) /\ ns[i].number = ds[i].number /\ ns[i].sku = ds[i].sku
    BY <1>1, <1>3
  <2>2. DOMAIN ds[i].tiers = 1 .. Len(ds[i].tiers) /\ Len(ds[i].tiers) \in Nat
        /\ \A t \in DOMAIN ds[i].tiers : DiscountTier(ds[i].tiers[t])
    BY <1>3 DEF DiscountList
  <2> QED BY <2>1, <2>2, TiersAreSettled
<1>4. ASSUME NEW i \in DOMAIN ds PROVE DiscountKeys(ns[i]) = DiscountKeys(ds[i])
  <2>1. ns[i]["number"] = ds[i]["number"] /\ ns[i]["sku"] = ds[i]["sku"]
    BY <1>3, <1>4
  <2> QED BY <2>1 DEF DiscountKeys
<1>5. ns # <<>>
  BY <1>1, <1>2 DEF ValidDiscounts
<1>6. ASSUME NEW i \in DOMAIN ds
      PROVE  /\ DiscountKeys(ns[i]) # {} /\ Len(ns[i].tiers) \in 1 .. 3
             /\ \A j \in DOMAIN ns \ {i} : DiscountKeys(ns[i]) \cap DiscountKeys(ns[j]) = {}
  BY <1>1, <1>3, <1>4, <1>6 DEF ValidDiscounts
<1>7. ASSUME NEW i \in DOMAIN ds, NEW t \in DOMAIN ns[i].tiers
      PROVE  /\ ns[i].tiers[t].quantity >= 2 /\ RoundToCent(ns[i].tiers[t].price) > 0
             /\ t > 1 => /\ ns[i].tiers[t - 1].quantity < ns[i].tiers[t].quantity
                         /\ Descending(ns[i].tiers[t - 1], ns[i].tiers[t])
  <2>1. t \in DOMAIN ds[i].tiers /\ DOMAIN ds[i].tiers = 1 .. Len(ds[i].tiers) /\ Len(ds[i].tiers) \in Nat
    BY <1>3, <1>7 DEF DiscountList
  <2>2. /\ ds[i].tiers[t].quantity >= 2 /\ RoundToCent(ds[i].tiers[t].price) > 0
        /\ t > 1 => /\ ds[i].tiers[t - 1].quantity < ds[i].tiers[t].quantity
                    /\ Descending(ds[i].tiers[t - 1], ds[i].tiers[t])
    BY <2>1, <1>7 DEF ValidDiscounts
  <2>3. t > 1 => t - 1 \in DOMAIN ds[i].tiers
    BY <2>1
  <2> QED BY <1>3, <1>7, <2>1, <2>2, <2>3 DEF Descending
<1> QED BY <1>1, <1>5, <1>6, <1>7 DEF ValidDiscounts, ns

FeedCount(items) == (Len(items) + VOLUME_DISCOUNT_FEED_MAX_RECORDS - 1) \div VOLUME_DISCOUNT_FEED_MAX_RECORDS

ChunkSize(items, c) ==
  LET n == VOLUME_DISCOUNT_FEED_MAX_RECORDS IN IF c * n <= Len(items) THEN n ELSE Len(items) - (c - 1) * n

(* The envelopes of a list: how many, and how many lines each.             *)
LEMMA EnvelopesAre ==
  ASSUME NEW items, Len(items) \in Nat, PriceAssumption
  PROVE  /\ FeedCount(items) \in Nat /\ DOMAIN Envelopes(items) = 1 .. FeedCount(items)
         /\ Len(Envelopes(items)) = FeedCount(items)
         /\ Len(items) > 0 => FeedCount(items) > 0
         /\ FeedCount(items) * VOLUME_DISCOUNT_FEED_MAX_RECORDS >= Len(items)
         /\ \A c \in 1 .. FeedCount(items) : DOMAIN Envelopes(items)[c] = 1 .. ChunkSize(items, c)
<1>1. VOLUME_DISCOUNT_FEED_MAX_RECORDS \in Nat \ {0}
  BY DEF PriceAssumption
<1>2. /\ FeedCount(items) \in Nat /\ Len(items) > 0 => FeedCount(items) > 0
      /\ FeedCount(items) * VOLUME_DISCOUNT_FEED_MAX_RECORDS >= Len(items)
  BY <1>1, PieceCount DEF FeedCount
<1>3. DOMAIN Envelopes(items) = 1 .. FeedCount(items)
      /\ \A c \in 1 .. FeedCount(items) : DOMAIN Envelopes(items)[c] = 1 .. ChunkSize(items, c)
  BY DEF Envelopes, FeedCount, ChunkSize
<1>4. Len(Envelopes(items)) = FeedCount(items)
  BY <1>2, <1>3 DEF Envelopes, FeedCount
<1> QED BY <1>2, <1>3, <1>4

(* The indexes that are assigned when the first c chunks are out.          *)
ReachedBy(items, c) == {i \in 0 .. (Len(items) - 1) : i < c * VOLUME_DISCOUNT_FEED_MAX_RECORDS}

(* What is known of a discount call. Its list is normalised already, so    *)
(* that normalising it again yields the same envelopes; the first of them  *)
(* are submitted, and their items assigned.                                *)
DiscountFacts ==
  /\ DOMAIN discount = {"phase", "items", "envelopes", "submitted", "assigned"}
  /\ discount.phase \in {"previewed", "submitting", "applied", "stopped"}
  /\ DiscountList(discount.items) /\ ValidDiscounts(discount.items)
  /\ NormalizedDiscounts(discount.items) = discount.items
  /\ discount.envelopes = Envelopes(discount.items)
  /\ discount.submitted \in Seq({discount.envelopes[c] : c \in DOMAIN discount.envelopes})
  /\ \A c \in DOMAIN discount.submitted : discount.submitted[c] = discount.envelopes[c]
  /\ {a[1] : a \in discount.assigned} = ReachedBy(discount.items, Len(discount.submitted))
  /\ Len(discount.submitted) <= FeedCount(discount.items)
  /\ discount.phase \in {"previewed", "submitting"} => Len(discount.submitted) < FeedCount(discount.items)
  /\ discount.phase = "applied" => Len(discount.submitted) = FeedCount(discount.items)

DiscountInv == discount.phase \notin {"idle", "refused"} => DiscountFacts

(* A preview stores the list normalised.                                   *)
LEMMA PreviewDiscountKeeps ==
  ASSUME PriceAssumption, NEW ds \in DiscountLists, PreviewDiscount(ds)
  PROVE  DiscountInv'
<1> SUFFICES ASSUME discount'.phase \notin {"idle", "refused"} PROVE DiscountFacts'
  BY DEF DiscountInv
<1>1. DiscountList(ds)
  BY DEF PriceAssumption, DiscountList, DiscountTier
<1>2. CASE ~(DiscountWriteSupported /\ ValidDiscounts(ds))
  BY <1>2 DEF PreviewDiscount
<1>3. CASE DiscountWriteSupported /\ ValidDiscounts(ds)
  <2>1. discount' = [phase |-> "previewed", items |-> NormalizedDiscounts(ds),
                     envelopes |-> Envelopes(NormalizedDiscounts(ds)), submitted |-> <<>>, assigned |-> {}]
    BY <1>3 DEF PreviewDiscount
  <2>2. PICK ns : ns = NormalizedDiscounts(ds)
    OBVIOUS
  <2>3. /\ DiscountList(ns) /\ ValidDiscounts(ns) /\ NormalizedDiscounts(ns) = ns /\ Len(ns) = Len(ds)
    BY <1>1, <1>3, <2>2, NormalizedTwice, NormalizedIsValid, NormalizedIs
  <2>4. Len(ns) \in Nat /\ Len(ns) > 0
    <3>1. DOMAIN ns = 1 .. Len(ns) /\ Len(ns) \in Nat /\ ns # <<>>
      BY <2>3 DEF DiscountList, ValidDiscounts
    <3>2. ns = [i \in DOMAIN ns |-> ns[i]]
      BY <2>2 DEF NormalizedDiscounts
    <3> QED BY <3>1, <3>2
  <2>5. FeedCount(ns) \in Nat /\ FeedCount(ns) > 0
    BY <2>4, EnvelopesAre
  <2>6. /\ DOMAIN discount' = {"phase", "items", "envelopes", "submitted", "assigned"}
        /\ discount'.phase = "previewed" /\ discount'.items = ns /\ discount'.envelopes = Envelopes(ns)
        /\ discount'.submitted = <<>> /\ discount'.assigned = {}
    BY <2>1, <2>2
  <2>7. ReachedBy(ns, 0) = {}
    <3>1. VOLUME_DISCOUNT_FEED_MAX_RECORDS \in Nat
      BY DEF PriceAssumption
    <3> QED BY <3>1 DEF ReachedBy
  <2>8. /\ Len(discount'.submitted) = 0 /\ DOMAIN discount'.submitted = {} /\ {a[1] : a \in discount'.assigned} = {}
        /\ discount'.submitted \in Seq({discount'.envelopes[c] : c \in DOMAIN discount'.envelopes})
    BY <2>6
  <2>9. DiscountList(discount'.items) /\ ValidDiscounts(discount'.items)
        /\ NormalizedDiscounts(discount'.items) = discount'.items
        /\ discount'.envelopes = Envelopes(discount'.items)
    BY <2>3, <2>6
  <2>10. ReachedBy(discount'.items, Len(discount'.submitted)) = {}
    BY <2>6, <2>7, <2>8
  <2>11. Len(discount'.submitted) < FeedCount(discount'.items)
    BY <2>5, <2>6, <2>8
  <2> QED BY <2>5, <2>6, <2>8, <2>9, <2>10, <2>11 DEF DiscountFacts
<1> QED BY <1>2, <1>3

(* The apply finds the list as valid as it was.                            *)
LEMMA ApplyDiscountKeeps ==
  ASSUME DiscountInv, ApplyDiscount
  PROVE  DiscountInv'
<1>1. DiscountFacts /\ discount.phase = "previewed"
  BY DEF DiscountInv, ApplyDiscount
<1>2. discount' = [discount EXCEPT !.phase = "submitting"]
  BY <1>1 DEF DiscountFacts, ApplyDiscount
<1>3. /\ DOMAIN discount' = DOMAIN discount /\ discount'.phase = "submitting" /\ discount'.items = discount.items
      /\ discount'.envelopes = discount.envelopes /\ discount'.submitted = discount.submitted
      /\ discount'.assigned = discount.assigned
  BY <1>1, <1>2 DEF DiscountFacts
<1> QED BY <1>1, <1>3 DEF DiscountFacts, DiscountInv

(* The next chunk continues what was submitted.                            *)
LEMMA SubmitDiscountChunkKeeps ==
  ASSUME PriceAssumption, DiscountInv, SubmitDiscountChunk
  PROVE  DiscountInv'
<1>1. DiscountFacts /\ discount.phase = "submitting"
  BY DEF DiscountInv, SubmitDiscountChunk
<1>2. PICK I, E, done, n : I = discount.items /\ E = discount.envelopes /\ done = discount.submitted
                           /\ n = VOLUME_DISCOUNT_FEED_MAX_RECORDS
  OBVIOUS
<1>3. /\ NormalizedDiscounts(I) = I /\ E = Envelopes(I) /\ n \in Nat \ {0}
      /\ done \in Seq({E[c] : c \in DOMAIN E}) /\ \A c \in DOMAIN done : done[c] = E[c]
      /\ Len(done) < FeedCount(I) /\ DiscountList(I)
  BY <1>1, <1>2 DEF DiscountFacts, PriceAssumption
<1>4. DOMAIN I = 1 .. Len(I) /\ Len(I) \in Nat
  BY <1>3 DEF DiscountList
<1>5. /\ FeedCount(I) \in Nat /\ DOMAIN E = 1 .. FeedCount(I) /\ Len(E) = FeedCount(I)
      /\ FeedCount(I) * n >= Len(I)
      /\ \A c \in 1 .. FeedCount(I) : DOMAIN E[c] = 1 .. ChunkSize(I, c)
  BY <1>2, <1>3, <1>4, EnvelopesAre
<1>6. PICK c : c = Len(done) + 1
  OBVIOUS
<1>7. c \in 1 .. FeedCount(I) /\ Len(done) \in Nat /\ c - 1 = Len(done)
  BY <1>3, <1>5, <1>6
<1>8. CASE discount' = [discount EXCEPT !.phase = "stopped"]
  <2>1. /\ DOMAIN discount' = DOMAIN discount /\ discount'.phase = "stopped" /\ discount'.items = discount.items
        /\ discount'.envelopes = discount.envelopes /\ discount'.submitted = discount.submitted
        /\ discount'.assigned = discount.assigned
    BY <1>1, <1>8 DEF DiscountFacts
  <2> QED BY <1>1, <2>1 DEF DiscountFacts, DiscountInv
<1>9. CASE discount' = [discount EXCEPT !.submitted = Append(@, E[c]),
             !.assigned = @ \cup {<<I[(c - 1) * n + k].inputIndex, c>> : k \in DOMAIN E[c]},
             !.phase = IF c = Len(E) THEN "applied" ELSE @]
  <2>1. /\ DOMAIN discount' = DOMAIN discount /\ discount'.phase = (IF c = Len(E) THEN "applied" ELSE "submitting")
        /\ discount'.items = I /\ discount'.envelopes = E /\ discount'.submitted = Append(done, E[c])
        /\ discount'.assigned = discount.assigned \cup {<<I[(c - 1) * n + k].inputIndex, c>> : k \in DOMAIN E[c]}
    BY <1>1, <1>2, <1>9 DEF DiscountFacts
  <2>2. /\ Append(done, E[c]) \in Seq({E[b] : b \in DOMAIN E}) /\ Len(Append(done, E[c])) = c
        /\ \A b \in DOMAIN Append(done, E[c]) : Append(done, E[c])[b] = E[b]
    <3> DEFINE X == {E[b] : b \in DOMAIN E}
               more == Append(done, E[c])
    <3>1. E[c] \in X /\ done \in Seq(X)
      BY <1>3, <1>5, <1>7
    <3> HIDE DEF X
    <3>2. more \in Seq(X) /\ Len(more) = c /\ more[c] = E[c] /\ \A b \in 1 .. Len(done) : more[b] = done[b]
      BY <1>6, <1>7, <3>1
    <3>3. \A b \in 1 .. Len(done) : done[b] = E[b]
      BY <1>3
    <3> HIDE DEF more
    <3>4. DOMAIN more = 1 .. c
      BY <3>2
    <3> QED BY <1>7, <3>2, <3>3, <3>4 DEF X, more
  <2>3. {a[1] : a \in discount'.assigned} = ReachedBy(I, c)
    <3>1. {a[1] : a \in discount.assigned} = ReachedBy(I, c - 1)
      BY <1>1, <1>2, <1>7 DEF DiscountFacts
    <3>2. ASSUME NEW k \in DOMAIN E[c]
          PROVE  I[(c - 1) * n + k].inputIndex = (c - 1) * n + k - 1
                 /\ (c - 1) * n + k - 1 \in ReachedBy(I, c)
      <4>1. PICK p \in Nat : p = (c - 1) * n
        BY <1>3, <1>7
      <4>2. c * n = p + n
        BY <1>3, <1>7, <4>1
      <4>3. k \in 1 .. ChunkSize(I, c)
        BY <1>5, <1>7, <3>2
      <4>4. k \in Nat /\ k >= 1 /\ k <= n /\ p + k <= Len(I)
        BY <1>2, <1>3, <1>4, <4>1, <4>2, <4>3 DEF ChunkSize
      <4>5. p + k \in DOMAIN I
        BY <1>4, <4>1, <4>4
      <4>6. I[p + k].inputIndex = p + k - 1
        <5>1. PICK j \in DOMAIN I : j = p + k
          BY <4>5
        <5>2. NormalizedDiscounts(I)[j] =
                [number |-> I[j].number, sku |-> I[j].sku, inputIndex |-> j - 1, tiers |-> NewTiers(I[j].tiers)]
          BY <1>3, NormalizedIs
        <5>3. NormalizedDiscounts(I)[j].inputIndex = j - 1
          BY <5>2
        <5>4. NormalizedDiscounts(I) = I
          BY <1>3
        <5>5. I[j].inputIndex = j - 1
          BY <5>3, <5>4, Zenon
        <5>6. I[p + k].inputIndex = j - 1
          BY <5>1, <5>5, Zenon
        <5> QED BY <5>1, <5>6
      <4>7. p + k - 1 \in ReachedBy(I, c)
        BY <1>2, <1>4, <4>1, <4>2, <4>4 DEF ReachedBy
      <4> QED BY <4>1, <4>6, <4>7
    <3>3. ASSUME NEW i \in ReachedBy(I, c), i \notin ReachedBy(I, c - 1)
          PROVE  \E k \in DOMAIN E[c] : i = (c - 1) * n + k - 1
      <4>1. PICK p \in Nat : p = (c - 1) * n
        BY <1>3, <1>7
      <4>2. c * n = p + n
        BY <1>3, <1>7, <4>1
      <4>3. i \in 0 .. (Len(I) - 1) /\ i < p + n /\ ~(i < p)
        BY <1>2, <3>3, <4>1, <4>2 DEF ReachedBy
      <4>4. PICK k \in Int : k = i - p + 1
        BY <1>4, <4>1, <4>3
      <4>5. k \in 1 .. ChunkSize(I, c)
        BY <1>2, <1>3, <1>4, <4>1, <4>2, <4>3, <4>4 DEF ChunkSize
      <4>6. k \in DOMAIN E[c]
        BY <1>5, <1>7, <4>5
      <4>7. i = p + k - 1
        BY <1>4, <4>1, <4>3, <4>4
      <4> QED BY <4>1, <4>6, <4>7
    <3>4. ReachedBy(I, c - 1) \subseteq ReachedBy(I, c)
      <4>1. PICK p \in Nat : p = (c - 1) * n
        BY <1>3, <1>7
      <4>2. c * n = p + n
        BY <1>3, <1>7, <4>1
      <4> QED BY <1>2, <1>3, <1>4, <4>1, <4>2 DEF ReachedBy
    <3>5. PICK A, fresh : A = discount.assigned /\ fresh = {<<I[(c - 1) * n + k].inputIndex, c>> : k \in DOMAIN E[c]}
      OBVIOUS
    <3>6. \A i : i \in {a[1] : a \in fresh} <=> \E k \in DOMAIN E[c] : i = I[(c - 1) * n + k].inputIndex
      <4> SUFFICES ASSUME NEW i PROVE i \in {a[1] : a \in fresh} <=> \E k \in DOMAIN E[c] : i = I[(c - 1) * n + k].inputIndex
        OBVIOUS
      <4>1. ASSUME NEW a \in fresh, i = a[1] PROVE \E k \in DOMAIN E[c] : i = I[(c - 1) * n + k].inputIndex
        <5>1. PICK k \in DOMAIN E[c] : a = <<I[(c - 1) * n + k].inputIndex, c>>
          BY <3>5, <4>1
        <5>2. a[1] = I[(c - 1) * n + k].inputIndex
          BY <5>1
        <5> QED BY <4>1, <5>2
      <4>2. ASSUME NEW k \in DOMAIN E[c], i = I[(c - 1) * n + k].inputIndex PROVE \E a \in fresh : i = a[1]
        <5>1. <<I[(c - 1) * n + k].inputIndex, c>> \in fresh
          BY <3>5
        <5>2. <<I[(c - 1) * n + k].inputIndex, c>>[1] = i
          BY <4>2
        <5> QED BY <5>1, <5>2
      <4> QED BY <4>1, <4>2
    <3>7. {a[1] : a \in A \cup fresh} = {a[1] : a \in A} \cup {a[1] : a \in fresh}
      OBVIOUS
    <3>8. {a[1] : a \in discount'.assigned} = ReachedBy(I, c - 1) \cup {a[1] : a \in fresh}
      BY <2>1, <3>1, <3>5, <3>7
    <3>9. ASSUME NEW i \in {a[1] : a \in fresh} PROVE i \in ReachedBy(I, c)
      <4>1. PICK k \in DOMAIN E[c] : i = I[(c - 1) * n + k].inputIndex
        BY <3>6
      <4> QED BY <3>2, <4>1
    <3>10. ASSUME NEW i \in ReachedBy(I, c), i \notin ReachedBy(I, c - 1) PROVE i \in {a[1] : a \in fresh}
      <4>1. PICK k \in DOMAIN E[c] : i = (c - 1) * n + k - 1
        BY <3>3, <3>10
      <4>2. i = I[(c - 1) * n + k].inputIndex
        BY <3>2, <4>1
      <4> QED BY <3>6, <4>2
    <3> QED BY <3>4, <3>8, <3>9, <3>10
  <2>4. c # Len(E) => c < FeedCount(I)
    BY <1>5, <1>7
  <2>5. c <= FeedCount(I) /\ Len(E) = FeedCount(I)
    BY <1>5, <1>7
  <2>6. DiscountList(I) /\ ValidDiscounts(I)
    BY <1>1, <1>2 DEF DiscountFacts
  <2>7. DOMAIN discount' = {"phase", "items", "envelopes", "submitted", "assigned"}
    BY <1>1, <2>1 DEF DiscountFacts
  <2>8. DiscountFacts'
    BY <1>3, <2>1, <2>2, <2>3, <2>4, <2>5, <2>6, <2>7 DEF DiscountFacts
  <2> QED BY <2>8 DEF DiscountInv
<1> QED BY <1>2, <1>3, <1>6, <1>8, <1>9 DEF SubmitDiscountChunk

(* The other steps leave the discount alone.                               *)
LEMMA PricesSpareDiscounts ==
  ASSUME PriceNext \/ PriceReadNext
  PROVE  discount' = discount
BY DEF PriceNext, PriceReadNext, PreviewPrices, ReadEntry, SendPrice, FilePreview, DecideApply, PricesSent,
       ApplyPrices, PriceMoves, StoreAlters, RestartServer, LifetimeEnds, GetPrices

(* What a discount preview showed is what the apply submits, chunk by      *)
(* chunk and item by item: DiscountInv is inductive.                       *)
THEOREM DiscountsGoAsPreviewed == PriceSpec => []DiscountAsPreviewed
<1>1. PriceInit => DiscountInv
  BY DEF PriceInit, DiscountInv, NoDiscount
<1>2. DiscountInv /\ [PriceNext \/ PriceReadNext \/ DiscountNext]_priceVars => DiscountInv'
  <2> SUFFICES ASSUME DiscountInv, [PriceNext \/ PriceReadNext \/ DiscountNext]_priceVars PROVE DiscountInv'
    OBVIOUS
  <2>1. CASE UNCHANGED priceVars
    BY <2>1 DEF DiscountInv, DiscountFacts, priceVars
  <2>2. CASE PriceNext \/ PriceReadNext
    <3>1. discount' = discount
      BY <2>2, PricesSpareDiscounts
    <3> QED BY <3>1 DEF DiscountInv, DiscountFacts
  <2>3. CASE DiscountNext
    BY <2>3, PriceAssumption, PreviewDiscountKeeps, ApplyDiscountKeeps, SubmitDiscountChunkKeeps DEF DiscountNext
  <2> QED BY <2>1, <2>2, <2>3
<1>3. DiscountInv => DiscountAsPreviewed
  <2> SUFFICES ASSUME DiscountInv, discount.phase \notin {"idle", "refused"}
               PROVE  /\ discount.phase # "failed" /\ IsPrefix(discount.submitted, discount.envelopes)
                      /\ discount.phase = "applied" =>
                           /\ discount.submitted = discount.envelopes
                           /\ {a[1] : a \in discount.assigned} = 0 .. Len(discount.items) - 1
    BY DEF DiscountAsPreviewed
  <2>1. DiscountFacts
    BY DEF DiscountInv
  <2>2. PICK I, E, done, n : I = discount.items /\ E = discount.envelopes /\ done = discount.submitted
                             /\ n = VOLUME_DISCOUNT_FEED_MAX_RECORDS
    OBVIOUS
  <2>3. /\ E = Envelopes(I) /\ done \in Seq({E[c] : c \in DOMAIN E}) /\ \A c \in DOMAIN done : done[c] = E[c]
        /\ Len(done) <= FeedCount(I)
    BY <2>1, <2>2 DEF DiscountFacts
  <2>4. DOMAIN I = 1 .. Len(I) /\ Len(I) \in Nat
    BY <2>1, <2>2 DEF DiscountFacts, DiscountList
  <2>5. /\ FeedCount(I) \in Nat /\ DOMAIN E = 1 .. FeedCount(I) /\ Len(E) = FeedCount(I)
        /\ FeedCount(I) * n >= Len(I)
    BY <2>2, <2>3, <2>4, PriceAssumption, EnvelopesAre
  <2>6. E \in Seq({E[c] : c \in DOMAIN E})
    <3>1. E = [c \in DOMAIN E |-> E[c]]
      BY <2>3 DEF Envelopes
    <3> QED BY <2>5, <3>1
  <2>7. SubSeq(done, 1, Len(done)) = SubSeq(E, 1, Len(done))
    <3> DEFINE X == {E[c] : c \in DOMAIN E}
               p == SubSeq(done, 1, Len(done))
               q == SubSeq(E, 1, Len(done))
    <3>1. done \in Seq(X) /\ E \in Seq(X) /\ Len(done) \in Nat /\ Len(done) <= Len(E)
      BY <2>3, <2>5, <2>6
    <3>2. \A c \in 1 .. Len(done) : done[c] = E[c]
      BY <2>3, <3>1
    <3> HIDE DEF X
    <3>3. p = done
      BY <3>1
    <3>4. q = [c \in 1 .. Len(done) |-> E[c]]
      BY <3>1
    <3>5. done = [c \in 1 .. Len(done) |-> done[c]]
      BY <3>1
    <3> QED BY <3>2, <3>3, <3>4, <3>5
  <2>8. IsPrefix(done, E)
    BY <2>3, <2>5, <2>7 DEF IsPrefix
  <2>9. ASSUME discount.phase = "applied"
        PROVE  done = E /\ {a[1] : a \in discount.assigned} = 0 .. Len(I) - 1
    <3>1. Len(done) = FeedCount(I)
      BY <2>1, <2>2, <2>9 DEF DiscountFacts
    <3>2. done = E
      BY <2>3, <2>5, <2>6, <3>1
    <3>3. {a[1] : a \in discount.assigned} = ReachedBy(I, FeedCount(I))
      BY <2>1, <2>2, <3>1 DEF DiscountFacts
    <3>4. PICK p \in Int : p = FeedCount(I) * n
      <4>1. n \in Nat
        BY <2>2, PriceAssumption DEF PriceAssumption
      <4> QED BY <2>5, <4>1
    <3>5. ReachedBy(I, FeedCount(I)) = 0 .. Len(I) - 1
      BY <2>2, <2>4, <2>5, <3>4 DEF ReachedBy
    <3> QED BY <3>2, <3>3, <3>5
  <2>10. discount.phase # "failed"
    BY <2>1 DEF DiscountFacts
  <2> QED BY <2>2, <2>8, <2>9, <2>10
<1> QED BY <1>1, <1>2, <1>3, PTL DEF PriceSpec

DistinctRows(us) == IsList(us) /\ \A i, j \in DOMAIN us : Row(us[i]) = Row(us[j]) => i = j

IsLast(us, j) == \A k \in DOMAIN us : Row(us[k]) = Row(us[j]) => k <= j

(* Deduplication keeps one update a row, and of a row the last.            *)
LEMMA DedupedAre ==
  ASSUME NEW us, IsList(us)
  PROVE  /\ DistinctRows(DedupedPrices(us))
         /\ \A k \in DOMAIN DedupedPrices(us) :
              \E j \in DOMAIN us : IsLast(us, j) /\ DedupedPrices(us)[k] = Numbered(us, j)
<1> DEFINE rows == [i \in DOMAIN us |-> Row(us[i])]
           kept == KeptPlaces(rows)
           ds == DedupedPrices(us)
<1>1. IsList(rows) /\ DOMAIN rows = DOMAIN us /\ \A i \in DOMAIN us : rows[i] = Row(us[i])
  BY DEF IsList
<1>2. ds = [k \in DOMAIN kept |-> Numbered(us, kept[k])]
  BY DEF DedupedPrices
<1> HIDE DEF rows, ds
<1>3. /\ IsList(kept)
      /\ \A k \in DOMAIN kept : /\ kept[k] \in DOMAIN rows
                               /\ \A i \in DOMAIN rows : rows[i] = rows[kept[k]] => i <= kept[k]
      /\ \A j, k \in DOMAIN kept : rows[kept[j]] = rows[kept[k]] => j = k
  BY <1>1, KeptPlacesAre
<1> HIDE DEF kept
<1>4. ASSUME NEW k \in DOMAIN ds
      PROVE  kept[k] \in DOMAIN us /\ IsLast(us, kept[k]) /\ ds[k] = Numbered(us, kept[k])
             /\ Row(ds[k]) = rows[kept[k]]
  <2>1. k \in DOMAIN kept /\ ds[k] = Numbered(us, kept[k])
    BY <1>2, <1>4
  <2>2. kept[k] \in DOMAIN us /\ IsLast(us, kept[k])
    BY <1>1, <1>3, <2>1 DEF IsLast
  <2> QED BY <1>1, <2>1, <2>2 DEF Row, Numbered
<1>5. IsList(ds) /\ DOMAIN ds = DOMAIN kept
  BY <1>2, <1>3 DEF IsList
<1>6. DistinctRows(ds)
  BY <1>3, <1>4, <1>5 DEF DistinctRows
<1> QED BY <1>4, <1>6 DEF ds

(* A list without repetitions stays as it is, renumbered.                  *)
LEMMA DedupedTwice ==
  ASSUME NEW us, DistinctRows(us)
  PROVE  /\ DOMAIN DedupedPrices(us) = DOMAIN us
         /\ \A k \in DOMAIN us : DedupedPrices(us)[k] = Numbered(us, k)
<1> DEFINE rows == [i \in DOMAIN us |-> Row(us[i])]
           kept == KeptPlaces(rows)
<1>1. IsList(rows) /\ DOMAIN rows = DOMAIN us /\ \A i, j \in DOMAIN rows : rows[i] = rows[j] => i = j
  BY DEF IsList, DistinctRows
<1>2. DedupedPrices(us) = [k \in DOMAIN kept |-> Numbered(us, kept[k])]
  BY DEF DedupedPrices
<1> HIDE DEF rows
<1>3. DOMAIN kept = DOMAIN rows /\ \A k \in DOMAIN rows : kept[k] = k
  BY <1>1, KeptAll
<1> QED BY <1>1, <1>2, <1>3

-----------------------------------------------------------------------------
(* Prices.                                                                 *)

Entry(e) == DOMAIN e = {"selling", "msrp", "currency"} /\ {e.selling, e.msrp} \subseteq Nat \cup {Unset}

(* What a read of an entry returns. *)
ReadAs(e) == DOMAIN e = {} \/ Entry(e)

Priced(u) == u.price \in Nat \ {0}

(* The change from the price p, in the unit of the limit. *)
WithinLimit(price, p) ==
  LET off == IF price > p THEN price - p ELSE p - price IN 20000 * off <= (200 * maxPriceChangePercent + 1) * p

(* A change whose rounded percentage keeps to the limit does so itself,    *)
(* but for half a hundredth of a percent.                                  *)
LEMMA RoundingIsSmall ==
  ASSUME NEW new \in Nat, NEW old \in Nat \ {0}, maxPriceChangePercent \in Nat, NEW percent \in Int,
         percent = (20000 * (new - old) + old) \div (2 * old),
         ~(percent > 100 * maxPriceChangePercent), ~(percent < -100 * maxPriceChangePercent)
  PROVE  WithinLimit(new, old)
<1>1. PICK limit \in Nat : limit = 100 * maxPriceChangePercent
  OBVIOUS
<1>2. PICK b \in Nat \ {0} : b = 2 * old
  OBVIOUS
<1>3. PICK a \in Int : a = 20000 * (new - old) + old
  OBVIOUS
<1>4. b * percent <= a /\ a < b * percent + b
  <2>1. percent = a \div b
    BY <1>2, <1>3
  <2> QED BY <1>2, <1>3, <2>1
<1>5. -limit <= percent /\ percent <= limit
  BY <1>1
<1>6. b * percent <= b * limit /\ -(b * limit) <= b * percent
  <2>1. PICK up \in Nat : up = limit - percent
    BY <1>1, <1>5
  <2>2. PICK down \in Nat : down = percent + limit
    BY <1>1, <1>5
  <2>3. b * up >= 0 /\ b * down >= 0
    BY <1>2, <2>1, <2>2
  <2>4. b * up = b * limit - b * percent /\ b * down = b * percent + b * limit
    BY <1>1, <1>2, <2>1, <2>2
  <2>5. b * limit \in Int /\ b * percent \in Int /\ b * up \in Int /\ b * down \in Int
    BY <1>1, <1>2, <2>1, <2>2
  <2> QED BY <2>3, <2>4, <2>5
<1>7. PICK x \in Int : x = old * limit
  BY <1>1
<1>8. b * limit = 2 * x
  BY <1>1, <1>2, <1>7
<1>9. b * percent \in Int
  BY <1>2
<1>10. a <= 2 * x + 2 * old - 1 /\ a >= -(2 * x)
  BY <1>2, <1>3, <1>4, <1>6, <1>7, <1>8, <1>9
<1>11. (200 * maxPriceChangePercent + 1) * old = 2 * x + old
  <2>1. 200 * maxPriceChangePercent + 1 = 2 * limit + 1
    BY <1>1
  <2>2. (2 * limit + 1) * old = 2 * (old * limit) + old
    BY <1>1
  <2> QED BY <1>7, <2>1, <2>2
<1>12. 20000 * (new - old) <= 2 * x + old /\ 20000 * (old - new) <= 2 * x + old
  BY <1>3, <1>7, <1>10
<1> QED BY <1>7, <1>11, <1>12 DEF WithinLimit

(* What an update without blockers has been checked for.                   *)
LEMMA NothingBlocks ==
  ASSUME NEW u, Priced(u), NEW e, ReadAs(e), AllBlockers(u, e) = {}, maxPriceChangePercent \in Nat, Unset \notin Int
  PROVE  /\ Entry(e) /\ e.selling \in Nat \ {0} /\ WithinLimit(u.price, e.selling)
         /\ e.msrp # Unset /\ e.msrp > 0 => u.price <= e.msrp
<1>1. Blockers(u, e) = {} /\ LimitBlockers(u, e) = {}
  BY DEF AllBlockers
<1>2. DOMAIN e # {}
  BY <1>1 DEF Blockers
<1>3. Entry(e)
  BY <1>2 DEF ReadAs
<1>4. "msrp" \notin {b \in {"currency", "msrp"} :
         \/ /\ b = "currency" /\ u.currency # Unset /\ e.currency # u.currency
         \/ /\ b = "msrp" /\ e.msrp # Unset /\ e.msrp > 0 /\ u.price > e.msrp}
  BY <1>1, <1>2 DEF Blockers
<1>5. ~(e.msrp # Unset /\ e.msrp > 0 /\ u.price > e.msrp)
  BY <1>4
<1>6. PICK percent : percent = ChangePercent(u.price, e.selling)
  OBVIOUS
<1>7. percent # Unset
  BY <1>1, <1>2, <1>6 DEF LimitBlockers
<1>8. ~(percent > 100 * maxPriceChangePercent) /\ ~(percent < -100 * maxPriceChangePercent)
  BY <1>1, <1>2, <1>6, <1>7 DEF LimitBlockers
<1>9. e.selling # Unset /\ e.selling # 0
  BY <1>6, <1>7 DEF ChangePercent
<1>10. e.selling \in Nat \ {0} /\ e.msrp \in Nat \cup {Unset}
  BY <1>3, <1>9 DEF Entry
<1>11. percent = (20000 * (u.price - e.selling) + e.selling) \div (2 * e.selling)
  BY <1>6, <1>9 DEF ChangePercent
<1>12. percent \in Int
  <2>1. PICK a \in Int : a = 20000 * (u.price - e.selling) + e.selling
    BY <1>10 DEF Priced
  <2>2. PICK b \in Nat \ {0} : b = 2 * e.selling
    BY <1>10
  <2>3. percent = a \div b
    BY <1>11, <2>1, <2>2
  <2> QED BY <2>3
<1>13. WithinLimit(u.price, e.selling)
  BY <1>8, <1>10, <1>11, <1>12, RoundingIsSmall DEF Priced
<1>14. e.msrp # Unset /\ e.msrp > 0 => u.price <= e.msrp
  BY <1>5, <1>10 DEF Priced
<1> QED BY <1>3, <1>10, <1>13, <1>14

(* An update as the list wants it, checked against the entry the preview   *)
(* has shown.                                                              *)
Wanted(u, list) ==
  /\ IsList(list)
  /\ \E i \in DOMAIN list : /\ Row(list[i]) = Row(u) /\ list[i].price = u.price
                            /\ \A j \in DOMAIN list : Row(list[j]) = Row(u) => j <= i

Reviewed(u, k, issued) ==
  /\ Priced(u) /\ Wanted(u, issued.list) /\ ReadAs(issued.entries[k]) /\ AllBlockers(u, issued.entries[k]) = {}

(* The same, with the entry read at the apply.                             *)
Confirmed(u, k, issued, entry) ==
  Reviewed(u, k, issued) /\ ReadAs(entry) /\ AllBlockers(u, entry) = {}
    /\ PreviewedPrice(entry) = PreviewedPrice(issued.entries[k])

(* What the hash of the filed record stands for, whatever the store does   *)
(* to the record.                                                          *)
GoodSeal(h, issued) ==
  /\ h.owner = issued.owner /\ h.until = "ttl" /\ DistinctRows(h.updates)
  /\ \A k \in DOMAIN h.updates :
       Reviewed(h.updates[k], k, issued) /\ h.prices[k] = PreviewedPrice(issued.entries[k])

PriceAt(record, k) == IF k \in DOMAIN record.prices THEN record.prices[k] ELSE Unset

(* An apply that took the record. *)
Applying(c, issued) ==
  /\ DOMAIN c = {"phase", "owner", "pass", "record", "updates", "late"}
  /\ c.owner = issued.owner /\ ~c.late
  /\ \A k \in DOMAIN c.updates :
       Reviewed(c.updates[k], k, issued) /\ PriceAt(c.record, k) = PreviewedPrice(issued.entries[k])

SentFacts(s) ==
  /\ s.owner = given.owner /\ ~s.late
  /\ \E u : Row(u) = s.row /\ u.price = s.price /\ Confirmed(u, s.place, given, looked[2][s.place])

ReadsTyped ==
  /\ \A r \in DOMAIN shelf : Entry(shelf[r])
  /\ DOMAIN looked = {1, 2} /\ \A p \in {1, 2} : \A k \in DOMAIN looked[p] : ReadAs(looked[p][k])

PriceCallTyped ==
  /\ pcall.phase \in {"idle", "refused", "assessing", "sending", "done"}
  /\ pcall.phase = "assessing" => pcall.pass \in {1, 2}

PreviewFacts ==
  (pcall.phase = "assessing" /\ pcall.pass = 1) =>
    given = NoFile /\ filed = NoFile /\ pcall.list \in PriceLists /\ pcall.updates = DedupedPrices(pcall.list)

ApplyFacts == (pcall.phase = "sending" \/ (pcall.phase = "assessing" /\ pcall.pass = 2)) => Applying(pcall, given)

SendFacts ==
  pcall.phase = "sending" =>
    \A k \in DOMAIN pcall.updates : Confirmed(pcall.updates[k], k, given, looked[2][k])

FiledFacts == filed # NoFile => "hash" \in DOMAIN filed /\ GoodSeal(filed.hash, given)

SentInv ==
  /\ pcall.phase \notin {"sending", "done"} => sentPrices = {}
  /\ \A s \in sentPrices : SentFacts(s)

PriceInv == ReadsTyped /\ PriceCallTyped /\ PreviewFacts /\ ApplyFacts /\ SendFacts /\ FiledFacts /\ SentInv

-----------------------------------------------------------------------------
(* The steps, one by one.                                                  *)

(* A preview starts with nothing filed, shown or sent.                     *)
LEMMA PreviewPricesKeeps ==
  ASSUME PriceAssumption, PriceInv, NEW us \in PriceLists, NEW o \in Owners, PreviewPrices(us, o)
  PROVE  PriceInv'
<1>1. /\ pcall.phase = "idle" /\ filed = NoFile /\ given = NoFile /\ sentPrices = {}
      /\ shelf' = shelf /\ filed' = filed /\ given' = given /\ sentPrices' = sentPrices
      /\ looked' = [looked EXCEPT ![1] = <<>>]
  BY DEF PreviewPrices, PriceInv, SentInv
<1>2. ReadsTyped'
  <2>1. DOMAIN looked' = {1, 2} /\ looked'[1] = <<>> /\ looked'[2] = looked[2] /\ DOMAIN looked'[1] = {}
    BY <1>1 DEF PriceInv, ReadsTyped
  <2> QED BY <1>1, <2>1 DEF PriceInv, ReadsTyped
<1>3. CASE ~ValidPrices(us)
  <2>1. pcall' = [phase |-> "refused"]
    BY <1>3 DEF PreviewPrices
  <2> QED BY <1>1, <1>2, <2>1
          DEF PriceInv, PriceCallTyped, PreviewFacts, ApplyFacts, SendFacts, FiledFacts, SentInv
<1>4. CASE ValidPrices(us)
  <2>1. pcall' = [phase |-> "assessing", owner |-> o, list |-> us, updates |-> DedupedPrices(us), pass |-> 1]
    BY <1>4 DEF PreviewPrices
  <2> QED BY <1>1, <1>2, <2>1
          DEF PriceInv, PriceCallTyped, PreviewFacts, ApplyFacts, SendFacts, FiledFacts, SentInv
<1> QED BY <1>3, <1>4

(* A read finds an entry of the shelf, or none.                            *)
LEMMA ReadEntryKeeps ==
  ASSUME PriceInv, NEW k, ReadEntry(k)
  PROVE  PriceInv'
<1>1. /\ pcall.phase = "assessing" /\ pcall.pass \in {1, 2} /\ sentPrices = {}
      /\ shelf' = shelf /\ filed' = filed /\ given' = given /\ sentPrices' = sentPrices
  BY DEF ReadEntry, PriceInv, PriceCallTyped, SentInv
<1>2. CASE pcall' = [phase |-> "refused"] /\ looked' = looked
  BY <1>1, <1>2 DEF PriceInv, ReadsTyped, PriceCallTyped, PreviewFacts, ApplyFacts, SendFacts, FiledFacts, SentInv
<1>3. ASSUME NEW e, ReadAs(e), looked' = [looked EXCEPT ![pcall.pass] = Noted(@, k, e)], pcall' = pcall
      PROVE  PriceInv'
  <2>1. DOMAIN looked = {1, 2} /\ \A p \in {1, 2} : \A j \in DOMAIN looked[p] : ReadAs(looked[p][j])
    BY DEF PriceInv, ReadsTyped
  <2>2. DOMAIN looked' = {1, 2} /\ \A p \in {1, 2} : looked'[p] = IF p = pcall.pass THEN Noted(looked[p], k, e) ELSE looked[p]
    BY <1>1, <1>3, <2>1
  <2>3. \A p \in {1, 2} : \A j \in DOMAIN Noted(looked[p], k, e) : ReadAs(Noted(looked[p], k, e)[j])
    BY <1>3, <2>1 DEF Noted
  <2>4. ReadsTyped'
    BY <1>1, <2>1, <2>2, <2>3 DEF PriceInv, ReadsTyped
  <2> QED BY <1>1, <1>3, <2>4 DEF PriceInv, PriceCallTyped, PreviewFacts, ApplyFacts, SendFacts, FiledFacts, SentInv
<1>4. ReadAs(<<>>)
  BY DEF ReadAs
<1>5. CASE /\ Row(pcall.updates[k]) \in DOMAIN shelf
           /\ looked' = [looked EXCEPT ![pcall.pass] = Noted(@, k, shelf[Row(pcall.updates[k])])]
           /\ UNCHANGED pcall
  <2>1. ReadAs(shelf[Row(pcall.updates[k])])
    BY <1>5 DEF PriceInv, ReadsTyped, ReadAs
  <2> QED BY <1>3, <1>5, <2>1
<1>6. CASE looked' = [looked EXCEPT ![pcall.pass] = Noted(@, k, <<>>)] /\ UNCHANGED pcall
  BY <1>3, <1>4, <1>6
<1> QED BY <1>2, <1>5, <1>6 DEF ReadEntry

(* The preview files what nothing blocks, under its seal.                  *)
LEMMA FilePreviewKeeps ==
  ASSUME PriceAssumption, PriceInv, FilePreview
  PROVE  PriceInv'
<1>1. /\ pcall.phase = "assessing" /\ pcall.pass = 1 /\ given = NoFile /\ filed = NoFile /\ sentPrices = {}
      /\ pcall.list \in PriceLists /\ pcall.updates = DedupedPrices(pcall.list)
      /\ DOMAIN looked[1] = DOMAIN pcall.updates
      /\ shelf' = shelf /\ looked' = looked /\ sentPrices' = sentPrices /\ pcall' = NoCall
  BY DEF FilePreview, PriceInv, PreviewFacts, SentInv
<1>2. ReadsTyped' /\ PriceCallTyped' /\ PreviewFacts' /\ ApplyFacts' /\ SendFacts' /\ SentInv'
  BY <1>1 DEF PriceInv, ReadsTyped, PriceCallTyped, PreviewFacts, ApplyFacts, SendFacts, SentInv, NoCall
<1>3. CASE EligibleUpdates = <<>>
  <2>1. filed' = filed /\ given' = given
    BY <1>3 DEF FilePreview
  <2> QED BY <1>1, <1>2, <2>1 DEF PriceInv, FiledFacts
<1>4. CASE EligibleUpdates # <<>>
  <2>1. PICK U, L, read : U = pcall.updates /\ L = pcall.list /\ read = looked[1]
    OBVIOUS
  <2> DEFINE E == EligibleUpdates
             source(k) == CHOOSE j \in DOMAIN U : U[j] = E[k]
             issued == [kind |-> "priceUpdate", owner |-> pcall.owner, list |-> L,
                       entries |-> [k \in DOMAIN E |-> read[source(k)]]]
             prices == [k \in DOMAIN E |-> PreviewedPrice(read[source(k)])]
             h == Seal(processKey, pcall.owner, "ttl", "priceUpdate", E, prices)
  <2>2. /\ filed' = [kind |-> "priceUpdate", owner |-> pcall.owner, until |-> "ttl",
                     updates |-> E, prices |-> prices, hash |-> h]
        /\ given' = issued
    <3>1. PreviewedPrices(E) = prices
      BY <2>1 DEF PreviewedPrices
    <3>2. [k \in DOMAIN E |-> looked[1][CHOOSE j \in DOMAIN pcall.updates : pcall.updates[j] = E[k]]]
            = [k \in DOMAIN E |-> read[source(k)]]
      BY <2>1
    <3>3. /\ filed' = [kind |-> "priceUpdate", owner |-> pcall.owner, until |-> "ttl", updates |-> E,
                       prices |-> PreviewedPrices(E),
                       hash |-> Seal(processKey, pcall.owner, "ttl", "priceUpdate", E, PreviewedPrices(E))]
          /\ given' = [kind |-> "priceUpdate", owner |-> pcall.owner, list |-> pcall.list,
                       entries |-> [k \in DOMAIN E |->
                         looked[1][CHOOSE j \in DOMAIN pcall.updates : pcall.updates[j] = E[k]]]]
      BY <1>4 DEF FilePreview
    <3> HIDE DEF E, prices, source
    <3> QED BY <2>1, <3>1, <3>2, <3>3
  <2>3. IsList(L) /\ \A i \in DOMAIN L : Priced(L[i])
    BY <1>1, <2>1 DEF PriceAssumption, IsList, Priced
  <2>4. DistinctRows(U) /\ \A k \in DOMAIN U : \E j \in DOMAIN L : IsLast(L, j) /\ U[k] = Numbered(L, j)
    BY <1>1, <2>1, <2>3, DedupedAre
  <2>5. ASSUME NEW k \in DOMAIN U PROVE Priced(U[k]) /\ Wanted(U[k], L)
    <3>1. PICK j \in DOMAIN L : IsLast(L, j) /\ U[k] = Numbered(L, j)
      BY <2>4
    <3>2. Row(U[k]) = Row(L[j]) /\ U[k].price = L[j].price
      BY <3>1 DEF Numbered, Row
    <3>3. Priced(U[k])
      BY <2>3, <3>2 DEF Priced
    <3> QED BY <2>3, <3>1, <3>2, <3>3 DEF Wanted, IsLast
  <2> DEFINE S == {k \in DOMAIN U : AllBlockers(U[k], read[k]) = {}}
             placed == InOrder(S)
  <2>6. E = AtPlaces(U, S)
    BY <2>1 DEF EligibleUpdates
  <2> HIDE DEF E
  <2>7. /\ IsList(E) /\ \A k \in DOMAIN E : placed[k] \in S /\ E[k] = U[placed[k]]
        /\ \A j, k \in DOMAIN E : placed[j] = placed[k] => j = k
    <3>1. S \in SUBSET (1 .. Len(U)) /\ Len(U) \in Nat
      BY <2>4 DEF DistinctRows, IsList
    <3>2. PICK n \in Nat : n = Len(U)
      BY <3>1
    <3> HIDE DEF S
    <3>3. PICK T \in SUBSET (1 .. n) : T = S
      BY <3>1, <3>2
    <3>4. IsList(AtPlaces(U, T))
      BY AtPlacesAre
    <3>5. \A k \in DOMAIN AtPlaces(U, T) : InOrder(T)[k] \in T /\ AtPlaces(U, T)[k] = U[InOrder(T)[k]]
      BY AtPlacesAre
    <3>6. \A j, k \in DOMAIN AtPlaces(U, T) : InOrder(T)[j] = InOrder(T)[k] => j = k
      BY AtPlacesAre
    <3>7. AtPlaces(U, T) = E /\ placed = InOrder(T)
      BY <2>6, <3>3
    <3> HIDE DEF placed
    <3> QED BY <3>3, <3>4, <3>5, <3>6, <3>7
  <2>8. ASSUME NEW k \in DOMAIN E PROVE source(k) = placed[k] /\ placed[k] \in DOMAIN U
    <3>1. placed[k] \in DOMAIN U /\ U[placed[k]] = E[k]
      BY <2>7, <2>8
    <3>2. \A j \in DOMAIN U : U[j] = E[k] => j = placed[k]
      BY <2>4, <3>1 DEF DistinctRows
    <3> HIDE DEF placed
    <3> QED BY <3>1, <3>2
  <2>9. DistinctRows(E)
    <3>1. ASSUME NEW j \in DOMAIN E, NEW k \in DOMAIN E, Row(E[j]) = Row(E[k]) PROVE j = k
      <4>1. placed[j] \in DOMAIN U /\ placed[k] \in DOMAIN U /\ Row(U[placed[j]]) = Row(U[placed[k]])
        BY <2>7, <2>8, <3>1
      <4>2. placed[j] = placed[k]
        BY <2>4, <4>1 DEF DistinctRows
      <4> QED BY <2>7, <4>2
    <3> QED BY <2>7, <3>1 DEF DistinctRows
  <2>10. ASSUME NEW k \in DOMAIN E
         PROVE  Reviewed(E[k], k, issued) /\ prices[k] = PreviewedPrice(issued.entries[k])
    <3>1. E[k] = U[placed[k]] /\ placed[k] \in S /\ placed[k] \in DOMAIN U
      BY <2>7, <2>8
    <3>2. issued.entries[k] = read[placed[k]] /\ prices[k] = PreviewedPrice(read[placed[k]]) /\ issued.list = L
      BY <2>8
    <3>3. ReadAs(read[placed[k]])
      BY <1>1, <2>1, <3>1 DEF PriceInv, ReadsTyped
    <3>4. AllBlockers(E[k], read[placed[k]]) = {}
      BY <3>1
    <3>5. Priced(E[k]) /\ Wanted(E[k], L)
      BY <2>5, <3>1
    <3> HIDE DEF issued, prices
    <3> QED BY <3>2, <3>3, <3>4, <3>5 DEF Reviewed
  <2>11. /\ h.owner = pcall.owner /\ h.until = "ttl" /\ h.updates = E
         /\ \A k \in DOMAIN E : h.prices[k] = prices[k]
    BY DEF Seal
  <2>12. issued.owner = pcall.owner
    OBVIOUS
  <2>13. filed'.hash = h /\ "hash" \in DOMAIN filed'
    BY <2>2
  <2> HIDE DEF h, issued, prices, S, placed
  <2>14. GoodSeal(h, issued)
    BY <2>9, <2>10, <2>11, <2>12 DEF GoodSeal
  <2>15. FiledFacts'
    BY <2>2, <2>13, <2>14 DEF FiledFacts
  <2> QED BY <1>2, <2>15 DEF PriceInv
<1> QED BY <1>3, <1>4

(* The apply takes a record whose hash is its own: the one that was filed. *)
LEMMA ApplyPricesKeeps ==
  ASSUME PriceInv, NEW o \in Owners, NEW kind, ApplyPrices(o, kind)
  PROVE  PriceInv'
<1>1. /\ pcall.phase = "idle" /\ filed # NoFile /\ sentPrices = {} /\ filed' = NoFile
      /\ shelf' = shelf /\ looked' = looked /\ sentPrices' = sentPrices /\ given' = given
  BY DEF ApplyPrices, PriceInv, SentInv
<1>2. ReadsTyped' /\ FiledFacts'
  BY <1>1 DEF PriceInv, ReadsTyped, FiledFacts
<1>3. CASE pcall' = [phase |-> "refused"]
  BY <1>1, <1>2, <1>3 DEF PriceInv, PriceCallTyped, PreviewFacts, ApplyFacts, SendFacts, SentInv
<1>4. CASE /\ ~(tooLate /\ filed.until = "ttl") /\ filed.owner = o /\ SealHolds(filed)
           /\ pcall' = [phase |-> "assessing", owner |-> o, pass |-> 2, record |-> filed,
                        updates |-> DedupedPrices(filed.updates), late |-> tooLate]
  <2>1. PICK h, us : h = filed.hash /\ us = filed.updates
    OBVIOUS
  <2>2. GoodSeal(h, given)
    BY <1>1, <2>1 DEF PriceInv, FiledFacts
  <2>3. h = Seal(processKey, filed.owner, filed.until, filed.kind, us, filed.prices)
    BY <1>4, <2>1 DEF SealHolds
  <2>4. /\ h.owner = filed.owner /\ h.until = filed.until /\ h.updates = us
        /\ \A k \in DOMAIN us : h.prices[k] = PriceAt(filed, k)
    BY <2>3 DEF Seal, PriceAt
  <2>5. filed.owner = given.owner /\ filed.until = "ttl" /\ DistinctRows(us)
        /\ \A k \in DOMAIN us : Reviewed(us[k], k, given) /\ PriceAt(filed, k) = PreviewedPrice(given.entries[k])
    BY <2>2, <2>4 DEF GoodSeal
  <2>6. DOMAIN DedupedPrices(us) = DOMAIN us /\ \A k \in DOMAIN us : DedupedPrices(us)[k] = Numbered(us, k)
    BY <2>5, DedupedTwice
  <2>7. ASSUME NEW k \in DOMAIN us PROVE Reviewed(DedupedPrices(us)[k], k, given)
    <3>1. PICK u, v : u = us[k] /\ v = DedupedPrices(us)[k]
      OBVIOUS
    <3>2. v.price = u.price /\ v.currency = u.currency /\ Row(v) = Row(u)
      BY <2>6, <2>7, <3>1 DEF Numbered, Row
    <3>3. Reviewed(u, k, given)
      BY <2>5, <2>7, <3>1
    <3>4. Priced(v) /\ Wanted(v, given.list)
      BY <3>2, <3>3 DEF Reviewed, Priced, Wanted
    <3>5. \A e : AllBlockers(v, e) = AllBlockers(u, e)
      BY <3>2 DEF AllBlockers, Blockers, LimitBlockers
    <3> QED BY <3>1, <3>3, <3>4, <3>5 DEF Reviewed
  <2>8. /\ DOMAIN pcall' = {"phase", "owner", "pass", "record", "updates", "late"}
        /\ pcall'.phase = "assessing" /\ pcall'.pass = 2 /\ pcall'.owner = o /\ pcall'.record = filed
        /\ pcall'.updates = DedupedPrices(us) /\ pcall'.late = tooLate
    BY <1>4, <2>1
  <2>9. ~tooLate
    BY <1>4, <2>5
  <2>10. ~pcall'.late
    BY <2>8, <2>9
  <2>11. Applying(pcall', given')
    BY <1>1, <1>4, <2>5, <2>6, <2>7, <2>8, <2>10 DEF Applying
  <2>12. ApplyFacts'
    BY <2>11 DEF ApplyFacts
  <2> QED BY <1>1, <1>2, <2>8, <2>12 DEF PriceInv, PriceCallTyped, PreviewFacts, SendFacts, SentInv
<1> QED BY <1>3, <1>4 DEF ApplyPrices

(* Nothing is sent that the second look finds blocked or at another price. *)
LEMMA DecideApplyKeeps ==
  ASSUME PriceInv, DecideApply
  PROVE  PriceInv'
<1>1. /\ pcall.phase = "assessing" /\ pcall.pass = 2 /\ sentPrices = {} /\ DOMAIN looked[2] = DOMAIN pcall.updates
      /\ shelf' = shelf /\ looked' = looked /\ sentPrices' = sentPrices /\ given' = given /\ filed' = filed
  BY DEF DecideApply, PriceInv, SentInv
<1>2. ReadsTyped' /\ FiledFacts'
  BY <1>1 DEF PriceInv, ReadsTyped, FiledFacts
<1>3. CASE pcall' = [phase |-> "refused"]
  BY <1>1, <1>2, <1>3 DEF PriceInv, PriceCallTyped, PreviewFacts, ApplyFacts, SendFacts, SentInv
<1>4. CASE (~ \E k \in DOMAIN pcall.updates : Problem(k)) /\ pcall' = [pcall EXCEPT !.phase = "sending"]
  <2>1. Applying(pcall, given)
    BY <1>1 DEF PriceInv, ApplyFacts
  <2>2. /\ pcall'.phase = "sending" /\ DOMAIN pcall' = DOMAIN pcall /\ pcall'.updates = pcall.updates
        /\ pcall'.owner = pcall.owner /\ pcall'.late = pcall.late /\ pcall'.record = pcall.record
    BY <1>4, <2>1 DEF Applying
  <2>3. Applying(pcall', given')
    BY <1>1, <2>1, <2>2 DEF Applying, PriceAt
  <2>4. ASSUME NEW k \in DOMAIN pcall.updates PROVE Confirmed(pcall.updates[k], k, given, looked[2][k])
    <3>1. ~Problem(k)
      BY <1>4
    <3>2. AllBlockers(pcall.updates[k], looked[2][k]) = {} /\ PriceAt(pcall.record, k) = PreviewedPrice(looked[2][k])
      BY <3>1 DEF Problem, PriceAt
    <3>3. ReadAs(looked[2][k])
      BY <1>1 DEF PriceInv, ReadsTyped
    <3>4. Reviewed(pcall.updates[k], k, given) /\ PriceAt(pcall.record, k) = PreviewedPrice(given.entries[k])
      BY <2>1 DEF Applying
    <3> QED BY <3>2, <3>3, <3>4 DEF Confirmed
  <2>5. SendFacts'
    BY <1>1, <2>2, <2>4 DEF SendFacts
  <2>6. ApplyFacts'
    BY <2>3 DEF ApplyFacts
  <2> QED BY <1>1, <1>2, <2>2, <2>5, <2>6 DEF PriceInv, PriceCallTyped, PreviewFacts, SentInv
<1> QED BY <1>3, <1>4 DEF DecideApply

(* What is sent was found right by both looks, and the shelf keeps its     *)
(* form.                                                                   *)
LEMMA SendPriceKeeps ==
  ASSUME PriceAssumption, PriceInv, NEW k, SendPrice(k)
  PROVE  PriceInv'
<1>1. /\ pcall.phase = "sending" /\ k \in DOMAIN pcall.updates
      /\ pcall' = pcall /\ looked' = looked /\ given' = given /\ filed' = filed
      /\ sentPrices' = sentPrices \cup
           {[place |-> k, row |-> Row(pcall.updates[k]), price |-> pcall.updates[k].price,
             owner |-> pcall.owner, late |-> pcall.late]}
  BY DEF SendPrice
<1>2. Applying(pcall, given) /\ Confirmed(pcall.updates[k], k, given, looked[2][k])
  BY <1>1 DEF PriceInv, ApplyFacts, SendFacts
<1>3. PICK u : u = pcall.updates[k]
  OBVIOUS
<1>4. ReadsTyped'
  <2>1. CASE shelf' = shelf
    BY <1>1, <2>1 DEF PriceInv, ReadsTyped
  <2>2. CASE Row(u) \in DOMAIN shelf /\ shelf' = [shelf EXCEPT ![Row(u)].selling = u.price]
    <3>1. u.price \in Nat
      BY <1>2, <1>3 DEF Confirmed, Reviewed, Priced
    <3>2. \A r \in DOMAIN shelf : Entry(shelf[r])
      BY DEF PriceInv, ReadsTyped
    <3>3. DOMAIN shelf' = DOMAIN shelf /\ \A r \in DOMAIN shelf :
            shelf'[r] = shelf[r] \/ shelf'[r] = [shelf[r] EXCEPT !.selling = u.price]
      BY <2>2
    <3>4. ASSUME NEW r \in DOMAIN shelf PROVE Entry([shelf[r] EXCEPT !.selling = u.price])
      BY <3>1, <3>2 DEF Entry
    <3> QED BY <1>1, <3>2, <3>3, <3>4 DEF PriceInv, ReadsTyped
  <2> QED BY <1>3, <2>1, <2>2 DEF SendPrice
<1>5. ASSUME NEW s \in sentPrices' PROVE SentFacts(s)'
  <2>1. CASE s \in sentPrices
    <3>1. SentFacts(s)
      BY <2>1 DEF PriceInv, SentInv
    <3> QED BY <1>1, <3>1 DEF SentFacts
  <2>2. CASE s \notin sentPrices
    <3>1. s = [place |-> k, row |-> Row(u), price |-> u.price, owner |-> pcall.owner, late |-> pcall.late]
      BY <1>1, <1>3, <2>2
    <3>2. s.place = k /\ s.row = Row(u) /\ s.price = u.price /\ s.owner = pcall.owner /\ s.late = pcall.late
      BY <3>1
    <3>3. pcall.owner = given.owner /\ ~pcall.late
      BY <1>2 DEF Applying
    <3>4. ~s.late
      BY <3>2, <3>3
    <3>5. Confirmed(u, s.place, given, looked[2][s.place])
      BY <1>2, <1>3, <3>2
    <3>6. SentFacts(s)
      BY <3>2, <3>3, <3>4, <3>5 DEF SentFacts
    <3> QED BY <1>1, <3>6 DEF SentFacts
  <2> QED BY <2>1, <2>2
<1>6. SentInv'
  BY <1>1, <1>5 DEF SentInv
<1> QED BY <1>1, <1>4, <1>6 DEF PriceInv, PriceCallTyped, PreviewFacts, ApplyFacts, SendFacts, FiledFacts

(* Prices move, but an entry stays an entry.                               *)
LEMMA PriceMovesKeeps ==
  ASSUME PriceAssumption, PriceInv, NEW r \in DOMAIN shelf, NEW p \in PortalPrices, PriceMoves(r, p)
  PROVE  PriceInv'
<1>1. /\ pcall' = pcall /\ looked' = looked /\ given' = given /\ filed' = filed /\ sentPrices' = sentPrices
      /\ shelf' = [shelf EXCEPT ![r].selling = p]
  BY DEF PriceMoves
<1>2. p \in Nat
  BY DEF PriceAssumption
<1>3. \A x \in DOMAIN shelf : Entry(shelf[x])
  BY DEF PriceInv, ReadsTyped
<1>4. DOMAIN shelf' = DOMAIN shelf /\ \A x \in DOMAIN shelf :
        shelf'[x] = shelf[x] \/ shelf'[x] = [shelf[x] EXCEPT !.selling = p]
  BY <1>1
<1>5. ASSUME NEW x \in DOMAIN shelf PROVE Entry([shelf[x] EXCEPT !.selling = p])
  BY <1>2, <1>3 DEF Entry
<1>6. ReadsTyped'
  BY <1>1, <1>3, <1>4, <1>5 DEF PriceInv, ReadsTyped
<1> QED BY <1>1, <1>6
        DEF PriceInv, PriceCallTyped, PreviewFacts, ApplyFacts, SendFacts, FiledFacts, SentInv, SentFacts

(* The store changes what it likes in a record, but not the hash.          *)
LEMMA StoreAltersKeeps ==
  ASSUME PriceInv, StoreAlters
  PROVE  PriceInv'
<1>1. /\ pcall.phase = "idle" /\ filed # NoFile
      /\ pcall' = pcall /\ looked' = looked /\ given' = given /\ sentPrices' = sentPrices /\ shelf' = shelf
  BY DEF StoreAlters
<1>2. "hash" \in DOMAIN filed /\ GoodSeal(filed.hash, given)
  BY <1>1 DEF PriceInv, FiledFacts
<1>3. "hash" \in DOMAIN filed' /\ filed'.hash = filed.hash
  BY <1>2 DEF StoreAlters
<1>4. FiledFacts'
  BY <1>1, <1>2, <1>3 DEF FiledFacts
<1> QED BY <1>1, <1>4
        DEF PriceInv, ReadsTyped, PriceCallTyped, PreviewFacts, ApplyFacts, SendFacts, SentInv, SentFacts

PriceRefs == <<shelf, pcall, filed, given, looked, sentPrices>>

(* The invariant is about six of the variables.                            *)
LEMMA PriceInvStays ==
  ASSUME PriceInv, UNCHANGED PriceRefs
  PROVE  PriceInv'
BY DEF PriceRefs, PriceInv, ReadsTyped, PriceCallTyped, PreviewFacts, ApplyFacts, SendFacts, FiledFacts, SentInv, SentFacts

(* Every step keeps the invariant, those of reads and discounts among      *)
(* them.                                                                   *)
LEMMA PriceInvKept ==
  ASSUME PriceAssumption, PriceInv, [PriceNext \/ PriceReadNext \/ DiscountNext]_priceVars
  PROVE  PriceInv'
<1>1. CASE UNCHANGED priceVars
  <2>1. UNCHANGED PriceRefs
    BY <1>1 DEF priceVars, PriceRefs
  <2> QED BY <2>1, PriceInvStays
<1>2. CASE PriceReadNext \/ DiscountNext
  <2>1. UNCHANGED PriceRefs
    BY <1>2 DEF PriceReadNext, DiscountNext, GetPrices, PreviewDiscount, ApplyDiscount, SubmitDiscountChunk, PriceRefs
  <2> QED BY <2>1, PriceInvStays
<1>3. ASSUME NEW us \in PriceLists, NEW o \in Owners, PreviewPrices(us, o) PROVE PriceInv'
  BY <1>3, PreviewPricesKeeps
<1>4. ASSUME NEW k \in 1 .. 3, ReadEntry(k) \/ SendPrice(k) PROVE PriceInv'
  BY <1>4, ReadEntryKeeps, SendPriceKeeps
<1>5. CASE FilePreview
  BY <1>5, FilePreviewKeeps
<1>6. CASE DecideApply
  BY <1>6, DecideApplyKeeps
<1>7. CASE PricesSent
  <2>1. /\ pcall.phase = "sending" /\ pcall' = [phase |-> "done"] /\ looked' = looked /\ given' = given
        /\ filed' = filed /\ sentPrices' = sentPrices /\ shelf' = shelf
    BY <1>7 DEF PricesSent
  <2> QED BY <2>1
          DEF PriceInv, ReadsTyped, PriceCallTyped, PreviewFacts, ApplyFacts, SendFacts, FiledFacts, SentInv, SentFacts
<1>8. ASSUME NEW o \in Owners, NEW kind \in {"priceUpdate", "inventoryUpdate"}, ApplyPrices(o, kind) PROVE PriceInv'
  BY <1>8, ApplyPricesKeeps
<1>9. ASSUME NEW r \in DOMAIN shelf, NEW p \in PortalPrices, PriceMoves(r, p) PROVE PriceInv'
  BY <1>9, PriceMovesKeeps
<1>10. CASE StoreAlters
  BY <1>10, StoreAltersKeeps
<1>11. CASE RestartServer \/ LifetimeEnds
  <2>1. UNCHANGED PriceRefs
    BY <1>11 DEF RestartServer, LifetimeEnds, PriceRefs
  <2> QED BY <2>1, PriceInvStays
<1> QED BY <1>1, <1>2, <1>3, <1>4, <1>5, <1>6, <1>7, <1>8, <1>9, <1>10, <1>11 DEF PriceNext

(* The property of one request, part by part. *)
AsWanted(s) ==
  s.price = given.list[CHOOSE i \in DOMAIN given.list :
                 /\ Row(given.list[i]) = s.row
                 /\ \A j \in DOMAIN given.list : Row(given.list[j]) = s.row => j <= i].price

AsShown(s) ==
  given.entries[s.place].selling # Unset /\ given.entries[s.place].selling = looked[2][s.place].selling

UnderMsrp(s) ==
  \A e \in {given.entries[s.place], looked[2][s.place]} : e.msrp # Unset /\ e.msrp > 0 => s.price <= e.msrp

InTime(s) == s.owner = given.owner /\ ~s.late

SentAsReviewed(s) ==
  AsWanted(s) /\ AsShown(s) /\ WithinLimit(s.price, given.entries[s.place].selling) /\ UnderMsrp(s) /\ InTime(s)

(* Whatever the store did and however prices moved, what is sent is what   *)
(* was reviewed: the invariant follows the hash from the preview on, and   *)
(* the checks of both passes to the requests.                              *)
THEOREM PricesGoAsReviewed == PriceSpec => []AppliedAsReviewed
<1>1. PriceInit => PriceInv
  <2> SUFFICES ASSUME PriceInit PROVE PriceInv
    OBVIOUS
  <2>1. /\ pcall = NoCall /\ filed = NoFile /\ sentPrices = {} /\ looked = [p \in {1, 2} |-> <<>>] /\ shelf \in Shelves
    BY DEF PriceInit
  <2>2. ReadsTyped
    <3>1. DOMAIN looked = {1, 2} /\ looked[1] = <<>> /\ looked[2] = <<>>
      BY <2>1
    <3>2. \A p \in {1, 2} : DOMAIN looked[p] = {}
      BY <3>1
    <3>3. \A r \in DOMAIN shelf : Entry(shelf[r])
      BY <2>1, PriceAssumption DEF PriceAssumption, Entry
    <3> QED BY <3>1, <3>2, <3>3 DEF ReadsTyped
  <2> QED BY <2>1, <2>2
          DEF PriceInv, PriceCallTyped, PreviewFacts, ApplyFacts, SendFacts, FiledFacts, SentInv, NoCall
<1>2. PriceInv /\ [PriceNext \/ PriceReadNext \/ DiscountNext]_priceVars => PriceInv'
  BY PriceAssumption, PriceInvKept
<1>3. PriceInv => AppliedAsReviewed
  <2> SUFFICES ASSUME PriceInv, NEW s \in sentPrices PROVE SentAsReviewed(s)
    BY DEF AppliedAsReviewed, SentAsReviewed, AsWanted, AsShown, WithinLimit, UnderMsrp, InTime
  <2>1. SentFacts(s)
    BY DEF PriceInv, SentInv
  <2>2. PICK u : Row(u) = s.row /\ u.price = s.price /\ Confirmed(u, s.place, given, looked[2][s.place])
    BY <2>1 DEF SentFacts
  <2> DEFINE before == given.entries[s.place]
             now    == looked[2][s.place]
             list   == given.list
  <2>4. /\ Priced(u) /\ Wanted(u, list) /\ ReadAs(before) /\ AllBlockers(u, before) = {}
        /\ ReadAs(now) /\ AllBlockers(u, now) = {} /\ PreviewedPrice(now) = PreviewedPrice(before)
    BY <2>2 DEF Confirmed, Reviewed
  <2> HIDE DEF before, now, list
  <2>5. maxPriceChangePercent \in Nat /\ Unset \notin Int
    BY PriceAssumption DEF PriceAssumption
  <2>6. /\ Entry(before) /\ before.selling \in Nat \ {0} /\ WithinLimit(u.price, before.selling)
        /\ before.msrp # Unset /\ before.msrp > 0 => u.price <= before.msrp
    BY <2>4, <2>5, NothingBlocks
  <2>7. Entry(now) /\ (now.msrp # Unset /\ now.msrp > 0 => u.price <= now.msrp)
    BY <2>4, <2>5, NothingBlocks
  <2>8. before.selling = now.selling
    <3>1. DOMAIN before # {} /\ DOMAIN now # {}
      BY <2>6, <2>7 DEF Entry
    <3> QED BY <2>4, <3>1 DEF PreviewedPrice
  <2>9. s.price = list[CHOOSE i \in DOMAIN list :
                         /\ Row(list[i]) = s.row
                         /\ \A j \in DOMAIN list : Row(list[j]) = s.row => j <= i].price
    <3>1. PICK i \in DOMAIN list : /\ Row(list[i]) = s.row /\ list[i].price = s.price
                                   /\ \A j \in DOMAIN list : Row(list[j]) = s.row => j <= i
      BY <2>2, <2>4 DEF Wanted
    <3>2. PICK c : c = CHOOSE x \in DOMAIN list : /\ Row(list[x]) = s.row
                                                 /\ \A j \in DOMAIN list : Row(list[j]) = s.row => j <= x
      OBVIOUS
    <3>3. c \in DOMAIN list /\ Row(list[c]) = s.row /\ \A j \in DOMAIN list : Row(list[j]) = s.row => j <= c
      BY <3>1, <3>2
    <3>4. c <= i /\ i <= c
      BY <3>1, <3>3
    <3>5. IsList(list)
      BY <2>4 DEF Wanted
    <3>6. c = i
      BY <3>1, <3>3, <3>4, <3>5 DEF IsList
    <3> QED BY <3>1, <3>2, <3>6
  <2>10. before.selling # Unset
    BY <2>5, <2>6
  <2>11. WithinLimit(s.price, given.entries[s.place].selling)
    BY <2>2, <2>6 DEF before
  <2>12. \A e \in {before, now} : e.msrp # Unset /\ e.msrp > 0 => s.price <= e.msrp
    BY <2>2, <2>6, <2>7
  <2>13. InTime(s)
    BY <2>1 DEF SentFacts, InTime
  <2>14. AsWanted(s)
    BY <2>9 DEF AsWanted, list
  <2>15. AsShown(s)
    BY <2>8, <2>10 DEF AsShown, before, now
  <2>16. UnderMsrp(s)
    BY <2>12 DEF UnderMsrp, before, now
  <2> QED BY <2>11, <2>13, <2>14, <2>15, <2>16 DEF SentAsReviewed
<1> QED BY <1>1, <1>2, <1>3, PTL DEF PriceSpec


-----------------------------------------------------------------------------
(* RMA and refund writes.                                                  *)

CallFields == {"phase", "stage", "plan", "read", "tool", "asOf", "previewed"}
ReadFields == {"rma", "order", "rmas", "courtesies", "cut", "missed"}

(* A plan that was validated.                                              *)
Sound(p) ==
  /\ p \in Plans
  /\ p.op = "refund" => p.amount > 0
  /\ p.op \in {"submit", "edit"} =>
       \A i, j \in DOMAIN p.items : p.items[i].sellerPartNumber = p.items[j].sellerPartNumber => i = j

IsCall(s) ==
  /\ DOMAIN s = CallFields /\ DOMAIN s.read = ReadFields
  /\ Sound(s.plan) /\ s.asOf \in Nat /\ s.asOf <= deskMoves

DeskTyped ==
  /\ DOMAIN rmas \subseteq RmaNumbers /\ DOMAIN courtesies \subseteq RefundIds
  /\ \A n \in DOMAIN rmas : IsRma(rmas[n])
  /\ \A c \in DOMAIN courtesies : IsRefund(courtesies[c])
  /\ order # Absent => /\ order.total \in Amounts
                       /\ \A i \in DOMAIN order.items : order.items[i].orderedQty \in Amounts

CallTyped ==
  /\ deskMoves \in Nat
  /\ service.phase # "idle" => IsCall(service)
  /\ plan # NoPlan => Sound(plan.input)

ServiceTyped == DeskTyped /\ CallTyped

(* What a read still shows as long as the desk has not moved.              *)
SeesRma(read, n) == read.rma = Absent \/ (n \in DOMAIN rmas /\ read.rma = Seen(n))

SeesRmas(read) ==
  /\ DOMAIN read.rmas \subseteq DOMAIN rmas
  /\ \A n \in DOMAIN read.rmas : read.rmas[n] = Seen(n)
  /\ (~read.cut /\ "rmas" \notin read.missed) =>
       \A n \in DOMAIN rmas : rmas[n].orderNumber = "o" => n \in DOMAIN read.rmas

SeesRefunds(read) ==
  /\ \A c \in DOMAIN read.courtesies :
       /\ c \in DOMAIN courtesies /\ courtesies[c].status \notin {"queued", "failed"}
       /\ read.courtesies[c] = SeenRefund(c)
  /\ (~read.cut /\ "refunds" \notin read.missed) =>
       \A c \in DOMAIN courtesies : /\ courtesies[c].status # "queued"
                                    /\ courtesies[c].status # "failed" => c \in DOMAIN read.courtesies

FreshReads(s) ==
  /\ s.phase \in {"lookup", "order"} => s.read.order = Absent
  /\ s.read.order # Absent => s.read.order = order /\ (s.plan.op = "edit" => s.read.rma.orderNumber = "o")
  /\ s.plan.op = "process" => s.phase \in {"lookup", "judge"}
  /\ (s.asOf = deskMoves /\ s.phase # "lookup" /\ s.plan.op \in {"edit", "process"}) => SeesRma(s.read, s.plan.rmaNumber)
  /\ (s.asOf = deskMoves /\ (s.phase = "refunds" \/ (s.phase = "judge" /\ s.read.order # Absent))) => SeesRmas(s.read)
  /\ (s.asOf = deskMoves /\ s.phase = "judge" /\ s.read.order # Absent) => SeesRefunds(s.read)

ReadsAreFresh == service.phase # "idle" => FreshReads(service)

(* The amounts a preview that was filed showed.                            *)
Promised(p, cents) ==
  /\ \A c \in cents : ~(c > maxRefundAmount)
  /\ (p.op \in {"submit", "edit"} /\ p.type = "refund") => cents = {ItemsCents(p.items)}
  /\ p.op = "refund" => cents = {p.amount}

(* Before a receipt: its second look found the money that was previewed.   *)
ReceiptChecked(s) ==
  (s.stage = "send" /\ s.plan.op = "process" /\ s.asOf = deskMoves) =>
    LET n == s.plan.rmaNumber IN
    (n \in DOMAIN rmas /\ rmas[n].hides = "nothing" /\ rmas[n].type = "refund") =>
      s.previewed = {RmaRefundCents(rmas[n])}

MoneyIsAsPreviewed ==
  /\ plan # NoPlan => Promised(plan.input, plan.refundCents)
  /\ (service.phase # "idle" /\ (service.tool \/ service.stage = "recheck") /\ service.stage # "preview") =>
       Promised(service.plan, service.previewed) /\ ReceiptChecked(service)

ServiceInv == ServiceTyped /\ ReadsAreFresh /\ MoneyIsAsPreviewed

(* A plan is one of those the assumption describes.                        *)
LEMMA PlansAre ==
  ASSUME NEW p, Sound(p)
  PROVE  /\ p.op \in DOMAIN WriteFields /\ DOMAIN p = WriteFields[p.op]
         /\ p.op \in {"submit", "edit", "process", "reject", "refund"}
         /\ p.op \in {"submit", "edit"} => p.type \in RmaTypes /\ AreLines(p.items)
         /\ p.op = "refund" => p.amount \in Nat
<1>1. p \in Plans /\ (p.op = "refund" => p.amount > 0)
  BY DEF Sound
<1>2. /\ p.op \in DOMAIN WriteFields /\ DOMAIN p = WriteFields[p.op]
      /\ p.op \in {"submit", "edit"} => p.type \in RmaTypes /\ AreLines(p.items)
      /\ p.op = "refund" => p.amount \in Int
  BY <1>1, ServiceAssumption
<1>3. DOMAIN WriteFields = {"submit", "edit", "process", "reject", "refund"}
  BY DEF WriteFields
<1>4. p.op = "refund" => p.amount \in Nat
  BY <1>1, <1>2
<1> QED BY <1>2, <1>3, <1>4

(* A validated plan stays sound: it names no part twice.                   *)
LEMMA ValidIsSound ==
  ASSUME NEW p \in Plans, ValidPlan(p)
  PROVE  Sound(p)
BY DEF ValidPlan, ValidItems, Sound

(* A call begins with nothing read.                                        *)
LEMMA Begins ==
  ASSUME ServiceTyped, NEW p, Sound(p), NEW stage, NEW tool, NEW asOf \in Nat, asOf <= deskMoves,
         NEW previewed, NEW s, s = Stage(stage, p, tool, asOf, previewed)
  PROVE  /\ s.stage = stage /\ s.plan = p /\ s.tool = tool /\ s.asOf = asOf /\ s.previewed = previewed
         /\ s.phase # "idle" /\ IsCall(s) /\ FreshReads(s)
<1>1. /\ s.stage = stage /\ s.plan = p /\ s.tool = tool /\ s.asOf = asOf /\ s.previewed = previewed
      /\ s.read = NothingRead /\ s.phase = FirstRead(p) /\ DOMAIN s = CallFields
  BY DEF Stage, CallFields
<1>2. DOMAIN NothingRead = ReadFields /\ NothingRead.order = Absent
  BY DEF NothingRead, ReadFields
<1>3. FirstRead(p) \in {"order", "lookup"} /\ (FirstRead(p) = "order" <=> p.op \in {"submit", "refund"})
  BY DEF FirstRead
<1>4. IsCall(s)
  BY <1>1, <1>2 DEF IsCall
<1>5. FreshReads(s)
  BY <1>1, <1>2, <1>3 DEF FreshReads
<1> QED BY <1>1, <1>3, <1>4, <1>5

(* The next read keeps the call and changes its phase and what was read.   *)
LEMMA ReadIs ==
  ASSUME service.phase # "idle", IsCall(service), NEW after, NEW read, NextRead(after, read)
  PROVE  /\ DOMAIN service' = CallFields
         /\ service'.phase = after /\ service'.read = read
         /\ service'.stage = service.stage /\ service'.plan = service.plan /\ service'.tool = service.tool
         /\ service'.asOf = service.asOf /\ service'.previewed = service.previewed
BY DEF NextRead, IsCall, CallFields

(* Another client's price leaves the lines lines.                          *)
LEMMA RepricedAreLines ==
  ASSUME NEW items, AreLines(items)
  PROVE  AreLines(Repriced(items))
<1> DEFINE new == Repriced(items)
           R == {new[i] : i \in DOMAIN new}
<1>1. DOMAIN new = DOMAIN items
  BY DEF Repriced
<1>2. \A i \in DOMAIN items :
        /\ new[i] = [f \in LineFields |-> new[i][f]] /\ new[i].returnQuantity \in Nat
        /\ new[i].returnUnitPrice \in Amounts /\ new[i].refundShippingPrice \in Amounts
  <2> SUFFICES ASSUME NEW i \in DOMAIN items
               PROVE  /\ new[i] = [f \in LineFields |-> new[i][f]] /\ new[i].returnQuantity \in Nat
                      /\ new[i].returnUnitPrice \in Amounts /\ new[i].refundShippingPrice \in Amounts
    OBVIOUS
  <2> DEFINE line == items[i]
  <2>1. /\ line = [f \in LineFields |-> line[f]] /\ line.returnQuantity \in Nat
        /\ line.returnUnitPrice \in Amounts /\ line.refundShippingPrice \in Amounts
    BY DEF AreLines
  <2>2. new[i] = IF i = 1 THEN [line EXCEPT !.returnUnitPrice = PortalPrice] ELSE line
    BY DEF Repriced
  <2>3. PortalPrice \in Amounts
    BY ServiceAssumption DEF Amounts
  <2> HIDE DEF line, new
  <2>4. CASE i = 1
    <3> DEFINE l == [line EXCEPT !.returnUnitPrice = PortalPrice]
    <3>1. l = [f \in LineFields |-> l[f]]
      BY <2>1
    <3>2. l.returnQuantity = line.returnQuantity /\ l.refundShippingPrice = line.refundShippingPrice
          /\ l.returnUnitPrice = PortalPrice
      BY <2>1 DEF LineFields
    <3>3. new[i] = l
      BY <2>2, <2>4
    <3> HIDE DEF l
    <3> QED BY <2>1, <2>3, <3>1, <3>2, <3>3
  <2>5. CASE i # 1
    BY <2>1, <2>2, <2>5
  <2> QED BY <2>4, <2>5
<1>3. new \in Seq(R)
  <2>1. items \in Seq({items[i] : i \in DOMAIN items})
    BY DEF AreLines
  <2>2. PICK n \in Nat : DOMAIN items = 1 .. n
    BY <2>1
  <2>3. new = [i \in DOMAIN new |-> new[i]]
    BY DEF Repriced
  <2> HIDE DEF new
  <2>4. new \in [1 .. n -> R]
    BY <1>1, <2>2, <2>3
  <2> HIDE DEF R
  <2> QED BY <2>4, IsASeq
<1> HIDE DEF new
<1>4. AreLines(new)
  BY <1>1, <1>2, <1>3 DEF AreLines
<1> QED BY <1>4 DEF new

(* An RMA of which the lines or the status are replaced is an RMA.         *)
LEMMA ReplacedIsRma ==
  ASSUME NEW r, IsRma(r)
  PROVE  /\ \A items : AreLines(items) => LET q == [r EXCEPT !.items = items] IN
              /\ IsRma(q) /\ q.items = items /\ q.status = r.status /\ q.type = r.type
              /\ q.orderNumber = r.orderNumber /\ q.hides = r.hides
         /\ \A status \in RmaStatuses : LET q == [r EXCEPT !.status = status] IN
              /\ IsRma(q) /\ q.items = r.items /\ q.status = status /\ q.type = r.type
              /\ q.orderNumber = r.orderNumber /\ q.hides = r.hides
BY DEF IsRma

(* What replacing one RMA does to all of them.                             *)
LEMMA OneReplaced ==
  ASSUME NEW n \in DOMAIN rmas, DeskTyped, NEW q, IsRma(q)
  PROVE  LET rs == [rmas EXCEPT ![n] = q] IN
         /\ DOMAIN rs = DOMAIN rmas /\ rs[n] = q
         /\ \A m \in DOMAIN rmas : IsRma(rs[m])
         /\ \A m \in DOMAIN rmas : m # n => rs[m] = rmas[m]
BY DEF DeskTyped

(* What the effect of a write leaves: everything as it was but for what it  *)
(* opens, edits, closes or pays.                                           *)
LEMMA EffectIs ==
  ASSUME ServiceTyped, NEW p, Sound(p), Accepts(p), Effect(p)
  PROVE  /\ order' = order
         /\ \/ /\ p.op = "submit" /\ courtesies' = courtesies
               /\ \E n \in RmaNumbers \ DOMAIN rmas : rmas' = Added(rmas, n, NewRma(p)) /\ IsRma(NewRma(p))
            \/ /\ p.op = "edit" /\ courtesies' = courtesies
               /\ p.rmaNumber \in DOMAIN rmas /\ rmas[p.rmaNumber].status = "open" /\ AreLines(p.items)
               /\ \E q : /\ rmas' = [rmas EXCEPT ![p.rmaNumber] = q] /\ q = [rmas[p.rmaNumber] EXCEPT !.items = p.items]
                         /\ IsRma(q)
            \/ /\ p.op \in {"process", "reject"} /\ courtesies' = courtesies
               /\ p.rmaNumber \in DOMAIN rmas
               /\ \E q : rmas' = [rmas EXCEPT ![p.rmaNumber] = q] /\ IsRma(q)
            \/ /\ p.op = "refund" /\ rmas' = rmas
               /\ \E c \in RefundIds \ DOMAIN courtesies :
                    courtesies' = Added(courtesies, c, NewRefund(p.amount, "queued")) /\ IsRefund(NewRefund(p.amount, "queued"))
<1>1. /\ p.op \in {"submit", "edit", "process", "reject", "refund"}
      /\ p.op \in {"submit", "edit"} => p.type \in RmaTypes /\ AreLines(p.items)
      /\ p.op = "refund" => p.amount \in Nat
  BY PlansAre
<1>2. order' = order /\ (p.op # "refund" => courtesies' = courtesies)
  BY DEF Effect
<1>3. CASE p.op = "submit"
  <2>1. PICK n \in RmaNumbers \ DOMAIN rmas : rmas' = Added(rmas, n, NewRma(p))
    BY <1>3 DEF Effect
  <2>2. IsRma(NewRma(p))
    <3> DEFINE q == NewRma(p)
    <3>1. /\ DOMAIN q = {"orderNumber", "type", "status", "items", "hides"} /\ q.type = p.type /\ q.items = p.items
          /\ q.status \in RmaStatuses
      BY DEF NewRma, RmaStatuses
    <3> HIDE DEF q
    <3>2. IsRma(q)
      BY <1>1, <1>3, <3>1 DEF IsRma
    <3> QED BY <3>2 DEF q
  <2> QED BY <1>2, <1>3, <2>1, <2>2
<1>4. CASE p.op \in {"edit", "process", "reject"}
  <2> DEFINE n == p.rmaNumber
             r == rmas[n]
  <2>1. n \in DOMAIN rmas /\ r.status = "open" /\ IsRma(r)
    BY <1>4 DEF Accepts, ServiceTyped, DeskTyped
  <2>2. CASE p.op = "edit"
    <3> DEFINE q == [r EXCEPT !.items = p.items]
    <3>1. rmas' = [rmas EXCEPT ![n] = q]
      BY <2>2 DEF Effect
    <3>2. IsRma(q)
      BY <1>1, <2>1, <2>2, ReplacedIsRma
    <3> QED BY <1>1, <1>2, <2>1, <2>2, <3>1, <3>2
  <2>3. CASE p.op = "process"
    <3> DEFINE q == [r EXCEPT !.status = "received"]
    <3>1. rmas' = [rmas EXCEPT ![n] = q]
      BY <2>3 DEF Effect
    <3>2. IsRma(q)
      BY <2>1, ReplacedIsRma DEF RmaStatuses
    <3> QED BY <1>2, <2>1, <2>3, <3>1, <3>2
  <2>4. CASE p.op = "reject"
    <3> DEFINE q == [r EXCEPT !.status = "rejected"]
    <3>1. rmas' = [rmas EXCEPT ![n] = q]
      BY <2>4 DEF Effect
    <3>2. IsRma(q)
      BY <2>1, ReplacedIsRma DEF RmaStatuses
    <3> QED BY <1>2, <2>1, <2>4, <3>1, <3>2
  <2> QED BY <1>4, <2>2, <2>3, <2>4
<1>5. CASE p.op = "refund"
  <2>1. rmas' = rmas /\ \E c \in RefundIds \ DOMAIN courtesies : courtesies' = Added(courtesies, c, NewRefund(p.amount, "queued"))
    BY <1>5 DEF Effect
  <2>2. IsRefund(NewRefund(p.amount, "queued"))
    BY <1>1, <1>5 DEF IsRefund, NewRefund, RefundStatuses
  <2> QED BY <1>2, <1>5, <2>1, <2>2
<1> QED BY <1>1, <1>3, <1>4, <1>5

(* What Newegg adds keeps what it held.                                    *)
LEMMA AddedIs ==
  ASSUME NEW held, NEW name, NEW new
  PROVE  /\ DOMAIN Added(held, name, new) = DOMAIN held \cup {name} /\ Added(held, name, new)[name] = new
         /\ \A n \in DOMAIN held : n # name => Added(held, name, new)[n] = held[n]
BY DEF Added

(* The invariant holds before any call.                                    *)
LEMMA ServiceStarts == ServiceInit => ServiceInv
<1> SUFFICES ASSUME ServiceInit PROVE ServiceInv
  OBVIOUS
<1>1. PICK d \in Desks : order = d.order /\ rmas = d.rmas /\ courtesies = d.courtesies
  BY DEF ServiceInit
<1>2. DeskTyped
  BY <1>1, ServiceAssumption DEF DeskTyped
<1>3. deskMoves = 0 /\ service = NoService /\ plan = NoPlan /\ service.phase = "idle"
  BY DEF ServiceInit, NoService
<1> QED BY <1>2, <1>3 DEF ServiceInv, ServiceTyped, CallTyped, ReadsAreFresh, MoneyIsAsPreviewed

(* A step that leaves the desk alone leaves what reads show of it alone.   *)
LEMMA DeskAlone ==
  ASSUME UNCHANGED <<rmaSite, desk, deskMoves>>
  PROVE  /\ DeskTyped => DeskTyped'
         /\ \A s : IsCall(s)' <=> IsCall(s)
         /\ \A s : FreshReads(s)' <=> FreshReads(s)
         /\ \A s : ReceiptChecked(s)' <=> ReceiptChecked(s)
         /\ \A n : Seen(n)' = Seen(n)
<1>1. rmas' = rmas /\ order' = order /\ courtesies' = courtesies /\ deskMoves' = deskMoves
  BY DEF desk
<1>2. DeskTyped => DeskTyped'
  BY <1>1 DEF DeskTyped
<1>3. \A s : IsCall(s)' <=> IsCall(s)
  BY <1>1 DEF IsCall
<1>4. \A n : Seen(n)' = Seen(n)
  BY <1>1 DEF Seen
<1>5. \A n : SeenRefund(n)' = SeenRefund(n)
  BY <1>1 DEF SeenRefund
<1>6. \A r : (SeesRmas(r)' <=> SeesRmas(r)) /\ (SeesRefunds(r)' <=> SeesRefunds(r)) /\ \A n : SeesRma(r, n)' <=> SeesRma(r, n)
  BY <1>1, <1>4, <1>5 DEF SeesRmas, SeesRefunds, SeesRma
<1>7. \A s : FreshReads(s)' <=> FreshReads(s)
  BY <1>1, <1>6 DEF FreshReads
<1>8. \A s : ReceiptChecked(s)' <=> ReceiptChecked(s)
  BY <1>1 DEF ReceiptChecked
<1> QED BY <1>2, <1>3, <1>4, <1>7, <1>8

(* A call that is made.                                                    *)
LEMMA CallKeeps ==
  ASSUME ServiceInv, NEW p \in Plans, NEW tool \in BOOLEAN, CallService(p, tool)
  PROVE  ServiceInv'
<1> DEFINE stage == IF tool THEN "preview" ELSE "send"
<1>0. PICK s : s = Stage(stage, p, tool, deskMoves, {})
  OBVIOUS
<1>1. service' = s /\ UNCHANGED <<rmaSite, desk, deskMoves, plan, lastWrite>> /\ Sound(p)
  BY <1>0, ValidIsSound DEF CallService
<1>2. ServiceTyped /\ deskMoves \in Nat
  BY DEF ServiceInv, ServiceTyped, CallTyped
<1>3. /\ s.stage = stage /\ s.plan = p /\ s.tool = tool /\ s.asOf = deskMoves /\ s.previewed = {}
      /\ s.phase # "idle" /\ IsCall(s) /\ FreshReads(s)
  <2>1. deskMoves <= deskMoves
    BY <1>2
  <2> HIDE DEF stage
  <2> QED BY <1>0, <1>1, <1>2, <2>1, Begins
<1>4. DeskTyped' /\ IsCall(s)' /\ FreshReads(s)' /\ deskMoves' = deskMoves
  BY <1>1, <1>2, <1>3, DeskAlone DEF ServiceTyped
<1>5. ServiceTyped' /\ ReadsAreFresh'
  BY <1>1, <1>2, <1>4 DEF ServiceTyped, CallTyped, ReadsAreFresh
<1>6. MoneyIsAsPreviewed'
  BY <1>1, <1>3 DEF MoneyIsAsPreviewed, ServiceInv
<1> QED BY <1>5, <1>6 DEF ServiceInv

(* A preview that is applied.                                              *)
LEMMA ApplyKeeps ==
  ASSUME ServiceInv, ApplyPlan
  PROVE  ServiceInv'
<1> DEFINE p == plan.input
           stage == IF p.op \in Rechecked THEN "recheck" ELSE "send"
<1>0. PICK s : s = Stage(stage, p, TRUE, deskMoves, plan.refundCents)
  OBVIOUS
<1>1. /\ service' = s /\ plan' = NoPlan /\ plan # NoPlan /\ UNCHANGED <<rmaSite, desk, deskMoves>>
  BY <1>0 DEF ApplyPlan
<1>2. ServiceTyped /\ deskMoves \in Nat /\ Sound(p) /\ Promised(p, plan.refundCents)
  BY <1>1 DEF ServiceInv, ServiceTyped, CallTyped, MoneyIsAsPreviewed
<1>3. /\ s.stage = stage /\ s.plan = p /\ s.tool = TRUE /\ s.asOf = deskMoves /\ s.previewed = plan.refundCents
      /\ s.phase # "idle" /\ IsCall(s) /\ FreshReads(s)
  <2> HIDE DEF p, stage
  <2>1. deskMoves <= deskMoves
    BY <1>2
  <2>2. PICK tool \in BOOLEAN : tool = TRUE
    OBVIOUS
  <2>3. s = Stage(stage, p, tool, deskMoves, plan.refundCents)
    BY <1>0, <2>2
  <2>4. /\ s.stage = stage /\ s.plan = p /\ s.tool = tool /\ s.asOf = deskMoves /\ s.previewed = plan.refundCents
        /\ s.phase # "idle" /\ IsCall(s) /\ FreshReads(s)
    BY <1>2, <2>1, <2>3, Begins
  <2> QED BY <2>2, <2>4
<1>4. DeskTyped' /\ IsCall(s)' /\ FreshReads(s)' /\ deskMoves' = deskMoves
  BY <1>1, <1>2, <1>3, DeskAlone DEF ServiceTyped
<1>5. ServiceTyped' /\ ReadsAreFresh'
  BY <1>1, <1>2, <1>4 DEF ServiceTyped, CallTyped, ReadsAreFresh
<1>6. stage = "send" => p.op # "process"
  BY DEF Rechecked
<1> HIDE DEF p, stage
<1>7. ReceiptChecked(s)'
  BY <1>3, <1>6 DEF ReceiptChecked
<1>8. Promised(s.plan, s.previewed)
  BY <1>2, <1>3 DEF p
<1>9. MoneyIsAsPreviewed'
  BY <1>1, <1>7, <1>8 DEF MoneyIsAsPreviewed, Promised
<1> QED BY <1>5, <1>9 DEF ServiceInv

(* A read keeps the invariant if what it adds is what the desk shows.      *)
LEMMA ReadKeeps ==
  ASSUME ServiceInv, service.phase # "idle", NEW after, after # "idle", NEW read, NextRead(after, read),
         DOMAIN read = ReadFields,
         FreshReads(service'), UNCHANGED <<rmaSite, desk, deskMoves, serviceCalls, plan, lastWrite>>
  PROVE  ServiceInv'
<1>1. ServiceTyped /\ IsCall(service)
  BY DEF ServiceInv, ServiceTyped, CallTyped
<1>2. /\ DOMAIN service' = CallFields
      /\ service'.phase = after /\ service'.read = read
      /\ service'.stage = service.stage /\ service'.plan = service.plan /\ service'.tool = service.tool
      /\ service'.asOf = service.asOf /\ service'.previewed = service.previewed
  BY <1>1, ReadIs
<1>3. \E s : s = service'
  OBVIOUS
<1>4. PICK s : s = service'
  BY <1>3
<1>5. IsCall(s) /\ FreshReads(s)
  BY <1>1, <1>2, <1>4 DEF IsCall
<1>6. DeskTyped' /\ IsCall(s)' /\ FreshReads(s)' /\ (ReceiptChecked(s)' <=> ReceiptChecked(s)) /\ deskMoves' = deskMoves
  BY <1>1, <1>5, DeskAlone DEF ServiceTyped
<1>7. ServiceTyped' /\ ReadsAreFresh'
  BY <1>1, <1>4, <1>6 DEF ServiceTyped, CallTyped, ReadsAreFresh
<1>8. ReceiptChecked(s) <=> ReceiptChecked(service)
  BY <1>2, <1>4 DEF ReceiptChecked
<1>9. MoneyIsAsPreviewed'
  BY <1>2, <1>4, <1>6, <1>8 DEF MoneyIsAsPreviewed, Promised, ServiceInv
<1> QED BY <1>7, <1>9 DEF ServiceInv

(* Every read of a call shows the desk as it is.                           *)
LEMMA LookUpKeeps ==
  ASSUME ServiceInv, LookUpRma
  PROVE  ServiceInv'
<1> DEFINE p == service.plan
           n == p.rmaNumber
<1>1. /\ service.phase = "lookup" /\ IsCall(service) /\ FreshReads(service)
      /\ UNCHANGED <<rmaSite, desk, deskMoves, serviceCalls, plan, lastWrite>>
  BY DEF LookUpRma, ServiceInv, ServiceTyped, CallTyped, ReadsAreFresh
<1>2. PICK found \in {Absent} \cup (IF n \in DOMAIN rmas THEN {Seen(n)} ELSE {}) :
        NextRead(IF p.op = "edit" /\ found # Absent /\ found.orderNumber # NotRead THEN "order" ELSE "judge",
                 [service.read EXCEPT !.rma = found])
  BY DEF LookUpRma
<1>3. PICK after : after = IF p.op = "edit" /\ found # Absent /\ found.orderNumber # NotRead THEN "order" ELSE "judge"
  OBVIOUS
<1>4. PICK read : read = [service.read EXCEPT !.rma = found]
  OBVIOUS
<1>5. DOMAIN read = ReadFields /\ read.rma = found /\ read.order = Absent
  BY <1>1, <1>4 DEF IsCall, ReadFields, FreshReads
<1>6. NextRead(after, read) /\ after \in {"order", "judge"} /\ (p.op # "edit" => after = "judge")
  BY <1>2, <1>3, <1>4
<1>7. /\ service'.phase = after /\ service'.read = read /\ service'.plan = service.plan /\ service'.asOf = service.asOf
  BY <1>1, <1>6, ReadIs
<1>8. FreshReads(service')
  <2>1. SeesRma(read, n)
    BY <1>2, <1>5 DEF SeesRma
  <2>2. p.op \in {"submit", "edit", "process", "reject", "refund"}
    BY <1>1, PlansAre DEF IsCall
  <2> QED BY <1>5, <1>6, <1>7, <2>1, <2>2 DEF FreshReads
<1> QED BY <1>1, <1>5, <1>6, <1>8, ReadKeeps

(* So does the read of the order: what it found is the order, and an RMA   *)
(* that is edited is on it.                                                *)
LEMMA ReadOrderKeeps ==
  ASSUME ServiceInv, ReadOrder
  PROVE  ServiceInv'
<1> DEFINE p == service.plan
<1>1. /\ service.phase = "order" /\ IsCall(service) /\ FreshReads(service)
      /\ UNCHANGED <<rmaSite, desk, deskMoves, serviceCalls, plan, lastWrite>>
  BY DEF ReadOrder, ServiceInv, ServiceTyped, CallTyped, ReadsAreFresh
<1>2. PICK found : found = IF p.op = "edit" /\ service.read.rma.orderNumber # "o" THEN Absent ELSE order
  OBVIOUS
<1>3. PICK read : read = [service.read EXCEPT !.order = found]
  OBVIOUS
<1>4. PICK after : after = IF found = Absent THEN "judge" ELSE "rmas"
  OBVIOUS
<1>5. NextRead(after, read)
  BY <1>2, <1>3, <1>4 DEF ReadOrder
<1>6. DOMAIN read = ReadFields /\ read.order = found /\ read.rma = service.read.rma
  BY <1>1, <1>3 DEF IsCall, ReadFields
<1>7. /\ service'.phase = after /\ service'.read = read /\ service'.plan = service.plan /\ service'.asOf = service.asOf
  BY <1>1, <1>5, ReadIs
<1>8. FreshReads(service')
  <2>1. p.op # "process"
    BY <1>1 DEF FreshReads
  <2>2. read.order # Absent => read.order = order /\ (p.op = "edit" => read.rma.orderNumber = "o") /\ after = "rmas"
    BY <1>2, <1>4, <1>6
  <2>3. (service.asOf = deskMoves /\ p.op \in {"edit", "process"}) => SeesRma(service.read, p.rmaNumber)
    BY <1>1 DEF FreshReads
  <2>4. SeesRma(service.read, p.rmaNumber) => SeesRma(read, p.rmaNumber)
    BY <1>6 DEF SeesRma
  <2>5. after \in {"judge", "rmas"}
    BY <1>4
  <2> HIDE DEF p
  <2> QED BY <1>6, <1>7, <2>1, <2>2, <2>3, <2>4, <2>5 DEF FreshReads, p
<1>9. after # "idle"
  BY <1>4
<1> QED BY <1>1, <1>5, <1>6, <1>8, <1>9, ReadKeeps

(* The list of RMAs, if no row of it is missing, has all that are on the   *)
(* order.                                                                  *)
LEMMA ReadRmasKeeps ==
  ASSUME ServiceInv, ReadRmas
  PROVE  ServiceInv'
<1> DEFINE p == service.plan
<1>1. /\ service.phase = "rmas" /\ IsCall(service) /\ FreshReads(service)
      /\ UNCHANGED <<rmaSite, desk, deskMoves, serviceCalls, plan, lastWrite>>
  BY DEF ReadRmas, ServiceInv, ServiceTyped, CallTyped, ReadsAreFresh
<1>2. PICK listed, rows, cut, missed :
        /\ listed \in SUBSET DOMAIN rmas /\ rows \subseteq listed
        /\ \A n \in DOMAIN rmas : rmas[n].orderNumber = "o" => n \in listed
        /\ (~cut /\ "rmas" \notin missed) => \A n \in listed \ rows : rmas[n].orderNumber # "o"
        /\ NextRead("refunds",
             [service.read EXCEPT
                !.rmas = [n \in {m \in rows : Seen(m).orderNumber \in {NotRead, "o"}} |-> Seen(n)],
                !.cut = cut, !.missed = missed])
  <2>1. PICK loose \in BOOLEAN, counted \in BOOLEAN :
          LET listed == {n \in DOMAIN rmas : rmas[n].orderNumber = "o" \/ loose} IN
          \E rows \in {listed} \cup {listed \ {n} : n \in listed} :
            NextRead("refunds",
              [service.read EXCEPT
                 !.rmas = [n \in {m \in rows : Seen(m).orderNumber \in {NotRead, "o"}} |-> Seen(n)],
                 !.cut = counted /\ rows # listed,
                 !.missed = When(~counted /\ \E n \in listed \ rows : rmas[n].orderNumber = "o", "rmas")])
    BY DEF ReadRmas
  <2> DEFINE listed == {n \in DOMAIN rmas : rmas[n].orderNumber = "o" \/ loose}
  <2>3. listed \in SUBSET DOMAIN rmas /\ \A n \in DOMAIN rmas : rmas[n].orderNumber = "o" => n \in listed
    OBVIOUS
  <2>9. \E rows \in {listed} \cup {listed \ {n} : n \in listed} :
          NextRead("refunds",
            [service.read EXCEPT
               !.rmas = [n \in {m \in rows : Seen(m).orderNumber \in {NotRead, "o"}} |-> Seen(n)],
               !.cut = counted /\ rows # listed,
               !.missed = When(~counted /\ \E n \in listed \ rows : rmas[n].orderNumber = "o", "rmas")])
    BY <2>1
  <2> HIDE DEF listed
  <2>4. PICK rows \in {listed} \cup {listed \ {n} : n \in listed} :
          NextRead("refunds",
            [service.read EXCEPT
               !.rmas = [n \in {m \in rows : Seen(m).orderNumber \in {NotRead, "o"}} |-> Seen(n)],
               !.cut = counted /\ rows # listed,
               !.missed = When(~counted /\ \E n \in listed \ rows : rmas[n].orderNumber = "o", "rmas")])
    BY <2>9
  <2>5. rows \subseteq listed
    BY <2>4
  <2>6. PICK cut, missed :
          /\ cut = (counted /\ rows # listed)
          /\ missed = When(~counted /\ \E n \in listed \ rows : rmas[n].orderNumber = "o", "rmas")
    OBVIOUS
  <2>7. (~cut /\ "rmas" \notin missed) => \A n \in listed \ rows : rmas[n].orderNumber # "o"
    <3>1. CASE counted
      BY <2>6, <3>1
    <3>2. CASE ~counted
      <4>1. "rmas" \notin missed => ~\E n \in listed \ rows : rmas[n].orderNumber = "o"
        BY <2>6, <3>2 DEF When
      <4> QED BY <4>1
    <3> QED BY <3>1, <3>2
  <2>8. NextRead("refunds",
          [service.read EXCEPT
             !.rmas = [n \in {m \in rows : Seen(m).orderNumber \in {NotRead, "o"}} |-> Seen(n)],
             !.cut = cut, !.missed = missed])
    BY <2>4, <2>6
  <2> QED BY <2>3, <2>5, <2>7, <2>8
<1>3. PICK names : names = {m \in rows : Seen(m).orderNumber \in {NotRead, "o"}}
  OBVIOUS
<1>4. PICK read : read = [service.read EXCEPT !.rmas = [n \in names |-> Seen(n)], !.cut = cut, !.missed = missed]
  OBVIOUS
<1>5. NextRead("refunds", read)
  BY <1>2, <1>3, <1>4
<1>6. /\ DOMAIN read = ReadFields /\ read.order = service.read.order /\ read.rma = service.read.rma
      /\ read.rmas = [n \in names |-> Seen(n)] /\ read.cut = cut /\ read.missed = missed
  BY <1>1, <1>4 DEF IsCall, ReadFields
<1>7. /\ service'.phase = "refunds" /\ service'.read = read /\ service'.plan = service.plan /\ service'.asOf = service.asOf
  BY <1>1, <1>5, ReadIs
<1>8. SeesRmas(read)
  <2>1. DOMAIN read.rmas = names /\ \A n \in names : read.rmas[n] = Seen(n)
    BY <1>6
  <2>2. \A n \in DOMAIN rmas : rmas[n].orderNumber = "o" => Seen(n).orderNumber \in {NotRead, "o"}
    BY DEF Seen
  <2>3. names \subseteq DOMAIN rmas
    BY <1>2, <1>3
  <2>4. (~read.cut /\ "rmas" \notin read.missed) => \A n \in DOMAIN rmas : rmas[n].orderNumber = "o" => n \in names
    BY <1>2, <1>3, <1>6, <2>2
  <2> QED BY <2>1, <2>3, <2>4 DEF SeesRmas
<1>9. FreshReads(service')
  <2>1. p.op # "process"
    BY <1>1 DEF FreshReads
  <2>2. read.order # Absent => read.order = order /\ (p.op = "edit" => read.rma.orderNumber = "o")
    BY <1>1, <1>6 DEF FreshReads
  <2>3. (service.asOf = deskMoves /\ p.op \in {"edit", "process"}) => SeesRma(service.read, p.rmaNumber)
    BY <1>1 DEF FreshReads
  <2>4. SeesRma(service.read, p.rmaNumber) => SeesRma(read, p.rmaNumber)
    BY <1>6 DEF SeesRma
  <2> HIDE DEF p
  <2> QED BY <1>7, <1>8, <2>1, <2>2, <2>3, <2>4 DEF FreshReads, p
<1> QED BY <1>1, <1>5, <1>6, <1>9, ReadKeeps

(* The list of courtesy refunds, if no row is missing, has them all.       *)
LEMMA ReadRefundsKeeps ==
  ASSUME ServiceInv, ReadRefunds
  PROVE  ServiceInv'
<1> DEFINE p == service.plan
<1>1. /\ service.phase = "refunds" /\ IsCall(service) /\ FreshReads(service)
      /\ UNCHANGED <<rmaSite, desk, deskMoves, serviceCalls, plan, lastWrite>>
  BY DEF ReadRefunds, ServiceInv, ServiceTyped, CallTyped, ReadsAreFresh
<1>2. PICK rows, cut, missed :
        /\ \A c \in rows : c \in DOMAIN courtesies /\ courtesies[c].status \notin {"queued", "failed"}
        /\ ~cut => ~service.read.cut
        /\ (~cut /\ "refunds" \notin missed) =>
             \A c \in DOMAIN courtesies : /\ courtesies[c].status # "queued"
                                          /\ courtesies[c].status # "failed" => c \in rows
        /\ "rmas" \in service.read.missed => "rmas" \in missed
        /\ NextRead("judge", [service.read EXCEPT !.courtesies = [c \in rows |-> SeenRefund(c)],
                                                 !.cut = cut, !.missed = missed])
  <2>1. PICK counted \in BOOLEAN :
          LET listed == {c \in DOMAIN courtesies : courtesies[c].status \notin {"queued", "failed"}} IN
          \E rows \in {listed} \cup {listed \ {c} : c \in listed} :
            NextRead("judge",
              [service.read EXCEPT
                 !.courtesies = [c \in rows |-> SeenRefund(c)],
                 !.cut = @ \/ (counted /\ rows # listed),
                 !.missed = @ \cup When(\/ ~counted /\ rows # listed
                                        \/ \E c \in DOMAIN courtesies : courtesies[c].status = "queued", "refunds")])
    BY DEF ReadRefunds
  <2>2. PICK listed : listed = {c \in DOMAIN courtesies : courtesies[c].status \notin {"queued", "failed"}}
    OBVIOUS
  <2>3. PICK rows \in {listed} \cup {listed \ {c} : c \in listed} :
            NextRead("judge",
              [service.read EXCEPT
                 !.courtesies = [c \in rows |-> SeenRefund(c)],
                 !.cut = @ \/ (counted /\ rows # listed),
                 !.missed = @ \cup When(\/ ~counted /\ rows # listed
                                        \/ \E c \in DOMAIN courtesies : courtesies[c].status = "queued", "refunds")])
    BY <2>1, <2>2
  <2>4. PICK cut, left, missed :
          /\ cut = (service.read.cut \/ (counted /\ rows # listed))
          /\ left = When(\/ ~counted /\ rows # listed
                         \/ \E c \in DOMAIN courtesies : courtesies[c].status = "queued", "refunds")
          /\ missed = service.read.missed \cup left
    OBVIOUS
  <2>5. NextRead("judge", [service.read EXCEPT !.courtesies = [c \in rows |-> SeenRefund(c)],
                                             !.cut = cut, !.missed = missed])
    <3>1. [service.read EXCEPT
             !.courtesies = [c \in rows |-> SeenRefund(c)],
             !.cut = @ \/ (counted /\ rows # listed),
             !.missed = @ \cup When(\/ ~counted /\ rows # listed
                                    \/ \E c \in DOMAIN courtesies : courtesies[c].status = "queued", "refunds")]
            = [service.read EXCEPT !.courtesies = [c \in rows |-> SeenRefund(c)], !.cut = cut, !.missed = missed]
      BY <2>4, <1>1 DEF IsCall, ReadFields
    <3> QED BY <2>3, <3>1
  <2>6. ~cut => ~service.read.cut
    BY <2>4
  <2>7. rows \subseteq listed
    BY <2>3
  <2>8. ASSUME ~cut, "refunds" \notin missed
        PROVE  \A c \in DOMAIN courtesies : courtesies[c].status # "queued" /\ (courtesies[c].status # "failed" => c \in rows)
    <3>1. "refunds" \notin left
      BY <2>4, <2>8
    <3>2. ~(~counted /\ rows # listed) /\ ~\E c \in DOMAIN courtesies : courtesies[c].status = "queued"
      BY <2>4, <3>1 DEF When
    <3>3. rows = listed
      BY <2>4, <2>8, <3>2
    <3> QED BY <2>2, <3>2, <3>3
  <2>9. "rmas" \in service.read.missed => "rmas" \in missed
    BY <2>4
  <2> QED BY <2>2, <2>5, <2>6, <2>7, <2>8, <2>9
<1>3. PICK read : read = [service.read EXCEPT !.courtesies = [c \in rows |-> SeenRefund(c)], !.cut = cut, !.missed = missed]
  OBVIOUS
<1>4. NextRead("judge", read)
  BY <1>2, <1>3
<1>5. /\ DOMAIN read = ReadFields /\ read.order = service.read.order /\ read.rma = service.read.rma
      /\ read.rmas = service.read.rmas /\ read.courtesies = [c \in rows |-> SeenRefund(c)]
      /\ read.cut = cut /\ read.missed = missed
  BY <1>1, <1>3 DEF IsCall, ReadFields
<1>6. /\ ~read.cut => ~service.read.cut
      /\ "rmas" \notin read.missed => "rmas" \notin service.read.missed
  BY <1>2, <1>5
<1>7. /\ service'.phase = "judge" /\ service'.read = read /\ service'.plan = service.plan /\ service'.asOf = service.asOf
  BY <1>1, <1>4, ReadIs
<1>8. SeesRefunds(read)
  <2>1. DOMAIN read.courtesies = rows /\ \A c \in rows : read.courtesies[c] = SeenRefund(c)
    BY <1>5
  <2> QED BY <1>2, <1>5, <2>1 DEF SeesRefunds
<1>9. FreshReads(service')
  <2>1. p.op # "process"
    BY <1>1 DEF FreshReads
  <2>2. read.order # Absent => read.order = order /\ (p.op = "edit" => read.rma.orderNumber = "o")
    BY <1>1, <1>5 DEF FreshReads
  <2>3. /\ (service.asOf = deskMoves /\ p.op \in {"edit", "process"}) => SeesRma(service.read, p.rmaNumber)
        /\ service.asOf = deskMoves => SeesRmas(service.read)
    BY <1>1 DEF FreshReads
  <2>4. /\ SeesRma(service.read, p.rmaNumber) => SeesRma(read, p.rmaNumber)
        /\ SeesRmas(service.read) => SeesRmas(read)
    BY <1>5, <1>6 DEF SeesRma, SeesRmas
  <2> HIDE DEF p
  <2> QED BY <1>7, <1>8, <2>1, <2>2, <2>3, <2>4 DEF FreshReads, p
<1> QED BY <1>1, <1>4, <1>5, <1>9, ReadKeeps

(* A product of natural numbers is one.                                    *)
LEMMA Product == ASSUME NEW a \in Nat, NEW b \in Nat PROVE a * b \in Nat
OBVIOUS

(* Lines of which each field is a number or missing.                       *)
LinesRead(items) ==
  /\ IsFiniteSet(DOMAIN items)
  /\ \A i \in DOMAIN items : /\ items[i].returnQuantity \in Amounts
                             /\ items[i].returnUnitPrice \in Amounts /\ items[i].refundShippingPrice \in Amounts

(* The lines of RMAs and plans are such, and finitely many.                *)
LEMMA ReadableLines ==
  ASSUME NEW items, AreLines(items)
  PROVE  LinesRead(items) /\ \E n \in Nat : DOMAIN items = 1 .. n
<1>1. items \in Seq({items[i] : i \in DOMAIN items})
  BY DEF AreLines
<1>2. PICK n \in Nat : DOMAIN items = 1 .. n
  BY <1>1
<1>3. IsFiniteSet(DOMAIN items)
  BY <1>2, FS_Interval
<1> QED BY <1>2, <1>3 DEF AreLines, LinesRead, Amounts

(* What lines refund is an amount, line by line and together.              *)
LEMMA LineCentsAre ==
  ASSUME NEW line, line.returnQuantity \in Amounts,
         line.returnUnitPrice \in Amounts, line.refundShippingPrice \in Amounts
  PROVE  LineRefundCents(line) \in Nat
<1>1. \A x \in Amounts : OrZero(x) \in Nat
  BY DEF Amounts, OrZero
<1>2. OrZero(line.returnUnitPrice) * OrZero(line.returnQuantity) \in Nat
  BY <1>1, Product
<1> QED BY <1>1, <1>2 DEF LineRefundCents

(* ... and together.                                                       *)
LEMMA ItemsCentsAre ==
  ASSUME NEW items, LinesRead(items)
  PROVE  ItemsCents(items) \in Nat
<1> DEFINE D == DOMAIN items
           f == [i \in D |-> LineRefundCents(items[i])]
<1>1. IsFiniteSet(D) /\ D \subseteq D /\ DOMAIN f = D
  BY DEF LinesRead
<1>2. \A i \in D : f[i] \in Nat
  BY LineCentsAre DEF LinesRead
<1>3. \A i \in D : f[i] <= f[i]
  BY <1>2
<1>4. ItemsCents(items) = SumFunctionOnSet(f, D)
  BY <1>1 DEF ItemsCents, SumFunction
<1> HIDE DEF f, D
<1>5. SumFunctionOnSet(f, D) \in Nat
  BY <1>1, <1>2, <1>3, SumsCompare
<1> QED BY <1>4, <1>5

(* What an answer shows of an RMA's lines: all but the hidden field.       *)
LEMMA SeenLines ==
  ASSUME DeskTyped, NEW n \in DOMAIN rmas
  PROVE  LET r == rmas[n]
             answered == Seen(n).items IN
         /\ r.hides = "lines" => answered = <<>>
         /\ r.hides # "lines" =>
              /\ DOMAIN answered = DOMAIN r.items
              /\ \A i \in DOMAIN r.items :
                   /\ answered[i].sellerPartNumber = IF i = 1 /\ r.hides = "part" THEN NotRead ELSE r.items[i].sellerPartNumber
                   /\ answered[i].returnQuantity = IF i = 1 /\ r.hides = "quantity" THEN NotRead ELSE r.items[i].returnQuantity
                   /\ answered[i].returnUnitPrice = IF i = 1 /\ r.hides = "price" THEN NotRead ELSE r.items[i].returnUnitPrice
                   /\ answered[i].refundShippingPrice =
                        IF i = 1 /\ r.hides = "shipping" THEN NotRead ELSE r.items[i].refundShippingPrice
<1> DEFINE r == rmas[n]
           answered == Seen(n).items
<1>1. AreLines(r.items)
  BY DEF DeskTyped, IsRma
<1>2. answered = IF r.hides = "lines" THEN <<>>
             ELSE [i \in DOMAIN r.items |-> IF i = 1 THEN SeenLine(r.items[i], r.hides) ELSE r.items[i]]
  BY DEF Seen
<1>3. ASSUME NEW i \in DOMAIN r.items
      PROVE  LET line == SeenLine(r.items[i], r.hides) IN
             /\ line.sellerPartNumber = IF r.hides = "part" THEN NotRead ELSE r.items[i].sellerPartNumber
             /\ line.returnQuantity = IF r.hides = "quantity" THEN NotRead ELSE r.items[i].returnQuantity
             /\ line.returnUnitPrice = IF r.hides = "price" THEN NotRead ELSE r.items[i].returnUnitPrice
             /\ line.refundShippingPrice = IF r.hides = "shipping" THEN NotRead ELSE r.items[i].refundShippingPrice
  <2>1. PICK line : line = r.items[i]
    OBVIOUS
  <2>2. DOMAIN line = LineFields
    BY <1>1, <2>1 DEF AreLines
  <2>3. PICK h : h = r.hides
    OBVIOUS
  <2>4. LET l == SeenLine(line, h) IN
        /\ l.sellerPartNumber = IF h = "part" THEN NotRead ELSE line.sellerPartNumber
        /\ l.returnQuantity = IF h = "quantity" THEN NotRead ELSE line.returnQuantity
        /\ l.returnUnitPrice = IF h = "price" THEN NotRead ELSE line.returnUnitPrice
        /\ l.refundShippingPrice = IF h = "shipping" THEN NotRead ELSE line.refundShippingPrice
    BY <2>2 DEF SeenLine, LineFields
  <2> QED BY <2>1, <2>3, <2>4
<1> HIDE DEF r, answered
<1>4. r.hides = "lines" => answered = <<>>
  BY <1>2
<1>5. r.hides # "lines" => DOMAIN answered = DOMAIN r.items
  BY <1>2
<1>6. ASSUME NEW i \in DOMAIN r.items, r.hides # "lines"
      PROVE  /\ answered[i].sellerPartNumber = IF i = 1 /\ r.hides = "part" THEN NotRead ELSE r.items[i].sellerPartNumber
             /\ answered[i].returnQuantity = IF i = 1 /\ r.hides = "quantity" THEN NotRead ELSE r.items[i].returnQuantity
             /\ answered[i].returnUnitPrice = IF i = 1 /\ r.hides = "price" THEN NotRead ELSE r.items[i].returnUnitPrice
             /\ answered[i].refundShippingPrice =
                  IF i = 1 /\ r.hides = "shipping" THEN NotRead ELSE r.items[i].refundShippingPrice
  <2>1. answered[i] = IF i = 1 THEN SeenLine(r.items[i], r.hides) ELSE r.items[i]
    BY <1>2, <1>6
  <2>2. CASE i = 1
    BY <1>3, <2>1, <2>2
  <2>3. CASE i # 1
    BY <2>1, <2>3
  <2> QED BY <2>2, <2>3
<1> QED BY <1>4, <1>5, <1>6 DEF r, answered

(* Lines that refund the same, one by one, refund the same.                *)
LEMMA SameCents ==
  ASSUME NEW items, NEW others, DOMAIN items = DOMAIN others,
         \A i \in DOMAIN items : LineRefundCents(items[i]) = LineRefundCents(others[i])
  PROVE  ItemsCents(items) = ItemsCents(others)
<1>1. [i \in DOMAIN items |-> LineRefundCents(items[i])] = [i \in DOMAIN others |-> LineRefundCents(others[i])]
  OBVIOUS
<1> QED BY <1>1 DEF ItemsCents

(* An answer that hides no field of the money shows the money that is      *)
(* there.                                                                  *)
LEMMA SeenMoney ==
  ASSUME DeskTyped, NEW n \in DOMAIN rmas, rmas[n].hides \notin {"lines", "shipping"},
         rmas[n].hides \in {"quantity", "price"} => DOMAIN rmas[n].items = {}
  PROVE  ItemsCents(Seen(n).items) = ItemsCents(rmas[n].items)
<1> DEFINE items == rmas[n].items
           answered == Seen(n).items
<1>1. /\ DOMAIN answered = DOMAIN items
      /\ \A i \in DOMAIN items : /\ answered[i].returnQuantity = items[i].returnQuantity
                                 /\ answered[i].returnUnitPrice = items[i].returnUnitPrice
                                 /\ answered[i].refundShippingPrice = items[i].refundShippingPrice
  BY SeenLines
<1> HIDE DEF items, answered
<1>2. \A i \in DOMAIN items : LineRefundCents(items[i]) = LineRefundCents(answered[i])
  BY <1>1 DEF LineRefundCents
<1>3. ItemsCents(items) = ItemsCents(answered)
  BY <1>1, <1>2, SameCents
<1> QED BY <1>3 DEF items, answered

(* What ends a call keeps the invariant.                                   *)
LEMMA EndingKeeps ==
  ASSUME ServiceInv, service' = NoService, plan' = plan \/ (Sound(plan'.input) /\ Promised(plan'.input, plan'.refundCents)),
         UNCHANGED <<rmaSite, desk, deskMoves>>
  PROVE  ServiceInv'
<1>1. service'.phase = "idle" /\ deskMoves' = deskMoves
  BY DEF NoService
<1>2. DeskTyped'
  BY DeskAlone DEF ServiceInv, ServiceTyped
<1>3. deskMoves \in Nat /\ (plan # NoPlan => Sound(plan.input) /\ Promised(plan.input, plan.refundCents))
  BY DEF ServiceInv, ServiceTyped, CallTyped, MoneyIsAsPreviewed
<1>4. plan' # NoPlan => Sound(plan'.input) /\ Promised(plan'.input, plan'.refundCents)
  BY <1>3
<1>5. (plan # NoPlan => Sound(plan.input))' /\ (plan # NoPlan => Promised(plan.input, plan.refundCents))'
  BY <1>4 DEF Sound, Promised
<1> QED BY <1>1, <1>2, <1>3, <1>5 DEF ServiceInv, ServiceTyped, CallTyped, ReadsAreFresh, MoneyIsAsPreviewed

(* A call that gives up, and a write that does not take effect.            *)
LEMMA GiveUpKeeps ==
  ASSUME ServiceInv, GiveUp \/ SendInVain
  PROVE  ServiceInv'
<1>1. service' = NoService /\ plan' = plan /\ UNCHANGED <<rmaSite, desk, deskMoves>>
  BY DEF GiveUp, SendInVain
<1> QED BY <1>1, EndingKeeps

(* A preview is filed with the money it showed: within the ceiling, and    *)
(* never an amount that only looks like none.                              *)
LEMMA FileKeeps ==
  ASSUME ServiceInv, FileServicePlan
  PROVE  ServiceInv'
<1> DEFINE p == service.plan
<1>1. service' = NoService /\ UNCHANGED <<rmaSite, desk, deskMoves>> /\ Sound(p)
  BY DEF FileServicePlan, Judged, ServiceInv, ServiceTyped, CallTyped, IsCall
<1>2. CASE Found \cup CeilingBlockers(Money) = {}
  <2>1. PICK cents : cents = Money
    OBVIOUS
  <2>2. plan' = [kind |-> p.op, input |-> p, refundCents |-> cents]
    BY <1>2, <2>1 DEF FileServicePlan
  <2>3. plan'.input = p /\ plan'.refundCents = cents
    BY <2>2
  <2>4. \A c \in cents : ~(c > maxRefundAmount) /\ ~(c <= 0)
    <3> SUFFICES ASSUME NEW c \in cents PROVE ~(c > maxRefundAmount) /\ ~(c <= 0)
      OBVIOUS
    <3>1. When(c > maxRefundAmount, "above the ceiling") \cup When(c <= 0, "not readable") = {}
      BY <1>2, <2>1 DEF CeilingBlockers
    <3> QED BY <3>1 DEF When
  <2>5. cents = RefundTotal(p, service.read)
    BY <2>1 DEF Money
  <2>6. (p.op \in {"submit", "edit"} /\ p.type = "refund") => cents = {ItemsCents(p.items)}
    <3> SUFFICES ASSUME p.op \in {"submit", "edit"}, p.type = "refund" PROVE cents = {ItemsCents(p.items)}
      OBVIOUS
    <3>1. cents = {IF service.read.order = Absent THEN 0 ELSE ItemsCents(p.items)}
      BY <2>5 DEF RefundTotal
    <3>2. service.read.order # Absent
      <4> SUFFICES ASSUME service.read.order = Absent PROVE FALSE
        OBVIOUS
      <4>1. 0 \in cents
        BY <3>1
      <4>2. ~(0 <= 0)
        BY <2>4, <4>1
      <4> QED BY <4>2
    <3> QED BY <3>1, <3>2
  <2>7. p.op = "refund" => cents = {p.amount}
    BY <2>5 DEF RefundTotal
  <2>8. Promised(p, cents)
    BY <2>4, <2>6, <2>7 DEF Promised
  <2> QED BY <1>1, <2>3, <2>8, EndingKeeps
<1>3. CASE Found \cup CeilingBlockers(Money) # {}
  <2>1. plan' = plan
    BY <1>3 DEF FileServicePlan
  <2> QED BY <1>1, <2>1, EndingKeeps
<1> QED BY <1>2, <1>3

(* A receipt that passes its second look releases what was previewed.      *)
LEMMA RecheckFinds ==
  ASSUME ServiceInv, Recheck, Found = {}, SameMoney(Money, service.previewed),
         service.plan.op = "process", service.asOf = deskMoves,
         service.plan.rmaNumber \in DOMAIN rmas, rmas[service.plan.rmaNumber].hides = "nothing",
         rmas[service.plan.rmaNumber].type = "refund"
  PROVE  service.previewed = {RmaRefundCents(rmas[service.plan.rmaNumber])}
<1> DEFINE p == service.plan
           n == p.rmaNumber
<1>1. service.phase = "judge" /\ SeesRma(service.read, n) /\ DeskTyped
  BY DEF Recheck, Judged, ServiceInv, ServiceTyped, ReadsAreFresh, FreshReads
<1>2. Found = ProcessBlockers(service.read) /\ service.previewed = RefundTotal(p, service.read)
  BY DEF Found, Money, SameMoney, PlanBlockers
<1>3. service.read.rma # Absent
  BY <1>2 DEF ProcessBlockers, StateBlockers
<1>4. service.read.rma = Seen(n)
  BY <1>1, <1>3 DEF SeesRma
<1>5. Seen(n).type = "refund"
  BY DEF Seen
<1>6. service.previewed = {RmaRefundCents(Seen(n))}
  BY <1>2, <1>3, <1>4, <1>5 DEF RefundTotal
<1>7. RmaRefundCents(Seen(n)) = ItemsCents(Seen(n).items)
  BY <1>5 DEF RmaRefundCents
<1>8. ItemsCents(Seen(n).items) = ItemsCents(rmas[n].items)
  BY <1>1, SeenMoney
<1>9. RmaRefundCents(rmas[n]) = ItemsCents(rmas[n].items)
  BY DEF RmaRefundCents
<1> QED BY <1>6, <1>7, <1>8, <1>9

(* The second look sends what was previewed, or ends the call.             *)
LEMMA RecheckKeeps ==
  ASSUME ServiceInv, Recheck
  PROVE  ServiceInv'
<1> DEFINE goes == /\ Found = {} /\ SameMoney(Money, service.previewed)
                   /\ \A cents \in Money : cents <= maxRefundAmount
<1>1. /\ service.phase # "idle" /\ IsCall(service) /\ service.stage = "recheck" /\ ServiceTyped /\ deskMoves \in Nat
      /\ UNCHANGED <<rmaSite, desk, deskMoves, plan>>
  BY DEF Recheck, Judged, ServiceInv, ServiceTyped, CallTyped
<1>2. CASE goes
  <2> DEFINE p == service.plan
             previewed == service.previewed
             tool == TRUE
  <2>1. PICK yes \in BOOLEAN : yes = TRUE
    OBVIOUS
  <2>2. PICK s : s = Stage("send", p, yes, service.asOf, previewed)
    OBVIOUS
  <2>3. service' = s
    BY <1>2, <2>1, <2>2 DEF Recheck
  <2>4. /\ s.stage = "send" /\ s.plan = p /\ s.tool = yes /\ s.asOf = service.asOf /\ s.previewed = previewed
        /\ s.phase # "idle" /\ IsCall(s) /\ FreshReads(s)
    <3>1. Sound(p) /\ service.asOf \in Nat /\ service.asOf <= deskMoves
      BY <1>1 DEF IsCall
    <3>2. PICK stage : stage = "send"
      OBVIOUS
    <3>4. s = Stage(stage, p, yes, service.asOf, previewed)
      BY <2>2, <3>2
    <3> HIDE DEF p, previewed
    <3>5. /\ s.stage = stage /\ s.plan = p /\ s.tool = yes /\ s.asOf = service.asOf /\ s.previewed = previewed
          /\ s.phase # "idle" /\ IsCall(s) /\ FreshReads(s)
      BY <1>1, <3>1, <3>4, Begins
    <3> QED BY <3>2, <3>5
  <2>5. DeskTyped' /\ IsCall(s)' /\ FreshReads(s)' /\ (ReceiptChecked(s)' <=> ReceiptChecked(s)) /\ deskMoves' = deskMoves
    BY <1>1, <2>4, DeskAlone DEF ServiceTyped
  <2>6. ServiceTyped' /\ ReadsAreFresh'
    BY <1>1, <2>3, <2>5 DEF ServiceTyped, CallTyped, ReadsAreFresh
  <2>7. ReceiptChecked(s)
    <3> SUFFICES ASSUME p.op = "process", service.asOf = deskMoves, p.rmaNumber \in DOMAIN rmas,
                        rmas[p.rmaNumber].hides = "nothing", rmas[p.rmaNumber].type = "refund"
                 PROVE  previewed = {RmaRefundCents(rmas[p.rmaNumber])}
      BY <2>4 DEF ReceiptChecked
    <3> QED BY <1>2, RecheckFinds
  <2>8. Promised(p, previewed)
    BY <1>1 DEF ServiceInv, MoneyIsAsPreviewed
  <2>9. MoneyIsAsPreviewed'
    BY <1>1, <2>3, <2>4, <2>5, <2>7, <2>8 DEF MoneyIsAsPreviewed, Promised, ServiceInv
  <2> QED BY <2>6, <2>9 DEF ServiceInv
<1>3. CASE ~goes
  <2>1. service' = NoService
    BY <1>3 DEF Recheck
  <2> QED BY <1>1, <2>1, EndingKeeps
<1> QED BY <1>2, <1>3

(* A write that takes effect leaves a desk that is typed, and no call.     *)
LEMMA SendKeeps ==
  ASSUME ServiceInv, SendService
  PROVE  ServiceInv'
<1>1. /\ service' = NoService /\ plan' = plan /\ deskMoves' = deskMoves
      /\ Sound(service.plan) /\ Accepts(service.plan) /\ Effect(service.plan) /\ ServiceTyped
  BY DEF SendService, Judged, ServiceInv, ServiceTyped, CallTyped, IsCall
<1>2. PICK p : p = service.plan
  OBVIOUS
<1>3. Sound(p) /\ Accepts(p) /\ Effect(p)
  BY <1>1, <1>2
<1>4. /\ DOMAIN rmas \subseteq RmaNumbers /\ DOMAIN courtesies \subseteq RefundIds
      /\ \A n \in DOMAIN rmas : IsRma(rmas[n])
      /\ \A c \in DOMAIN courtesies : IsRefund(courtesies[c])
  BY <1>1 DEF ServiceTyped, DeskTyped
<1>5. /\ DOMAIN rmas' \subseteq RmaNumbers /\ \A n \in DOMAIN rmas' : IsRma(rmas'[n])
      /\ DOMAIN courtesies' \subseteq RefundIds /\ \A c \in DOMAIN courtesies' : IsRefund(courtesies'[c])
  <2>1. CASE \E n \in RmaNumbers \ DOMAIN rmas : rmas' = Added(rmas, n, NewRma(p)) /\ IsRma(NewRma(p)) /\ courtesies' = courtesies
    <3>1. PICK n, new : n \in RmaNumbers /\ rmas' = Added(rmas, n, new) /\ IsRma(new) /\ courtesies' = courtesies
      BY <2>1
    <3>2. DOMAIN rmas' = DOMAIN rmas \cup {n} /\ rmas'[n] = new /\ \A m \in DOMAIN rmas : m # n => rmas'[m] = rmas[m]
      BY <3>1 DEF Added
    <3> QED BY <1>4, <3>1, <3>2
  <2>2. CASE \E n, q : n \in DOMAIN rmas /\ rmas' = [rmas EXCEPT ![n] = q] /\ IsRma(q) /\ courtesies' = courtesies
    <3>1. PICK n, q : n \in DOMAIN rmas /\ rmas' = [rmas EXCEPT ![n] = q] /\ IsRma(q) /\ courtesies' = courtesies
      BY <2>2
    <3> QED BY <1>1, <1>4, <3>1, OneReplaced DEF ServiceTyped
  <2>3. CASE /\ rmas' = rmas
             /\ \E c \in RefundIds \ DOMAIN courtesies :
                  courtesies' = Added(courtesies, c, NewRefund(p.amount, "queued")) /\ IsRefund(NewRefund(p.amount, "queued"))
    <3>1. PICK c, new : c \in RefundIds /\ courtesies' = Added(courtesies, c, new) /\ IsRefund(new)
      BY <2>3
    <3>2. /\ DOMAIN courtesies' = DOMAIN courtesies \cup {c} /\ courtesies'[c] = new
          /\ \A d \in DOMAIN courtesies : d # c => courtesies'[d] = courtesies[d]
      BY <3>1 DEF Added
    <3> QED BY <1>4, <2>3, <3>1, <3>2
  <2> QED BY <1>1, <1>3, <2>1, <2>2, <2>3, EffectIs
<1>6. order' = order
  BY <1>3 DEF Effect
<1>7. DeskTyped'
  BY <1>1, <1>5, <1>6 DEF ServiceTyped, DeskTyped
<1>8. service'.phase = "idle" /\ deskMoves \in Nat
  BY <1>1 DEF NoService, ServiceTyped, CallTyped
<1>9. /\ (plan # NoPlan => Sound(plan.input))'
      /\ (plan # NoPlan => Promised(plan.input, plan.refundCents))'
  BY <1>1 DEF ServiceInv, ServiceTyped, CallTyped, MoneyIsAsPreviewed, Sound, Promised
<1> QED BY <1>1, <1>7, <1>8, <1>9 DEF ServiceInv, ServiceTyped, CallTyped, ReadsAreFresh, MoneyIsAsPreviewed

(* After the desk moved by itself, no call's reads are fresh.              *)
LEMMA DeskMovesKeeps ==
  ASSUME ServiceInv, DeskMoves
  PROVE  ServiceInv'
<1> DEFINE Typed == /\ DOMAIN rmas' \subseteq RmaNumbers /\ \A n \in DOMAIN rmas' : IsRma(rmas'[n])
                    /\ DOMAIN courtesies' \subseteq RefundIds /\ \A c \in DOMAIN courtesies' : IsRefund(courtesies'[c])
<1>1. /\ deskMoves' = deskMoves + 1 /\ deskMoves \in Nat /\ ServiceTyped
      /\ service' = service /\ plan' = plan /\ order' = order
  BY DEF DeskMoves, ServiceInv, ServiceTyped, CallTyped
<1>2. /\ DOMAIN rmas \subseteq RmaNumbers /\ DOMAIN courtesies \subseteq RefundIds
      /\ \A n \in DOMAIN rmas : IsRma(rmas[n])
      /\ \A c \in DOMAIN courtesies : IsRefund(courtesies[c])
  BY <1>1 DEF ServiceTyped, DeskTyped
<1>3. Typed
  <2>1. ASSUME NEW n \in DOMAIN rmas, NEW q, rmas' = [rmas EXCEPT ![n] = q], IsRma(q), courtesies' = courtesies
        PROVE  Typed
    BY <1>1, <1>2, <2>1, OneReplaced DEF ServiceTyped
  <2>2. ASSUME NEW n \in DOMAIN rmas, NEW status \in {"received", "voided"},
               rmas' = [rmas EXCEPT ![n].status = status], courtesies' = courtesies
        PROVE  Typed
    <3>1. PICK q : q = [rmas[n] EXCEPT !.status = status]
      OBVIOUS
    <3>2. IsRma(q) /\ rmas' = [rmas EXCEPT ![n] = q]
      BY <1>2, <2>2, <3>1, ReplacedIsRma DEF RmaStatuses
    <3> QED BY <2>1, <2>2, <3>2
  <2>3. ASSUME NEW n \in DOMAIN rmas, rmas' = [rmas EXCEPT ![n].items = Repriced(@)], courtesies' = courtesies
        PROVE  Typed
    <3>1. PICK items : items = Repriced(rmas[n].items)
      OBVIOUS
    <3>2. PICK q : q = [rmas[n] EXCEPT !.items = items]
      OBVIOUS
    <3>3. AreLines(items)
      BY <1>2, <3>1, RepricedAreLines DEF IsRma
    <3>4. IsRma(q) /\ rmas' = [rmas EXCEPT ![n] = q]
      BY <1>2, <2>3, <3>1, <3>2, <3>3, ReplacedIsRma
    <3> QED BY <2>1, <2>3, <3>4
  <2>4. ASSUME NEW c \in RefundIds \ DOMAIN courtesies, courtesies' = Added(courtesies, c, NewRefund(PortalPrice, "open")), rmas' = rmas
        PROVE  Typed
    <3>1. PICK new : new = NewRefund(PortalPrice, "open")
      OBVIOUS
    <3>2. IsRefund(new)
      BY <3>1, ServiceAssumption DEF NewRefund, IsRefund, RefundStatuses
    <3>3. courtesies' = Added(courtesies, c, new)
      BY <2>4, <3>1
    <3>4. /\ DOMAIN courtesies' = DOMAIN courtesies \cup {c} /\ courtesies'[c] = new
          /\ \A d \in DOMAIN courtesies : d # c => courtesies'[d] = courtesies[d]
      BY <3>3 DEF Added
    <3> QED BY <1>2, <2>4, <3>2, <3>4
  <2> QED BY <2>2, <2>3, <2>4 DEF DeskMoves
<1>4. DeskTyped'
  BY <1>1, <1>3 DEF ServiceTyped, DeskTyped
<1>5. PICK s : s = service
  OBVIOUS
<1>6. s.phase # "idle" => IsCall(s) /\ FreshReads(s) /\ s.asOf <= deskMoves' /\ s.asOf # deskMoves'
  BY <1>1, <1>5 DEF ServiceInv, ServiceTyped, CallTyped, ReadsAreFresh, IsCall
<1>7. s.phase # "idle" => IsCall(s)'
  BY <1>6 DEF IsCall
<1>8. s.phase # "idle" => FreshReads(s)'
  BY <1>1, <1>6 DEF FreshReads
<1>9. s.phase # "idle" => ReceiptChecked(s)'
  BY <1>6 DEF ReceiptChecked
<1>10. CallTyped'
  BY <1>1, <1>5, <1>7 DEF CallTyped, ServiceTyped
<1>11. MoneyIsAsPreviewed'
  BY <1>1, <1>5, <1>9 DEF MoneyIsAsPreviewed, ServiceInv, Promised
<1> QED BY <1>1, <1>4, <1>5, <1>8, <1>10, <1>11 DEF ServiceInv, ServiceTyped, ReadsAreFresh

(* Newegg's queue changes no refund that a read lists, and while something *)
(* waits in it the list is not taken for the whole.                        *)
LEMMA QueueMovesKeeps ==
  ASSUME ServiceInv, QueueMoves
  PROVE  ServiceInv'
<1>1. PICK c \in DOMAIN courtesies, status \in {"open", "failed"} :
        courtesies[c].status = "queued" /\ courtesies' = [courtesies EXCEPT ![c].status = status]
  BY DEF QueueMoves
<1>2. /\ order' = order /\ rmas' = rmas /\ deskMoves' = deskMoves /\ service' = service /\ plan' = plan
      /\ ServiceTyped /\ DeskTyped
  BY DEF QueueMoves, ServiceInv, ServiceTyped
<1>3. PICK q : q = [courtesies[c] EXCEPT !.status = status]
  OBVIOUS
<1>4. IsRefund(q)
  <2>1. IsRefund(courtesies[c])
    BY <1>2 DEF DeskTyped
  <2> QED BY <1>3, <2>1 DEF IsRefund, RefundStatuses
<1>5. /\ DOMAIN courtesies' = DOMAIN courtesies /\ courtesies'[c] = q
      /\ \A d \in DOMAIN courtesies : d # c => courtesies'[d] = courtesies[d]
  BY <1>1, <1>3
<1>6. DeskTyped'
  BY <1>2, <1>4, <1>5 DEF DeskTyped
<1>7. \A n : Seen(n)' = Seen(n)
  BY <1>2 DEF Seen
<1>8. \A r : (SeesRmas(r)' <=> SeesRmas(r)) /\ \A n : SeesRma(r, n)' <=> SeesRma(r, n)
  BY <1>2, <1>7 DEF SeesRmas, SeesRma
<1>9. ASSUME NEW r, SeesRefunds(r) PROVE SeesRefunds(r)'
  <2>1. c \notin DOMAIN r.courtesies
    BY <1>1, <1>9 DEF SeesRefunds
  <2>2. \A d \in DOMAIN r.courtesies :
          /\ d \in DOMAIN courtesies' /\ courtesies'[d].status \notin {"queued", "failed"}
          /\ r.courtesies[d] = SeenRefund(d)'
    BY <1>5, <1>9, <2>1 DEF SeesRefunds, SeenRefund
  <2>3. ~(~r.cut /\ "refunds" \notin r.missed)
    BY <1>1, <1>9 DEF SeesRefunds
  <2> QED BY <2>2, <2>3 DEF SeesRefunds
<1>10. PICK s : s = service
  OBVIOUS
<1>11. FreshReads(s) => FreshReads(s)'
  BY <1>2, <1>8, <1>9 DEF FreshReads
<1>12. ReadsAreFresh'
  BY <1>2, <1>10, <1>11 DEF ReadsAreFresh, ServiceInv
<1>13. CallTyped'
  BY <1>2 DEF ServiceTyped, CallTyped, IsCall, Sound
<1>14. ReceiptChecked(s) => ReceiptChecked(s)'
  BY <1>2 DEF ReceiptChecked
<1>15. MoneyIsAsPreviewed'
  BY <1>2, <1>10, <1>14 DEF MoneyIsAsPreviewed, ServiceInv, Promised
<1> QED BY <1>6, <1>12, <1>13, <1>15 DEF ServiceInv, ServiceTyped

(* Every step keeps the invariant, and only a send that takes effect       *)
(* changes what is known of the last write.                                *)
LEMMA ServiceKeeps == ServiceInv /\ [ServiceNext]_serviceVars => ServiceInv'
<1> SUFFICES ASSUME ServiceInv, [ServiceNext]_serviceVars PROVE ServiceInv'
  OBVIOUS
<1>1. CASE \E p \in Plans, tool \in BOOLEAN : CallService(p, tool)
  BY <1>1, CallKeeps
<1>2. CASE ApplyPlan
  BY <1>2, ApplyKeeps
<1>3. CASE LookUpRma \/ ReadOrder \/ ReadRmas \/ ReadRefunds
  BY <1>3, LookUpKeeps, ReadOrderKeeps, ReadRmasKeeps, ReadRefundsKeeps
<1>4. CASE GiveUp \/ SendInVain
  BY <1>4, GiveUpKeeps
<1>5. CASE FileServicePlan
  BY <1>5, FileKeeps
<1>6. CASE Recheck
  BY <1>6, RecheckKeeps
<1>7. CASE SendService
  BY <1>7, SendKeeps
<1>8. CASE DeskMoves
  BY <1>8, DeskMovesKeeps
<1>10. CASE QueueMoves
  BY <1>10, QueueMovesKeeps
<1>9. CASE UNCHANGED serviceVars
  <2>1. UNCHANGED <<rmaSite, desk, deskMoves>> /\ service' = service /\ plan' = plan
    BY <1>9 DEF serviceVars, desk
  <2>2. PICK s : s = service
    OBVIOUS
  <2>3. DeskTyped' /\ (IsCall(s)' <=> IsCall(s)) /\ (FreshReads(s)' <=> FreshReads(s))
        /\ (ReceiptChecked(s)' <=> ReceiptChecked(s)) /\ deskMoves' = deskMoves
    BY <2>1, DeskAlone DEF ServiceInv, ServiceTyped
  <2>4. CallTyped'
    BY <2>1, <2>2, <2>3 DEF CallTyped, ServiceInv, ServiceTyped, Sound
  <2>5. MoneyIsAsPreviewed'
    BY <2>1, <2>2, <2>3 DEF MoneyIsAsPreviewed, ServiceInv, Promised
  <2> QED BY <2>1, <2>2, <2>3, <2>4, <2>5 DEF ServiceInv, ServiceTyped, ReadsAreFresh
<1> QED BY <1>1, <1>2, <1>3, <1>4, <1>5, <1>6, <1>7, <1>8, <1>9, <1>10 DEF ServiceNext

(* Only a send that takes effect changes what is known of the last write.  *)
LEMMA OnlySendWrites ==
  ASSUME [ServiceNext]_serviceVars, ~SendService
  PROVE  lastWrite' = lastWrite /\ order' = order
BY DEF ServiceNext, serviceVars, desk, CallService, ApplyPlan, LookUpRma, ReadOrder, ReadRmas, ReadRefunds, GiveUp,
       FileServicePlan, Recheck, SendInVain, DeskMoves, QueueMoves

(* What is noted of a write.                                               *)
LEMMA WriteNoted ==
  ASSUME SendService
  PROVE  /\ lastWrite'.op = service.plan.op /\ lastWrite'.plan = service.plan /\ lastWrite'.tool = service.tool
         /\ lastWrite'.fresh = (service.asOf = deskMoves) /\ lastWrite'.previewed = service.previewed
         /\ lastWrite'.released = Released(service.plan) /\ lastWrite'.missed = service.read.missed
         /\ lastWrite'.rmas = rmas' /\ lastWrite'.courtesies = courtesies'
         /\ lastWrite'.hidden = {rmas[n].hides : n \in {m \in DOMAIN rmas : IsActiveRma(rmas[m])}}
BY DEF SendService

(* The money a write of a tool releases is what its preview showed.        *)
LEMMA ReleaseIsPreviewed ==
  ASSUME ServiceInv, SendService
  PROVE  ReleasesAsPreviewed'
<1> DEFINE p == service.plan
           n == p.rmaNumber
           money == Released(p)
<1>1. /\ service.phase = "judge" /\ service.stage = "send" /\ Sound(p) /\ Accepts(p) /\ DeskTyped
  BY DEF SendService, Judged, ServiceInv, ServiceTyped, CallTyped, IsCall
<1>2. SUFFICES ASSUME service.tool, money > 0
               PROVE  \/ p.op = "process" /\ (service.asOf # deskMoves \/ lastWrite'.hidden # {"nothing"})
                      \/ service.previewed = {money} /\ money <= maxRefundAmount
  <2> HIDE DEF p, n, money
  <2> QED BY WriteNoted DEF ReleasesAsPreviewed, p, money
<1>3. Promised(p, service.previewed) /\ ReceiptChecked(service)
  BY <1>1, <1>2 DEF ServiceInv, MoneyIsAsPreviewed
<1>4. /\ p.op \in {"submit", "edit", "process", "reject", "refund"}
      /\ p.op \in {"submit", "edit"} => p.type \in RmaTypes /\ AreLines(p.items)
      /\ p.op = "refund" => p.amount \in Nat
  BY <1>1, PlansAre
<1>5. maxRefundAmount \in Nat
  BY ServiceAssumption
<1>6. CASE p.op \in {"submit", "edit"}
  <2>1. p.type = "refund" /\ money = ItemsCents(p.items)
    BY <1>2, <1>6 DEF Released
  <2>2. service.previewed = {money}
    BY <1>3, <1>6, <2>1 DEF Promised
  <2>3. money \in Nat
    BY <1>4, <1>6, <2>1, ReadableLines, ItemsCentsAre
  <2>4. ~(money > maxRefundAmount)
    BY <1>3, <2>2 DEF Promised
  <2> HIDE DEF money
  <2> QED BY <1>5, <2>2, <2>3, <2>4
<1>7. CASE p.op = "refund"
  <2>1. money = p.amount /\ service.previewed = {p.amount}
    BY <1>3, <1>7 DEF Released, Promised
  <2>2. ~(money > maxRefundAmount)
    BY <1>3, <2>1 DEF Promised
  <2> HIDE DEF money
  <2> QED BY <1>4, <1>5, <1>7, <2>1, <2>2
<1>8. CASE p.op = "reject"
  BY <1>2, <1>8 DEF Released
<1>9. CASE p.op = "process"
  <2>1. n \in DOMAIN rmas /\ rmas[n].status = "open" /\ money = RmaRefundCents(rmas[n])
    BY <1>1, <1>9 DEF Accepts, Released
  <2>2. SUFFICES ASSUME service.asOf = deskMoves, lastWrite'.hidden = {"nothing"}
                 PROVE  service.previewed = {money} /\ money <= maxRefundAmount
    BY <1>9
  <2>3. rmas[n].hides = "nothing"
    <3>1. n \in {m \in DOMAIN rmas : IsActiveRma(rmas[m])}
      BY <2>1 DEF IsActiveRma
    <3> HIDE DEF n
    <3>2. rmas[n].hides \in lastWrite'.hidden
      BY <3>1, WriteNoted
    <3> QED BY <2>2, <3>2
  <2>4. rmas[n].type = "refund" /\ money = ItemsCents(rmas[n].items)
    BY <1>2, <2>1 DEF RmaRefundCents
  <2>5. money \in Nat
    BY <1>1, <2>1, <2>4, ReadableLines, ItemsCentsAre DEF DeskTyped, IsRma
  <2>6. service.previewed = {money}
    BY <1>1, <1>3, <1>9, <2>1, <2>2, <2>3, <2>4 DEF ReceiptChecked
  <2>7. ~(money > maxRefundAmount)
    BY <1>3, <2>6 DEF Promised
  <2> HIDE DEF money
  <2> QED BY <1>5, <2>5, <2>6, <2>7
<1> QED BY <1>4, <1>6, <1>7, <1>8, <1>9

(* The money a tool moves is the money its preview showed, within the      *)
(* server's ceiling: the second look before a receipt is what makes it so. *)
THEOREM ReleasesMatchPreviews == ServiceSpec => []ReleasesAsPreviewed
<1>1. ServiceInit => ServiceInv /\ ReleasesAsPreviewed
  BY ServiceStarts DEF ServiceInit, ReleasesAsPreviewed
<1>2. ServiceInv /\ ReleasesAsPreviewed /\ [ServiceNext]_serviceVars => ServiceInv' /\ ReleasesAsPreviewed'
  <2> SUFFICES ASSUME ServiceInv, ReleasesAsPreviewed, [ServiceNext]_serviceVars
               PROVE  ReleasesAsPreviewed'
    BY ServiceKeeps
  <2>1. CASE SendService
    BY <2>1, ReleaseIsPreviewed
  <2>2. CASE ~SendService
    BY <2>2, OnlySendWrites DEF ReleasesAsPreviewed
  <2> QED BY <2>1, <2>2
<1> QED BY <1>1, <1>2, PTL DEF ServiceSpec

(* Amounts that agree add up to the same.                                  *)
LEMMA SumsEqual ==
  ASSUME NEW S, IsFiniteSet(S), NEW f, NEW g, \A x \in S : f[x] \in Nat /\ g[x] = f[x]
  PROVE  SumFunctionOnSet(f, S) \in Nat /\ SumFunctionOnSet(f, S) = SumFunctionOnSet(g, S)
<1>1. S \subseteq S /\ (\A x \in S : f[x] \in Nat) /\ (\A x \in S : g[x] \in Nat)
  OBVIOUS
<1>2. (\A x \in S : f[x] <= g[x]) /\ (\A x \in S : g[x] <= f[x])
  BY <1>1
<1>3. /\ SumFunctionOnSet(f, S) \in Nat /\ SumFunctionOnSet(g, S) \in Nat
      /\ SumFunctionOnSet(f, S) <= SumFunctionOnSet(g, S)
  BY <1>1, <1>2, SumsCompare
<1>4. SumFunctionOnSet(g, S) <= SumFunctionOnSet(f, S)
  BY <1>1, <1>2, SumsCompare
<1> QED BY <1>3, <1>4

OnOrder(rs) == {n \in DOMAIN rs : rs[n].orderNumber = "o" /\ IsActiveRma(rs[n])}

Standing(cs) == {c \in DOMAIN cs : cs[c].status \notin {"void", "failed"}}

(* What the answers show of an RMA refunds an amount.                      *)
LEMMA SeenCentsAre ==
  ASSUME DeskTyped, NEW n \in DOMAIN rmas
  PROVE  RmaRefundCents(Seen(n)) \in Nat /\ RmaRefundCents(rmas[n]) \in Nat /\ LinesRead(Seen(n).items)
<1> DEFINE r == rmas[n]
           answered == Seen(n).items
<1>1. LinesRead(r.items)
  BY ReadableLines DEF DeskTyped, IsRma
<1>2. LinesRead(answered)
  <2>1. CASE r.hides = "lines"
    <3>1. answered = <<>>
      BY <2>1, SeenLines
    <3>2. DOMAIN answered = {}
      BY <3>1
    <3> HIDE DEF answered
    <3> QED BY <3>2, FS_EmptySet DEF LinesRead
  <2>2. CASE r.hides # "lines"
    <3>1. /\ DOMAIN answered = DOMAIN r.items
          /\ \A i \in DOMAIN r.items :
               /\ answered[i].returnQuantity \in {NotRead, r.items[i].returnQuantity}
               /\ answered[i].returnUnitPrice \in {NotRead, r.items[i].returnUnitPrice}
               /\ answered[i].refundShippingPrice \in {NotRead, r.items[i].refundShippingPrice}
      BY <2>2, SeenLines
    <3> HIDE DEF answered, r
    <3> QED BY <1>1, <3>1 DEF LinesRead, Amounts
  <2> QED BY <2>1, <2>2
<1>3. ItemsCents(answered) \in Nat /\ ItemsCents(r.items) \in Nat
  <2> HIDE DEF answered, r
  <2> QED BY <1>1, <1>2, ItemsCentsAre
<1> QED BY <1>2, <1>3 DEF RmaRefundCents

(* The RMAs of the order are all among those that were read.               *)
LEMMA AllAreRead ==
  ASSUME DeskTyped, NEW read, SeesRmas(read), ~read.cut, "rmas" \notin read.missed, NEW own
  PROVE  /\ \A n \in OnOrder(rmas) : n # own => n \in Others(read, own)
         /\ Others(read, own) \subseteq DOMAIN rmas /\ IsFiniteSet(Others(read, own))
         /\ \A n \in Others(read, own) : read.rmas[n] = Seen(n)
<1>1. /\ DOMAIN read.rmas \subseteq DOMAIN rmas
      /\ \A n \in DOMAIN read.rmas : read.rmas[n] = Seen(n)
      /\ \A n \in DOMAIN rmas : rmas[n].orderNumber = "o" => n \in DOMAIN read.rmas
  BY DEF SeesRmas
<1>2. \A n \in OnOrder(rmas) : IsActiveRma(Seen(n))
  BY DEF OnOrder, IsActiveRma, Seen
<1>3. \A n \in OnOrder(rmas) : n # own => n \in Others(read, own)
  BY <1>1, <1>2 DEF OnOrder, Others
<1>4. Others(read, own) \subseteq DOMAIN read.rmas
  BY DEF Others
<1>5. IsFiniteSet(Others(read, own))
  <2>1. Others(read, own) \subseteq RmaNumbers
    BY <1>1, <1>4 DEF DeskTyped
  <2> QED BY <2>1, ServiceAssumption, FS_Subset
<1> QED BY <1>1, <1>3, <1>4, <1>5

(* The money the standing RMAs of the order release is at most what the    *)
(* balance counts for them.                                                *)
LEMMA MoneyIsCounted ==
  ASSUME DeskTyped, NEW read, SeesRmas(read), ~read.cut, "rmas" \notin read.missed,
         NEW own, ~UnreconcilablePriorRefunds(read, own),
         \A n \in DOMAIN rmas : IsActiveRma(rmas[n]) => rmas[n].hides \notin {"type", "shipping"},
         NEW S, \A n \in S : n \in OnOrder(rmas) /\ n # own,
         NEW f, \A n \in S : f[n] = RmaRefundCents(rmas[n])
  PROVE  LET counted == SumFunction([n \in Others(read, own) |-> RmaRefundCents(read.rmas[n])]) IN
         SumFunctionOnSet(f, S) \in Nat /\ counted \in Nat /\ SumFunctionOnSet(f, S) <= counted
<1> DEFINE T == Others(read, own)
           g == [n \in T |-> RmaRefundCents(read.rmas[n])]
<1>1. S \subseteq T /\ IsFiniteSet(T) /\ T \subseteq DOMAIN rmas /\ \A n \in T : read.rmas[n] = Seen(n)
  BY AllAreRead
<1>2. \A n \in T : g[n] \in Nat
  <2> SUFFICES ASSUME NEW n \in T PROVE g[n] \in Nat
    OBVIOUS
  <2>1. RmaRefundCents(Seen(n)) \in Nat
    BY <1>1, SeenCentsAre
  <2> QED BY <1>1, <2>1
<1>3. \A n \in S : f[n] \in Nat
  BY <1>1, SeenCentsAre
<1>4. ASSUME NEW n \in S PROVE f[n] <= g[n]
  <2> DEFINE r == rmas[n]
             answered == Seen(n).items
  <2>1. n \in DOMAIN rmas /\ IsActiveRma(r) /\ n \in T /\ r.hides \notin {"type", "shipping"}
    BY <1>1, <1>4 DEF OnOrder
  <2>2. Seen(n).type = r.type /\ read.rmas[n] = Seen(n)
    BY <1>1, <2>1 DEF Seen
  <2>3. CASE r.type # "refund"
    <3>1. f[n] = 0
      BY <2>3 DEF RmaRefundCents
    <3>2. g[n] \in Nat
      BY <1>2, <2>1
    <3> HIDE DEF g
    <3> QED BY <3>1, <3>2
  <2>4. CASE r.type = "refund"
    <3>1. answered # <<>> /\ \A i \in DOMAIN answered : answered[i].returnUnitPrice # NotRead /\ answered[i].returnQuantity # NotRead
      BY <2>1, <2>2, <2>4 DEF UnreconcilablePriorRefunds
    <3>2. r.hides # "lines"
      BY <2>1, <3>1, SeenLines
    <3>3. r.hides \in {"quantity", "price"} => 1 \notin DOMAIN r.items
      BY <2>1, <3>1, <3>2, SeenLines
    <3>4. r.hides \in {"quantity", "price"} => DOMAIN r.items = {}
      <4>1. PICK k \in Nat : DOMAIN r.items = 1 .. k
        BY <2>1, ReadableLines DEF DeskTyped, IsRma
      <4> HIDE DEF r
      <4> QED BY <3>3, <4>1
    <3>5. ItemsCents(answered) = ItemsCents(r.items)
      BY <2>1, <3>2, <3>4, SeenMoney
    <3>6. f[n] = ItemsCents(r.items)
      BY <2>4 DEF RmaRefundCents
    <3>7. g[n] = ItemsCents(answered)
      BY <2>1, <2>2, <2>4 DEF RmaRefundCents
    <3>8. f[n] \in Nat
      BY <1>3
    <3> HIDE DEF g, answered, r
    <3> QED BY <3>5, <3>6, <3>7, <3>8
  <2> QED BY <2>3, <2>4
<1>5. SumFunction(g) = SumFunctionOnSet(g, T)
  BY DEF SumFunction
<1>6. /\ SumFunctionOnSet(f, S) \in Nat /\ SumFunctionOnSet(g, T) \in Nat
      /\ SumFunctionOnSet(f, S) <= SumFunctionOnSet(g, T)
  <2> HIDE DEF g, T
  <2> QED BY <1>1, <1>2, <1>3, <1>4, SumsCompare
<1> QED BY <1>5, <1>6

(* The refunds that stand are counted as they are.                         *)
LEMMA RefundsAreCounted ==
  ASSUME DeskTyped, NEW read, SeesRefunds(read), ~read.cut, "refunds" \notin read.missed,
         NEW own, ~UnreconcilablePriorRefunds(read, own)
  PROVE  /\ [c \in StandingRefunds(read) |-> OrZero(read.courtesies[c].refundAmount)]
              = [c \in Standing(courtesies) |-> courtesies[c].refundAmount]
         /\ IsFiniteSet(Standing(courtesies)) /\ \A c \in Standing(courtesies) : courtesies[c].refundAmount \in Nat
<1>1. /\ DOMAIN read.courtesies \subseteq DOMAIN courtesies
      /\ \A c \in DOMAIN read.courtesies : read.courtesies[c] = SeenRefund(c) /\ courtesies[c].status # "failed"
      /\ \A c \in DOMAIN courtesies : courtesies[c].status # "failed" => c \in DOMAIN read.courtesies
  BY DEF SeesRefunds
<1>1a. \A c : /\ SeenRefund(c).status = courtesies[c].status
             /\ SeenRefund(c).refundAmount \in {NotRead, courtesies[c].refundAmount}
  BY DEF SeenRefund
<1>2. StandingRefunds(read) = Standing(courtesies)
  BY <1>1, <1>1a DEF StandingRefunds, Standing
<1>3. \A c \in Standing(courtesies) : read.courtesies[c].refundAmount # NotRead
  BY <1>2 DEF UnreconcilablePriorRefunds
<1>4. \A c \in Standing(courtesies) : OrZero(read.courtesies[c].refundAmount) = courtesies[c].refundAmount
  BY <1>1, <1>1a, <1>3 DEF Standing, OrZero
<1>5. Standing(courtesies) \subseteq RefundIds
  BY DEF Standing, DeskTyped
<1>6. IsFiniteSet(Standing(courtesies))
  BY <1>5, ServiceAssumption, FS_Subset
<1>7. \A c \in Standing(courtesies) : courtesies[c].refundAmount \in Nat
  BY DEF Standing, DeskTyped, IsRefund
<1> QED BY <1>2, <1>4, <1>6, <1>7

(* Nothing is above what is left: the money counted and the new amount are *)
(* within what the order was paid.                                         *)
LEMMA BalanceHolds ==
  ASSUME NEW cents \in Nat, NEW read, NEW own, NEW total, read.order.total = total, total \in Amounts,
         BalanceBlockers(cents, read, own) = {}
  PROVE  /\ ~UnreconcilablePriorRefunds(read, own)
         /\ total \in Nat /\ ~(cents > total - PriorRefundCents(read, own))
<1>1. total # NotRead
  BY DEF BalanceBlockers
<1>2. total \in Nat
  BY <1>1 DEF Amounts
<1>3. ~(cents > total) /\ ~UnreconcilablePriorRefunds(read, own)
  BY <1>1 DEF BalanceBlockers
<1>4. ~(cents > total - PriorRefundCents(read, own))
  BY <1>1, <1>3 DEF BalanceBlockers, When
<1> QED BY <1>2, <1>3, <1>4

(* What is known when a write is sent whose reads are still fresh.         *)
OwnOf(p) == IF p.op = "edit" THEN p.rmaNumber ELSE Absent

(* The reads, and that nothing blocks the write.                           *)
LEMMA SentKnows ==
  ASSUME ServiceInv, SendService, NEW p, p = service.plan, NEW read, read = service.read,
         p.op \in {"submit", "edit", "refund"}, service.asOf = deskMoves
  PROVE  /\ read.order = order /\ order # Absent /\ ~read.cut /\ SeesRmas(read) /\ SeesRefunds(read)
         /\ p.op \in {"submit", "edit"} => ItemBlockers(p, read, OwnOf(p)) = {}
         /\ p.op = "refund" => BalanceBlockers(p.amount, read, OwnOf(p)) = {}
         /\ p.op = "edit" => p.rmaNumber \in OnOrder(rmas)
<1>1. /\ service.phase = "judge" /\ PlanBlockers(p, read) = {} /\ Accepts(p) /\ FreshReads(service)
  BY DEF SendService, Judged, Found, ServiceInv, ReadsAreFresh
<1>2. /\ read.order # Absent => read.order = order /\ (p.op = "edit" => read.rma.orderNumber = "o")
      /\ read.order # Absent => SeesRmas(read) /\ SeesRefunds(read)
      /\ p.op = "edit" => SeesRma(read, p.rmaNumber)
  BY <1>1 DEF FreshReads
<1>3. CASE p.op = "submit"
  <2>1. SubmitBlockers(p, read) = {}
    BY <1>1, <1>3 DEF PlanBlockers
  <2>2. CutBlockers(read) = {} /\ OrderBlockers(read.order) = {} /\ ItemBlockers(p, read, Absent) = {}
    BY <2>1 DEF SubmitBlockers
  <2>3. read.order # Absent /\ ~read.cut
    BY <2>2 DEF CutBlockers, OrderBlockers, When
  <2> QED BY <1>2, <1>3, <2>2, <2>3 DEF OwnOf
<1>4. CASE p.op = "refund"
  <2>1. RefundBlockers(p, read) = {}
    BY <1>1, <1>4 DEF PlanBlockers
  <2>2. CutBlockers(read) = {} /\ OrderBlockers(read.order) = {}
    BY <2>1 DEF RefundBlockers
  <2>3. read.order # Absent /\ ~read.cut
    BY <2>2 DEF CutBlockers, OrderBlockers, When
  <2>4. BalanceBlockers(p.amount, read, Absent) = {}
    BY <2>1, <2>3 DEF RefundBlockers
  <2> QED BY <1>2, <1>4, <2>3, <2>4 DEF OwnOf
<1>5. CASE p.op = "edit"
  <2>1. EditBlockers(p, read) = {}
    BY <1>1, <1>5 DEF PlanBlockers
  <2>2. read.rma # Absent
    BY <2>1 DEF EditBlockers, StateBlockers
  <2>3. read.rma.orderNumber # NotRead
    BY <2>1, <2>2 DEF EditBlockers
  <2>4. CutBlockers(read) \cup When(read.order = Absent, "no such order") \cup ItemBlockers(p, read, p.rmaNumber) = {}
    BY <2>1, <2>2, <2>3 DEF EditBlockers
  <2>5. read.order # Absent /\ ~read.cut /\ ItemBlockers(p, read, p.rmaNumber) = {}
    BY <2>4 DEF CutBlockers, When
  <2>6. p.rmaNumber \in DOMAIN rmas /\ rmas[p.rmaNumber].status = "open" /\ read.rma = Seen(p.rmaNumber)
    BY <1>1, <1>2, <1>5, <2>2 DEF Accepts, SeesRma
  <2>7. rmas[p.rmaNumber].orderNumber = "o"
    <3>1. Seen(p.rmaNumber).orderNumber \in {NotRead, rmas[p.rmaNumber].orderNumber}
      BY DEF Seen
    <3> QED BY <1>2, <1>5, <2>3, <2>5, <2>6, <3>1
  <2>8. p.rmaNumber \in OnOrder(rmas)
    BY <2>6, <2>7 DEF OnOrder, IsActiveRma
  <2> QED BY <1>2, <1>5, <2>5, <2>8 DEF OwnOf
<1> QED BY <1>3, <1>4, <1>5

RefundedOf(rs, cs) ==
  SumFunction([n \in OnOrder(rs) |-> RmaRefundCents(rs[n])])
    + SumFunction([c \in Standing(cs) |-> cs[c].refundAmount])

(* What another write that passed the balance adds stays within the total: *)
(* as the money of one RMA ...                                             *)
LEMMA MoneyWithin ==
  ASSUME DeskTyped, NEW read, SeesRmas(read), SeesRefunds(read), ~read.cut, read.missed = {}, NEW own,
         NEW total, read.order.total = total, total \in Amounts,
         NEW cents \in Nat, BalanceBlockers(cents, read, own) = {},
         \A n \in DOMAIN rmas : IsActiveRma(rmas[n]) => rmas[n].hides \notin {"type", "shipping"},
         NEW rs, DOMAIN rs \subseteq RmaNumbers, NEW x \in OnOrder(rs), NEW money \in Nat, money <= cents,
         money = RmaRefundCents(rs[x]),
         \A n \in OnOrder(rs) : n # x => n \in OnOrder(rmas) /\ n # own /\ rs[n] = rmas[n]
  PROVE  RefundedOf(rs, courtesies) <= total
<1> DEFINE S == OnOrder(rs)
           R == S \ {x}
           f == [n \in S |-> RmaRefundCents(rs[n])]
           counted == SumFunction([n \in Others(read, own) |-> RmaRefundCents(read.rmas[n])])
           refunds == SumFunction([c \in Standing(courtesies) |-> courtesies[c].refundAmount])
<1>1. ~UnreconcilablePriorRefunds(read, own) /\ total \in Nat /\ ~(cents > total - PriorRefundCents(read, own))
  BY BalanceHolds
<1>2. IsFiniteSet(S)
  <2>1. S \subseteq RmaNumbers
    BY DEF OnOrder
  <2> QED BY <2>1, ServiceAssumption, FS_Subset
<1>3. \A n \in R : n \in OnOrder(rmas) /\ n # own /\ f[n] = RmaRefundCents(rmas[n])
  OBVIOUS
<1>4. SumFunctionOnSet(f, R) \in Nat /\ counted \in Nat /\ SumFunctionOnSet(f, R) <= counted
  <2> HIDE DEF R, f
  <2> QED BY <1>1, <1>3, MoneyIsCounted
<1>5. f[x] = money /\ SumFunction(f) = SumFunctionOnSet(f, S)
  BY DEF SumFunction
<1>6. \A n \in S : f[n] \in Nat
  <2> SUFFICES ASSUME NEW n \in S PROVE f[n] \in Nat
    OBVIOUS
  <2>1. CASE n = x
    BY <1>5, <2>1
  <2>2. CASE n # x
    <3>1. n \in DOMAIN rmas /\ f[n] = RmaRefundCents(rmas[n])
      BY <1>3, <2>2 DEF OnOrder
    <3> HIDE DEF f
    <3> QED BY <3>1, SeenCentsAre
  <2> QED BY <2>1, <2>2
<1>7. SumFunction(f) = money + SumFunctionOnSet(f, R)
  <2> HIDE DEF f
  <2> QED BY <1>2, <1>5, <1>6, SumWithout
<1>8. PriorRefundCents(read, own) = counted + refunds
  BY <1>1, RefundsAreCounted DEF PriorRefundCents
<1>9. refunds \in Nat
  <2> DEFINE C == Standing(courtesies)
             g == [c \in C |-> courtesies[c].refundAmount]
  <2>1. IsFiniteSet(C) /\ \A c \in C : g[c] \in Nat
    BY <1>1, RefundsAreCounted
  <2>2. SumFunction(g) = SumFunctionOnSet(g, C)
    BY DEF SumFunction
  <2> HIDE DEF g, C
  <2>3. SumFunctionOnSet(g, C) \in Nat
    BY <2>1, SumsEqual
  <2> QED BY <2>2, <2>3 DEF g, C
<1>10. RefundedOf(rs, courtesies) = SumFunction(f) + refunds
  BY DEF RefundedOf
<1> HIDE DEF f, counted, refunds, R
<1>11. PICK sum : sum = SumFunctionOnSet(f, R)
  OBVIOUS
<1>12. sum \in Nat /\ counted \in Nat /\ sum <= counted /\ ~(cents > total - (counted + refunds))
  BY <1>1, <1>4, <1>8, <1>11
<1>13. (money + sum) + refunds <= total
  BY <1>1, <1>9, <1>12
<1> QED BY <1>7, <1>10, <1>11, <1>13

(* ... or as a refund of its own.                                          *)
LEMMA MoneyWithinRefund ==
  ASSUME DeskTyped, NEW read, SeesRmas(read), SeesRefunds(read), ~read.cut, read.missed = {},
         NEW total, read.order.total = total, total \in Amounts,
         NEW cents \in Nat, BalanceBlockers(cents, read, Absent) = {},
         \A n \in DOMAIN rmas : IsActiveRma(rmas[n]) => rmas[n].hides \notin {"type", "shipping"},
         NEW c \in RefundIds \ DOMAIN courtesies, NEW cs, cs = Added(courtesies, c, NewRefund(cents, "queued"))
  PROVE  RefundedOf(rmas, cs) <= total
<1> DEFINE S == OnOrder(rmas)
           f == [n \in S |-> RmaRefundCents(rmas[n])]
           C == Standing(courtesies)
           g == [d \in C |-> courtesies[d].refundAmount]
           D == Standing(cs)
           h == [d \in D |-> cs[d].refundAmount]
           counted == SumFunction([n \in Others(read, Absent) |-> RmaRefundCents(read.rmas[n])])
<1>1. ~UnreconcilablePriorRefunds(read, Absent) /\ total \in Nat /\ ~(cents > total - PriorRefundCents(read, Absent))
  BY BalanceHolds
<1>2. \A n \in S : n \in OnOrder(rmas) /\ n # Absent /\ f[n] = RmaRefundCents(rmas[n])
  BY ServiceAssumption DEF DeskTyped, OnOrder
<1>3. SumFunctionOnSet(f, S) \in Nat /\ counted \in Nat /\ SumFunctionOnSet(f, S) <= counted
  <2> HIDE DEF f, S
  <2> QED BY <1>1, <1>2, MoneyIsCounted
<1>4. SumFunction(f) = SumFunctionOnSet(f, S) /\ SumFunction(g) = SumFunctionOnSet(g, C) /\ SumFunction(h) = SumFunctionOnSet(h, D)
  BY DEF SumFunction
<1>5. PriorRefundCents(read, Absent) = counted + SumFunction(g) /\ IsFiniteSet(C) /\ \A d \in C : g[d] \in Nat
  BY <1>1, RefundsAreCounted DEF PriorRefundCents
<1>6. DOMAIN cs = DOMAIN courtesies \cup {c} /\ cs[c] = NewRefund(cents, "queued") /\ \A d \in DOMAIN courtesies : cs[d] = courtesies[d]
  BY DEF Added
<1>7. NewRefund(cents, "queued").status = "queued" /\ NewRefund(cents, "queued").refundAmount = cents
  BY DEF NewRefund
<1>8. D = C \cup {c} /\ c \notin C
  BY <1>6, <1>7 DEF Standing
<1>9. h[c] = cents /\ \A d \in C : h[d] = g[d]
  BY <1>6, <1>7, <1>8 DEF Standing
<1> HIDE DEF f, g, h, S, C, D, counted
<1>10. SumFunctionOnSet(g, C) \in Nat /\ SumFunctionOnSet(h, C) = SumFunctionOnSet(g, C)
  BY <1>5, <1>9, SumsEqual
<1>11. SumFunctionOnSet(h, D) = cents + SumFunctionOnSet(h, C)
  <2>1. IsFiniteSet(D) /\ c \in D /\ D \ {c} = C
    BY <1>5, <1>8, FS_AddElement
  <2>2. \A d \in D : h[d] \in Nat
    BY <1>5, <1>8, <1>9
  <2>3. SumFunctionOnSet(h, D) = h[c] + SumFunctionOnSet(h, D \ {c})
    BY <2>1, <2>2, SumWithout
  <2> QED BY <1>9, <2>1, <2>3
<1>12. RefundedOf(rmas, cs) = SumFunction(f) + SumFunction(h)
  BY DEF RefundedOf, f, h, S, D
<1>13. PICK a, b : a = SumFunctionOnSet(f, S) /\ b = SumFunctionOnSet(g, C)
  OBVIOUS
<1>14. a \in Nat /\ b \in Nat /\ counted \in Nat /\ a <= counted /\ ~(cents > total - (counted + b))
  BY <1>1, <1>3, <1>4, <1>5, <1>10, <1>13
<1>15. a + (cents + b) <= total
  BY <1>1, <1>14
<1> QED BY <1>4, <1>10, <1>11, <1>12, <1>13, <1>15

(* How many of a part lines return is a number; lines that agree return as *)
(* many, and a part named once what its line says.                         *)
LEMMA PartQuantityIs ==
  ASSUME NEW items, LinesRead(items), NEW part
  PROVE  /\ PartQuantity(part, items) \in Nat
         /\ \A i \in DOMAIN items :
              LinesOf(part, items) = {i} => PartQuantity(part, items) = OrZero(items[i].returnQuantity)
<1> DEFINE L == LinesOf(part, items)
           f == [i \in L |-> OrZero(items[i].returnQuantity)]
<1>1. L \subseteq DOMAIN items /\ IsFiniteSet(L)
  <2>1. L \subseteq DOMAIN items
    BY DEF LinesOf
  <2> HIDE DEF L
  <2> QED BY <2>1, FS_Subset DEF LinesRead
<1>2. \A i \in L : f[i] \in Nat
  BY <1>1 DEF LinesRead, Amounts, OrZero
<1>3. PartQuantity(part, items) = SumFunctionOnSet(f, L)
  BY DEF PartQuantity, SumFunction
<1>4. ASSUME NEW i \in DOMAIN items, L = {i} PROVE SumFunctionOnSet(f, L) = OrZero(items[i].returnQuantity)
  <2>1. f[i] = OrZero(items[i].returnQuantity) /\ f[i] \in Nat
    BY <1>2, <1>4
  <2>2. L \ {i} = {} /\ i \in L
    BY <1>4
  <2> HIDE DEF f, L
  <2>3. SumFunctionOnSet(f, L) = f[i] + SumFunctionOnSet(f, L \ {i})
    BY <1>1, <1>2, <2>2, SumWithout
  <2>4. SumFunctionOnSet(f, {}) = 0
    BY <1>1, <1>2, SumUnfolds
  <2> QED BY <2>1, <2>2, <2>3, <2>4
<1>5. SumFunctionOnSet(f, L) \in Nat
  <2> HIDE DEF f, L
  <2> QED BY <1>1, <1>2, SumsEqual
<1> HIDE DEF f
<1> QED BY <1>3, <1>4, <1>5

(* An answer that hides neither lines, nor a part number, nor a quantity   *)
(* shows how many of a part there are.                                     *)
LEMMA SeenQuantity ==
  ASSUME DeskTyped, NEW n \in DOMAIN rmas, rmas[n].hides \notin {"lines", "quantity", "part"}, NEW part
  PROVE  PartQuantity(part, Seen(n).items) = PartQuantity(part, rmas[n].items)
<1> DEFINE items == rmas[n].items
           answered == Seen(n).items
<1>1. /\ DOMAIN answered = DOMAIN items
      /\ \A i \in DOMAIN items : /\ answered[i].returnQuantity = items[i].returnQuantity
                                 /\ answered[i].sellerPartNumber = items[i].sellerPartNumber
  BY SeenLines
<1> HIDE DEF items, answered
<1>2. LinesOf(part, items) = LinesOf(part, answered)
  BY <1>1 DEF LinesOf
<1>3. [i \in LinesOf(part, items) |-> OrZero(items[i].returnQuantity)]
        = [i \in LinesOf(part, answered) |-> OrZero(answered[i].returnQuantity)]
  BY <1>1, <1>2 DEF LinesOf
<1>4. PartQuantity(part, items) = PartQuantity(part, answered)
  BY <1>3 DEF PartQuantity
<1> QED BY <1>4 DEF items, answered

(* What the standing RMAs of the order return of a part is at most what    *)
(* the check counts for them.                                              *)
LEMMA QuantityIsCounted ==
  ASSUME DeskTyped, NEW read, SeesRmas(read), ~read.cut, "rmas" \notin read.missed, NEW own, NEW part,
         \A n \in DOMAIN rmas : IsActiveRma(rmas[n]) => rmas[n].hides \notin {"quantity", "lines", "part"},
         NEW S, \A n \in S : n \in OnOrder(rmas) /\ n # own,
         NEW f, \A n \in S : f[n] = PartQuantity(part, rmas[n].items)
  PROVE  /\ SumFunctionOnSet(f, S) \in Nat /\ AlreadyReturned(part, read, own) \in Nat
         /\ SumFunctionOnSet(f, S) <= AlreadyReturned(part, read, own)
<1> DEFINE T == Others(read, own)
           g == [n \in T |-> PartQuantity(part, read.rmas[n].items)]
<1>1. S \subseteq T /\ IsFiniteSet(T) /\ T \subseteq DOMAIN rmas /\ \A n \in T : read.rmas[n] = Seen(n)
  BY AllAreRead
<1>2. \A n \in T : g[n] \in Nat
  <2> SUFFICES ASSUME NEW n \in T PROVE g[n] \in Nat
    OBVIOUS
  <2>1. LinesRead(Seen(n).items)
    BY <1>1, SeenCentsAre
  <2>2. PartQuantity(part, Seen(n).items) \in Nat
    BY <2>1, PartQuantityIs
  <2> QED BY <1>1, <2>2
<1>3. ASSUME NEW n \in S PROVE f[n] = g[n]
  <2>1. n \in DOMAIN rmas /\ IsActiveRma(rmas[n]) /\ n \in T /\ read.rmas[n] = Seen(n)
    BY <1>1, <1>3 DEF OnOrder
  <2>2. PartQuantity(part, Seen(n).items) = PartQuantity(part, rmas[n].items)
    BY <2>1, SeenQuantity
  <2> QED BY <2>1, <2>2
<1>4. AlreadyReturned(part, read, own) = SumFunctionOnSet(g, T)
  BY DEF AlreadyReturned, SumFunction
<1> HIDE DEF g, T
<1>5. (\A n \in S : f[n] \in Nat) /\ (\A n \in S : f[n] <= g[n])
  BY <1>1, <1>2, <1>3
<1>6. /\ SumFunctionOnSet(f, S) \in Nat /\ SumFunctionOnSet(g, T) \in Nat
      /\ SumFunctionOnSet(f, S) <= SumFunctionOnSet(g, T)
  BY <1>1, <1>2, <1>5, SumsCompare
<1> QED BY <1>4, <1>6

ReturnedOf(part, rs) == SumFunction([n \in OnOrder(rs) |-> PartQuantity(part, rs[n].items)])

(* What another RMA that passed the check returns stays within what was    *)
(* ordered.                                                                *)
LEMMA QuantityWithin ==
  ASSUME DeskTyped, NEW read, SeesRmas(read), ~read.cut, "rmas" \notin read.missed, NEW own, NEW part,
         NEW ordered \in Nat, NEW quantity \in Nat,
         ~(quantity > ordered - AlreadyReturned(part, read, own)),
         \A n \in DOMAIN rmas : IsActiveRma(rmas[n]) => rmas[n].hides \notin {"quantity", "lines", "part"},
         NEW rs, DOMAIN rs \subseteq RmaNumbers, NEW x \in OnOrder(rs), PartQuantity(part, rs[x].items) = quantity,
         \A n \in OnOrder(rs) : n # x => n \in OnOrder(rmas) /\ n # own /\ rs[n] = rmas[n]
  PROVE  ReturnedOf(part, rs) <= ordered
<1> DEFINE S == OnOrder(rs)
           R == S \ {x}
           f == [n \in S |-> PartQuantity(part, rs[n].items)]
<1>1. IsFiniteSet(S)
  <2>1. S \subseteq RmaNumbers
    BY DEF OnOrder
  <2> QED BY <2>1, ServiceAssumption, FS_Subset
<1>2. \A n \in R : n \in OnOrder(rmas) /\ n # own /\ f[n] = PartQuantity(part, rmas[n].items)
  OBVIOUS
<1>3. /\ SumFunctionOnSet(f, R) \in Nat /\ AlreadyReturned(part, read, own) \in Nat
      /\ SumFunctionOnSet(f, R) <= AlreadyReturned(part, read, own)
  <2> HIDE DEF R, f
  <2> QED BY <1>2, QuantityIsCounted
<1>4. f[x] = quantity /\ ReturnedOf(part, rs) = SumFunctionOnSet(f, S)
  BY DEF SumFunction, ReturnedOf
<1>5. \A n \in S : f[n] \in Nat
  <2> SUFFICES ASSUME NEW n \in S PROVE f[n] \in Nat
    OBVIOUS
  <2>1. CASE n = x
    BY <1>4, <2>1
  <2>2. CASE n # x
    <3>1. n \in DOMAIN rmas /\ f[n] = PartQuantity(part, rmas[n].items)
      BY <1>2, <2>2 DEF OnOrder
    <3>2. LinesRead(rmas[n].items)
      BY <3>1, ReadableLines DEF DeskTyped, IsRma
    <3> HIDE DEF f
    <3> QED BY <3>1, <3>2, PartQuantityIs
  <2> QED BY <2>1, <2>2
<1>6. SumFunctionOnSet(f, S) = quantity + SumFunctionOnSet(f, R)
  <2> HIDE DEF f
  <2> QED BY <1>1, <1>4, <1>5, SumWithout
<1> HIDE DEF f, R, S
<1>7. PICK sum, counted : sum = SumFunctionOnSet(f, R) /\ counted = AlreadyReturned(part, read, own)
  OBVIOUS
<1>8. sum \in Nat /\ counted \in Nat /\ sum <= counted /\ ~(quantity > ordered - counted)
  BY <1>3, <1>7
<1>9. quantity + sum <= ordered
  BY <1>8
<1> QED BY <1>4, <1>6, <1>7, <1>9

(* The RMA that a submission opens or an edit changes; the others stay.    *)
LEMMA SentRma ==
  ASSUME ServiceInv, NEW p, Sound(p), Accepts(p), Effect(p), p.op \in {"submit", "edit"},
         p.op = "edit" => p.rmaNumber \in OnOrder(rmas)
  PROVE  /\ DOMAIN rmas' \subseteq RmaNumbers /\ courtesies' = courtesies
         /\ \E x \in OnOrder(rmas') :
              /\ rmas'[x].items = p.items
              /\ \A n \in OnOrder(rmas') : n # x => n \in OnOrder(rmas) /\ n # OwnOf(p) /\ rmas'[n] = rmas[n]
<1>1. ServiceTyped /\ DOMAIN rmas \subseteq RmaNumbers /\ \A n \in DOMAIN rmas : IsRma(rmas[n])
  BY DEF ServiceInv, ServiceTyped, DeskTyped
<1>2. CASE p.op = "submit"
  <2>1. PICK x \in RmaNumbers \ DOMAIN rmas : rmas' = Added(rmas, x, NewRma(p)) /\ courtesies' = courtesies
    BY <1>1, <1>2, EffectIs
  <2>2. PICK new : new = NewRma(p)
    OBVIOUS
  <2>3. new.items = p.items /\ new.orderNumber = "o" /\ new.status \in {"received", "open"}
    BY <2>2 DEF NewRma
  <2>4. DOMAIN rmas' = DOMAIN rmas \cup {x} /\ rmas'[x] = new /\ \A n \in DOMAIN rmas : rmas'[n] = rmas[n]
    BY <2>1, <2>2 DEF Added
  <2>5. x \in OnOrder(rmas')
    BY <2>3, <2>4 DEF OnOrder, IsActiveRma
  <2>6. \A n \in OnOrder(rmas') : n # x => n \in OnOrder(rmas) /\ rmas'[n] = rmas[n] /\ n \in RmaNumbers
    BY <1>1, <2>4 DEF OnOrder
  <2>7. OwnOf(p) = Absent /\ Absent \notin RmaNumbers
    BY <1>2, ServiceAssumption DEF OwnOf
  <2> QED BY <1>1, <2>1, <2>3, <2>4, <2>5, <2>6, <2>7
<1>3. CASE p.op = "edit"
  <2> DEFINE x == p.rmaNumber
  <2>1. PICK q : /\ rmas' = [rmas EXCEPT ![x] = q] /\ q = [rmas[x] EXCEPT !.items = p.items] /\ IsRma(q)
                 /\ x \in DOMAIN rmas /\ AreLines(p.items) /\ courtesies' = courtesies
    BY <1>1, <1>3, EffectIs
  <2>2. q.items = p.items /\ q.status = rmas[x].status /\ q.orderNumber = rmas[x].orderNumber
    BY <1>1, <2>1, ReplacedIsRma
  <2>3. DOMAIN rmas' = DOMAIN rmas /\ rmas'[x] = q /\ \A n \in DOMAIN rmas : n # x => rmas'[n] = rmas[n]
    BY <2>1
  <2>4. x \in OnOrder(rmas)
    BY <1>3
  <2> HIDE DEF x
  <2>5. x \in OnOrder(rmas')
    BY <2>2, <2>3, <2>4 DEF OnOrder, IsActiveRma
  <2>6. \A n \in OnOrder(rmas') : n # x => n \in OnOrder(rmas) /\ rmas'[n] = rmas[n]
    BY <2>3 DEF OnOrder
  <2>7. OwnOf(p) = x
    BY <1>3 DEF OwnOf, x
  <2>8. /\ rmas'[x].items = p.items
        /\ \A n \in OnOrder(rmas') : n # x => n \in OnOrder(rmas) /\ n # OwnOf(p) /\ rmas'[n] = rmas[n]
    BY <2>2, <2>3, <2>6, <2>7
  <2>9. DOMAIN rmas' \subseteq RmaNumbers
    BY <1>1, <2>3
  <2> QED BY <2>1, <2>5, <2>8, <2>9
<1> QED BY <1>2, <1>3

(* No line is above what was ordered, less what was returned before.       *)
LEMMA LinesHold ==
  ASSUME NEW p, NEW read, NEW own, read.order # Absent, ItemBlockers(p, read, own) = {}, NEW i \in DOMAIN p.items
  PROVE  LET part == p.items[i].sellerPartNumber IN
         /\ part \in DOMAIN read.order.items
         /\ read.order.items[part].orderedQty # NotRead =>
              ~(p.items[i].returnQuantity > read.order.items[part].orderedQty - AlreadyReturned(part, read, own))
<1> DEFINE line == p.items[i]
           part == line.sellerPartNumber
           blockers == LineBlockers(line, p.type, read, own)
<1>1. LinesBlockers(p, read, own) = {}
  BY DEF ItemBlockers
<1>2. blockers = {}
  <2>1. blockers \in {LineBlockers(p.items[j], p.type, read, own) : j \in DOMAIN p.items}
    OBVIOUS
  <2> HIDE DEF blockers
  <2> QED BY <1>1, <2>1 DEF LinesBlockers
<1>3. part \in DOMAIN read.order.items
  BY <1>2 DEF LineBlockers
<1>4. ASSUME read.order.items[part].orderedQty # NotRead
      PROVE  ~(line.returnQuantity > read.order.items[part].orderedQty - AlreadyReturned(part, read, own))
  <2>1. When(line.returnQuantity > read.order.items[part].orderedQty - AlreadyReturned(part, read, own), "above returnable") = {}
    BY <1>2, <1>3, <1>4 DEF LineBlockers
  <2> QED BY <2>1 DEF When
<1> QED BY <1>3, <1>4

(* A write whose reads are fresh leaves the order within its total ...     *)
LEMMA SentMoney ==
  ASSUME ServiceInv, SendService, NEW p, p = service.plan, p.op \in {"submit", "edit", "refund"}, service.asOf = deskMoves,
         p.op = "refund" \/ p.type = "refund", service.read.missed = {},
         \A n \in DOMAIN rmas : IsActiveRma(rmas[n]) => rmas[n].hides \notin {"type", "shipping"}
  PROVE  RefundedOf(rmas', courtesies') <= order.total
<1>1. PICK read : read = service.read
  OBVIOUS
<1>2. /\ read.order = order /\ order # Absent /\ ~read.cut /\ read.missed = {} /\ SeesRmas(read) /\ SeesRefunds(read)
      /\ p.op \in {"submit", "edit"} => ItemBlockers(p, read, OwnOf(p)) = {}
      /\ p.op = "refund" => BalanceBlockers(p.amount, read, OwnOf(p)) = {}
      /\ p.op = "edit" => p.rmaNumber \in OnOrder(rmas)
  BY <1>1, SentKnows
<1>3. Sound(p) /\ Accepts(p) /\ Effect(p) /\ DeskTyped /\ ServiceTyped
  BY DEF SendService, Judged, ServiceInv, ServiceTyped, CallTyped, IsCall
<1>4. /\ p.op \in {"submit", "edit"} => AreLines(p.items)
      /\ p.op = "refund" => p.amount \in Nat
  BY <1>3, PlansAre
<1>5. PICK total : total = order.total /\ total \in Amounts /\ read.order.total = total
  BY <1>2, <1>3 DEF DeskTyped
<1>6. CASE p.op \in {"submit", "edit"}
  <2>1. PICK cents : cents = ItemsCents(p.items)
    OBVIOUS
  <2>2. cents \in Nat
    BY <1>4, <1>6, <2>1, ReadableLines, ItemsCentsAre
  <2>10. PICK own : own = OwnOf(p)
    OBVIOUS
  <2>3. BalanceBlockers(cents, read, own) = {}
    <3>1. p.type = "refund"
      BY <1>6
    <3>2. read.order # Absent /\ ItemBlockers(p, read, own) = {}
      BY <1>2, <1>6, <2>10
    <3>3. BalanceBlockers(ItemsCents(p.items), read, own) \subseteq ItemBlockers(p, read, own)
      BY <3>1, <3>2 DEF ItemBlockers
    <3> QED BY <2>1, <3>2, <3>3
  <2>4. PICK rs : rs = rmas' /\ courtesies' = courtesies
    BY <1>2, <1>3, <1>6, SentRma
  <2>5. /\ DOMAIN rs \subseteq RmaNumbers
        /\ \E x \in OnOrder(rs) :
             /\ rs[x].items = p.items
             /\ \A n \in OnOrder(rs) : n # x => n \in OnOrder(rmas) /\ n # OwnOf(p) /\ rs[n] = rmas[n]
    BY <1>2, <1>3, <1>6, <2>4, SentRma
  <2>6. PICK x \in OnOrder(rs) :
             /\ rs[x].items = p.items
             /\ \A n \in OnOrder(rs) : n # x => n \in OnOrder(rmas) /\ n # OwnOf(p) /\ rs[n] = rmas[n]
    BY <2>5
  <2>7. PICK money : money = RmaRefundCents(rs[x])
    OBVIOUS
  <2>8. money \in Nat /\ money <= cents
    <3>1. money \in {0, cents}
      BY <2>1, <2>6, <2>7 DEF RmaRefundCents
    <3> QED BY <2>2, <3>1
  <2>9. RefundedOf(rs, courtesies) <= total
    <3>1. \A n \in OnOrder(rs) : n # x => n \in OnOrder(rmas) /\ n # own /\ rs[n] = rmas[n]
      BY <2>6, <2>10
    <3>2. DOMAIN rs \subseteq RmaNumbers
      BY <2>5
    <3>3. \A n \in DOMAIN rmas : IsActiveRma(rmas[n]) => rmas[n].hides \notin {"type", "shipping"}
      OBVIOUS
    <3>4. DeskTyped /\ SeesRmas(read) /\ SeesRefunds(read) /\ ~read.cut /\ read.missed = {}
      BY <1>2, <1>3
    <3>5. x \in OnOrder(rs)
      BY <2>6
    <3> QED BY <1>5, <2>2, <2>3, <2>7, <2>8, <3>1, <3>2, <3>3, <3>4, <3>5, MoneyWithin
  <2> QED BY <1>5, <2>4, <2>9
<1>7. CASE p.op = "refund"
  <2>1. PICK cents : cents = p.amount
    OBVIOUS
  <2>2. cents \in Nat /\ BalanceBlockers(cents, read, Absent) = {}
    BY <1>2, <1>4, <1>7, <2>1 DEF OwnOf
  <2>3. PICK c \in RefundIds \ DOMAIN courtesies : courtesies' = Added(courtesies, c, NewRefund(cents, "queued")) /\ rmas' = rmas
    BY <1>3, <1>7, <2>1, EffectIs
  <2>4. PICK cs : cs = courtesies'
    OBVIOUS
  <2>5. RefundedOf(rmas, cs) <= total
    BY <1>2, <1>3, <1>5, <2>2, <2>3, <2>4, MoneyWithinRefund
  <2> QED BY <1>5, <2>3, <2>4, <2>5
<1> QED BY <1>6, <1>7

(* ... and every part within what was ordered of it.                       *)
LEMMA SentQuantity ==
  ASSUME ServiceInv, SendService, NEW p, p = service.plan, p.op \in {"submit", "edit"}, service.asOf = deskMoves,
         "rmas" \notin service.read.missed,
         \A n \in DOMAIN rmas : IsActiveRma(rmas[n]) => rmas[n].hides \notin {"quantity", "lines", "part"},
         NEW i \in DOMAIN p.items, NEW part, part = p.items[i].sellerPartNumber,
         order.items[part].orderedQty # NotRead
  PROVE  ReturnedOf(part, rmas') <= order.items[part].orderedQty
<1>1. PICK read : read = service.read
  OBVIOUS
<1>2. /\ read.order = order /\ order # Absent /\ ~read.cut /\ "rmas" \notin read.missed /\ SeesRmas(read)
      /\ ItemBlockers(p, read, OwnOf(p)) = {}
      /\ p.op = "edit" => p.rmaNumber \in OnOrder(rmas)
  BY <1>1, SentKnows
<1>3. Sound(p) /\ Accepts(p) /\ Effect(p) /\ DeskTyped /\ ServiceTyped
  BY DEF SendService, Judged, ServiceInv, ServiceTyped, CallTyped, IsCall
<1>4. AreLines(p.items) /\ LinesRead(p.items)
  BY <1>3, PlansAre, ReadableLines
<1>5. PICK quantity : quantity = p.items[i].returnQuantity
  OBVIOUS
<1>6. quantity \in Nat
  BY <1>4, <1>5 DEF AreLines
<1>7. PICK ordered : ordered = order.items[part].orderedQty
  OBVIOUS
<1>8. part \in DOMAIN order.items /\ ~(quantity > ordered - AlreadyReturned(part, read, OwnOf(p)))
  BY <1>2, <1>5, <1>7, LinesHold
<1>9. ordered \in Nat
  BY <1>2, <1>3, <1>7, <1>8 DEF DeskTyped, Amounts
<1>10. PICK rs : rs = rmas'
  OBVIOUS
<1>11. /\ DOMAIN rs \subseteq RmaNumbers
       /\ \E x \in OnOrder(rs) :
            /\ rs[x].items = p.items
            /\ \A n \in OnOrder(rs) : n # x => n \in OnOrder(rmas) /\ n # OwnOf(p) /\ rs[n] = rmas[n]
  BY <1>2, <1>3, <1>10, SentRma
<1>12. PICK x \in OnOrder(rs) :
            /\ rs[x].items = p.items
            /\ \A n \in OnOrder(rs) : n # x => n \in OnOrder(rmas) /\ n # OwnOf(p) /\ rs[n] = rmas[n]
  BY <1>11
<1>13. PartQuantity(part, p.items) = quantity
  <2>1. LinesOf(part, p.items) = {i}
    BY <1>3 DEF Sound, LinesOf
  <2>2. PartQuantity(part, p.items) = OrZero(p.items[i].returnQuantity)
    BY <1>4, <2>1, PartQuantityIs
  <2>3. quantity # NotRead
    BY <1>6, ServiceAssumption
  <2> QED BY <1>5, <2>2, <2>3 DEF OrZero
<1>14. ReturnedOf(part, rs) <= ordered
  BY <1>2, <1>3, <1>6, <1>8, <1>9, <1>11, <1>12, <1>13, QuantityWithin
<1> QED BY <1>7, <1>10, <1>14

(* A send that takes effect leaves the order within its total and its      *)
(* quantities, if its reads are fresh.                                     *)
LEMMA SentIsWithinOrder ==
  ASSUME ServiceInv, SendService
  PROVE  SentWithinOrder'
<1>1. PICK p : p = service.plan
  OBVIOUS
<1>2. order' = order
  BY DEF SendService, Effect
<1>3. PICK rs, cs : rs = rmas' /\ cs = courtesies'
  OBVIOUS
<1>4. PICK hidden : hidden = {rmas[n].hides : n \in {m \in DOMAIN rmas : IsActiveRma(rmas[m])}}
  OBVIOUS
<1>5. /\ lastWrite'.op = p.op /\ lastWrite'.plan = p /\ lastWrite'.fresh = (service.asOf = deskMoves)
      /\ lastWrite'.rmas = rs /\ lastWrite'.courtesies = cs /\ lastWrite'.hidden = hidden
      /\ lastWrite'.missed = service.read.missed
  BY <1>1, <1>3, <1>4, WriteNoted
<1>6. PICK last : last = lastWrite'
  OBVIOUS
<1>7. Refunded' = RefundedOf(rs, cs)
  BY <1>5 DEF Refunded, OnTheOrder, RefundedOf, OnOrder, Standing
<1>8. \A part : Returned(part)' = ReturnedOf(part, rs)
  BY <1>5 DEF Returned, OnTheOrder, ReturnedOf, OnOrder
<1>9. \A n \in DOMAIN rmas : IsActiveRma(rmas[n]) => rmas[n].hides \in hidden
  BY <1>4
<1>10. SUFFICES ASSUME p.op \in {"submit", "edit", "refund"}, service.asOf = deskMoves
       PROVE  /\ ((p.op = "refund" \/ p.type = "refund") /\ service.read.missed = {} /\ hidden \cap {"type", "shipping"} = {})
                   => RefundedOf(rs, cs) <= order.total
              /\ (p.op # "refund" /\ "rmas" \notin service.read.missed /\ hidden \cap {"quantity", "lines", "part"} = {}) =>
                   \A i \in DOMAIN p.items :
                     order.items[p.items[i].sellerPartNumber].orderedQty # NotRead =>
                       ReturnedOf(p.items[i].sellerPartNumber, rs) <= order.items[p.items[i].sellerPartNumber].orderedQty
  BY <1>2, <1>5, <1>7, <1>8 DEF SentWithinOrder
<1>11. ASSUME p.op = "refund" \/ p.type = "refund", service.read.missed = {}, hidden \cap {"type", "shipping"} = {}
       PROVE  RefundedOf(rs, cs) <= order.total
  BY <1>1, <1>3, <1>9, <1>10, <1>11, SentMoney
<1>12. ASSUME p.op # "refund", "rmas" \notin service.read.missed, hidden \cap {"quantity", "lines", "part"} = {}, NEW i \in DOMAIN p.items, NEW part,
              part = p.items[i].sellerPartNumber, order.items[part].orderedQty # NotRead
       PROVE  ReturnedOf(part, rs) <= order.items[part].orderedQty
  BY <1>1, <1>3, <1>9, <1>10, <1>12, SentQuantity
<1> QED BY <1>11, <1>12

(* A write that adds to what an order returns and refunds leaves both      *)
(* within what was ordered and paid, whatever the answers hid, cut off or  *)
(* mixed, unless the desk moved after the first read: but for what the     *)
(* checks take on trust, which SentWithinOrder names (a short list without *)
(* a count, a refund still queued, a hidden type, shipping refund, part    *)
(* number or quantity).                                                    *)
THEOREM WritesStayWithinOrder == ServiceSpec => []SentWithinOrder
<1>1. ServiceInit => ServiceInv /\ SentWithinOrder
  BY ServiceStarts DEF ServiceInit, SentWithinOrder
<1>2. ServiceInv /\ SentWithinOrder /\ [ServiceNext]_serviceVars => ServiceInv' /\ SentWithinOrder'
  <2> SUFFICES ASSUME ServiceInv, SentWithinOrder, [ServiceNext]_serviceVars
               PROVE  SentWithinOrder'
    BY ServiceKeeps
  <2>1. CASE SendService
    BY <2>1, SentIsWithinOrder
  <2>2. CASE ~SendService
    BY <2>2, OnlySendWrites DEF SentWithinOrder, Refunded, Returned, OnTheOrder
  <2> QED BY <2>1, <2>2
<1> QED BY <1>1, <1>2, PTL DEF ServiceSpec
=============================================================================
