---------------------------- MODULE MemoryProofs ----------------------------
(***************************************************************************)
(* Proofs about what a process keeps in memory, for any orders, sessions,  *)
(* callers, costs, caps, budgets, windows, expiries, restarts and times.   *)
(*                                                                         *)
(* LabelTools: every label write carries out one preview as it was         *)
(* reviewed, once, none gets past a cap, and the reprints that go ahead    *)
(* keep the cooldown and the hourly count. PreviewStore: a preview is used *)
(* at most once and only by the session that minted it, and what an        *)
(* eviction takes alive, it takes from a session that holds no less.       *)
(* RateLimitStore: no window ever sees more than its budget.               *)
(***************************************************************************)
EXTENDS LabelTools, PreviewStore, RateLimitStore, Induction, FiniteSetTheorems, SequenceTheorems, TLAPS

-----------------------------------------------------------------------------
Cents == {toCents(EstimateTotal(e)) : e \in Estimates} \cup {Nothing}

PreviewRecord == [kind : LabelKinds, order : Orders, session : Sessions, cents : Cents,
                  expiresAt : Int, intact : BOOLEAN]
Job   == [kind : LabelKinds, order : Orders \cup {Nothing}, session : Sessions \cup {Nothing},
          id : Nat, estimate : Estimates \cup {Nothing}]
Write == [id : Nat, kind : LabelKinds, order : Orders, session : Sessions,
          estimate : Estimates \cup {Nothing}, cap : Caps, allowed : BOOLEAN]

Creating == {"preflight", "pricing"}
Applying == Creating \cup {"admitting", "sending"}
Stages   == {"idle", "planning", "quoting"} \cup Applying

Shape ==
  /\ now \in Nat /\ cap \in Caps /\ allowReprint \in BOOLEAN
  /\ previews \in Seq(PreviewRecord) /\ planned \in Seq(PreviewRecord)
  /\ Len(previews) = Len(planned)
  /\ live \subseteq 1 .. Len(planned)
  /\ stage \in [ToolCalls -> Stages] /\ job \in [ToolCalls -> Job]
  /\ sent \in Seq(Write)

(* A stored amount is the one reviewed; so is the rest, unless the seal is  *)
(* broken.                                                                  *)
Sealed ==
  \A i \in 1 .. Len(planned) :
    /\ previews[i].cents = planned[i].cents
    /\ i \in live /\ previews[i].intact =>
         <<previews[i].kind, previews[i].order, previews[i].session>> =
           <<planned[i].kind, planned[i].order, planned[i].session>>

(* What the cap asks of a write of preview i with this estimate.            *)
Paid(k, i, e) ==
  cap # Nothing =>
    \/ /\ k = "create" /\ e # Nothing /\ Readable(e)
       /\ Within(EstimateTotal(e), cap)
       /\ planned[i].cents = Nothing \/ planned[i].cents <= toCents(cap)
    \/ k = "reprint" /\ allowReprint

(* A call that previews is about an order and a session; one that applies   *)
(* holds a preview that is spent, that nobody else holds and that was not   *)
(* written, as it was reviewed.                                             *)
Working(c) ==
  /\ stage[c] \in {"planning", "quoting"} => job[c].order \in Orders /\ job[c].session \in Sessions
  /\ stage[c] \in Creating => job[c].kind = "create"
  /\ stage[c] = "admitting" => job[c].kind = "reprint"
  /\ stage[c] \in Applying =>
       /\ job[c].id \in 1 .. Len(planned) /\ job[c].id \notin live
       /\ <<job[c].kind, job[c].order, job[c].session>> =
            <<planned[job[c].id].kind, planned[job[c].id].order, planned[job[c].id].session>>
       /\ \A i \in 1 .. Len(sent) : sent[i].id # job[c].id
       /\ \A d \in ToolCalls : stage[d] \in Applying /\ job[d].id = job[c].id => d = c
  /\ stage[c] = "sending" => Paid(job[c].kind, job[c].id, job[c].estimate)

Written == \A i \in 1 .. Len(sent) : sent[i].id \in 1 .. Len(planned) /\ sent[i].id \notin live

(* The inductive invariant of the tools.                                    *)
ToolsInv ==
  /\ Shape /\ Sealed /\ Written
  /\ \A c \in ToolCalls : Working(c)
  /\ WithinCap /\ SentOnceAsReviewed

-----------------------------------------------------------------------------
(* A step of one call that leaves the store, the writes and the             *)
(* configuration alone only has to keep that call in order.                 *)
LEMMA OneCall ==
  ASSUME ToolsInv, NEW c \in ToolCalls, NEW s \in Stages, NEW j \in Job,
         stage' = [stage EXCEPT ![c] = s], job' = [job EXCEPT ![c] = j],
         UNCHANGED <<now, store, config, sent>>,
         s \in Applying => stage[c] \in Applying /\ j.id = job[c].id,
         Working(c)'
  PROVE  ToolsInv'
<1>1. Shape'
  BY DEF ToolsInv, Shape, store, config
<1>2. Sealed' /\ Written' /\ WithinCap' /\ SentOnceAsReviewed'
  BY DEF ToolsInv, Sealed, Written, WithinCap, SentOnceAsReviewed, store, config
<1>3. ASSUME NEW d \in ToolCalls, d # c PROVE Working(d)'
  <2>1. Working(d) /\ stage'[d] = stage[d] /\ job'[d] = job[d]
    BY <1>3 DEF ToolsInv, Shape
  <2>2. stage'[c] = s /\ job'[c] = j
    BY DEF ToolsInv, Shape
  <2>3. \A x \in ToolCalls \ {c} : stage'[x] = stage[x] /\ job'[x] = job[x]
    BY DEF ToolsInv, Shape
  <2>4. \A x \in ToolCalls : stage'[x] \in Applying => stage[x] \in Applying /\ job'[x].id = job[x].id
    BY <2>2, <2>3
  <2> QED BY <2>1, <2>4 DEF Working, Paid, store, config
<1> QED BY <1>1, <1>2, <1>3 DEF ToolsInv

(* The end of a call keeps the invariant.                                  *)
LEMMA EndSafe ==
  ASSUME ToolsInv, NEW c \in ToolCalls, End(c), UNCHANGED <<now, store, config, sent>>
  PROVE  ToolsInv'
<1>1. NoJob \in Job
  BY DEF NoJob, Job, LabelKinds
<1>2. stage'[c] = "idle"
  BY DEF End, ToolsInv, Shape
<1>3. Working(c)'
  BY <1>2 DEF Working, Creating, Applying
<1> QED BY <1>1, <1>3, OneCall DEF End, Stages, Applying, Creating

-----------------------------------------------------------------------------
(* A preview tool starts (Preview). *)
LEMMA PreviewSafe ==
  ASSUME ToolsInv, NEW c \in ToolCalls, Preview(c)
  PROVE  ToolsInv'
<1>1. PICK k \in LabelKinds, o \in Orders, s \in Sessions :
        job' = [job EXCEPT ![c] = [NoJob EXCEPT !.kind = k, !.order = o, !.session = s]]
  BY DEF Preview
<1> DEFINE j == [NoJob EXCEPT !.kind = k, !.order = o, !.session = s]
<1>2. j \in Job /\ j.order \in Orders /\ j.session \in Sessions
  BY DEF Job, NoJob
<1>3. stage'[c] = "planning" /\ job'[c] = j
  BY <1>1 DEF Preview, Busy, ToolsInv, Shape
<1>4. Working(c)'
  BY <1>2, <1>3 DEF Working, Creating, Applying
<1>5. stage' = [stage EXCEPT ![c] = "planning"] /\ UNCHANGED <<now, store, config, sent>>
  BY DEF Preview, Busy
<1> HIDE DEF j
<1> QED BY <1>1, <1>2, <1>4, <1>5, OneCall DEF Stages, Applying, Creating, j

(* A preview that is stored is one nobody holds and nothing was written of  *)
(* (Store, as a step of Plan and of QuotePreview).                          *)
LEMMA StoreSafe ==
  ASSUME ToolsInv, NEW c \in ToolCalls, stage[c] \in {"planning", "quoting"},
         NEW cents \in Cents, Store(c, cents), UNCHANGED <<now, config, sent>>
  PROVE  ToolsInv'
<1> DEFINE new == [kind |-> job[c].kind, order |-> job[c].order, session |-> job[c].session,
                   cents |-> cents, expiresAt |-> now + TTL, intact |-> TRUE]
           n == Len(planned)
<1>1. Shape /\ n \in Nat /\ Len(previews) = n
  BY DEF ToolsInv, Shape
<1>2. job[c] \in Job /\ job[c].order \in Orders /\ job[c].session \in Sessions
  BY DEF ToolsInv, Shape, Working
<1>3. new \in PreviewRecord
  BY <1>1, <1>2, ToolsAssumption DEF PreviewRecord, Job, Shape
<1>4. CASE UNCHANGED store
  BY <1>4, EndSafe DEF Store
<1>5. CASE ~UNCHANGED store
  <2>1. /\ previews' = Append(previews, new) /\ planned' = Append(planned, new)
        /\ live' = live \cup {n + 1} /\ End(c)
    BY <1>1, <1>5 DEF Store
  <2>2. /\ previews' \in Seq(PreviewRecord) /\ planned' \in Seq(PreviewRecord)
        /\ Len(planned') = n + 1 /\ Len(previews') = n + 1
        /\ planned'[n + 1] = new /\ previews'[n + 1] = new
        /\ \A i \in 1 .. n : planned'[i] = planned[i] /\ previews'[i] = previews[i]
    <3> HIDE DEF new
    <3> QED BY <1>1, <1>3, <2>1 DEF Shape
  <2>3. NoJob \in Job
    BY DEF NoJob, Job, LabelKinds
  <2>4. /\ stage' \in [ToolCalls -> Stages] /\ job' \in [ToolCalls -> Job] /\ stage'[c] = "idle"
        /\ \A d \in ToolCalls \ {c} : stage'[d] = stage[d] /\ job'[d] = job[d]
    BY <1>1, <2>1, <2>3 DEF End, Shape, Stages
  <2> HIDE DEF new
  <2>5. live' \subseteq 1 .. Len(planned') /\ \A i \in 1 .. n : i \notin live => i \notin live'
    <3>1. live \subseteq 1 .. n
      BY <1>1 DEF Shape
    <3>2. live' = live \cup {n + 1} /\ Len(planned') = n + 1 /\ n \in Nat
      BY <1>1, <2>1, <2>2
    <3> HIDE DEF n
    <3>3. live' \subseteq 1 .. n + 1
      BY <3>1, <3>2
    <3>4. \A i \in 1 .. n : i \notin live => i \notin live'
      BY <3>2
    <3> QED BY <3>2, <3>3, <3>4
  <2>6. Shape'
    BY <1>1, <2>2, <2>4, <2>5 DEF Shape, config
  <2>7. Sealed'
    BY <1>1, <2>1, <2>2, SMTT(30) DEF ToolsInv, Sealed
  <2>8. Written' /\ WithinCap' /\ SentOnceAsReviewed'
    <3>1. \A i \in 1 .. Len(sent) : sent[i].id \in 1 .. n /\ sent[i].id \notin live
      BY DEF ToolsInv, Written
    <3>2. Written'
      BY <1>1, <2>1, <2>2, <2>5, <3>1 DEF Written
    <3>3. \A i \in 1 .. Len(sent) : planned'[sent[i].id] = planned[sent[i].id]
      BY <2>2, <3>1
    <3> QED BY <3>2, <3>3 DEF ToolsInv, WithinCap, SentOnceAsReviewed
  <2>9. Working(c)'
    BY <2>4 DEF Working, Applying, Creating
  <2>10. ASSUME NEW d \in ToolCalls, d # c PROVE Working(d)'
    <3>1. Working(d) /\ stage'[d] = stage[d] /\ job'[d] = job[d]
      BY <2>4, <2>10 DEF ToolsInv
    <3>2. \A x \in ToolCalls : stage'[x] \in Applying => stage[x] \in Applying /\ job'[x] = job[x]
      BY <2>4 DEF Applying, Creating
    <3>3. stage[d] \in Applying => job[d].id \in 1 .. n /\ job[d].id \in 1 .. Len(planned')
                                   /\ job[d].id \notin live' /\ planned'[job[d].id] = planned[job[d].id]
      BY <1>1, <2>2, <2>5, <3>1 DEF Working
    <3>4. stage[d] = "sending" => Paid(job[d].kind, job[d].id, job[d].estimate)'
      BY <3>1, <3>3 DEF Working, Paid, config, Within, Applying
    <3> QED BY <3>1, <3>2, <3>3, <3>4 DEF Working
  <2> QED BY <2>6, <2>7, <2>8, <2>9, <2>10 DEF ToolsInv
<1> QED BY <1>4, <1>5

(* So does the plan of a label.                                            *)
LEMMA PlanSafe ==
  ASSUME ToolsInv, NEW c \in ToolCalls, Plan(c)
  PROVE  ToolsInv'
<1>1. stage[c] = "planning" /\ UNCHANGED <<now, config, sent>>
  BY DEF Plan
<1>2. CASE End(c) /\ UNCHANGED store
  BY <1>1, <1>2, EndSafe
<1>3. CASE Store(c, Nothing)
  BY <1>1, <1>3, StoreSafe DEF Cents
<1>4. CASE Busy(c, "quoting") /\ UNCHANGED <<store, job>>
  <2>1. stage'[c] = "quoting" /\ job'[c] = job[c] /\ job[c] \in Job /\ Working(c)
    BY <1>4 DEF Busy, ToolsInv, Shape
  <2>2. Working(c)'
    BY <1>1, <2>1 DEF Working, Creating, Applying
  <2>3. job' = [job EXCEPT ![c] = job[c]]
    BY <1>4 DEF ToolsInv, Shape
  <2> QED BY <1>1, <1>4, <2>1, <2>2, <2>3, OneCall DEF Busy, Stages, Applying, Creating
<1> QED BY <1>2, <1>3, <1>4 DEF Plan

(* So does the preview of a quote.                                         *)
LEMMA QuotePreviewSafe ==
  ASSUME ToolsInv, NEW c \in ToolCalls, QuotePreview(c)
  PROVE  ToolsInv'
<1>1. stage[c] = "quoting" /\ UNCHANGED <<now, config, sent>>
  BY DEF QuotePreview
<1>2. PICK e \in Estimates \cup {Nothing} :
        IF QuoteOk(job[c].kind, e)
        THEN Store(c, IF job[c].kind = "create" THEN toCents(EstimateTotal(e)) ELSE Nothing)
        ELSE End(c) /\ UNCHANGED store
  BY DEF QuotePreview
<1>3. CASE ~QuoteOk(job[c].kind, e)
  BY <1>1, <1>2, <1>3, EndSafe
<1>4. CASE QuoteOk(job[c].kind, e)
  <2> DEFINE cents == IF job[c].kind = "create" THEN toCents(EstimateTotal(e)) ELSE Nothing
  <2>1. cents \in Cents
    BY <1>4 DEF Cents, QuoteOk
  <2> HIDE DEF cents
  <2>2. Store(c, cents)
    BY <1>2, <1>4 DEF cents
  <2> QED BY <1>1, <2>1, <2>2, StoreSafe
<1> QED BY <1>3, <1>4

-----------------------------------------------------------------------------
(* An apply takes the preview out of the store: nobody else held it, and    *)
(* nothing was written of it (Apply).                                       *)
LEMMA ApplySafe ==
  ASSUME ToolsInv, NEW c \in ToolCalls, Apply(c)
  PROVE  ToolsInv'
<1>1. PICK id \in live, k \in LabelKinds :
        /\ Spend(id, k)
        /\ IF Accepted(id, k)
           THEN /\ job' = [job EXCEPT ![c] = [NoJob EXCEPT !.kind = k, !.order = previews[id].order,
                                                           !.session = previews[id].session, !.id = id]]
                /\ Busy(c, IF k = "create" THEN "preflight" ELSE "admitting")
           ELSE UNCHANGED <<stage, job>>
  BY DEF Apply
<1>2. stage[c] = "idle" /\ UNCHANGED <<now, previews, planned, config, sent>>
  BY DEF Apply, limiter
<1>3. live' = live \ {id} /\ id \in 1 .. Len(planned) /\ previews[id] \in PreviewRecord
  BY <1>1 DEF Spend, ToolsInv, Shape
<1>4. Sealed' /\ Written' /\ WithinCap' /\ SentOnceAsReviewed'
  BY <1>2, <1>3 DEF ToolsInv, Sealed, Written, WithinCap, SentOnceAsReviewed
<1>5. CASE ~Accepted(id, k)
  <2>1. UNCHANGED <<stage, job>>
    BY <1>1, <1>5
  <2>2. Shape'
    BY <1>2, <1>3, <2>1 DEF ToolsInv, Shape, config
  <2>3. \A d \in ToolCalls : Working(d)'
    BY <1>2, <1>3, <2>1 DEF ToolsInv, Working, Paid, config
  <2> QED BY <1>4, <2>2, <2>3 DEF ToolsInv
<1>6. CASE Accepted(id, k)
  <2> DEFINE j == [NoJob EXCEPT !.kind = k, !.order = previews[id].order,
                                !.session = previews[id].session, !.id = id]
             s == IF k = "create" THEN "preflight" ELSE "admitting"
  <2>1. job' = [job EXCEPT ![c] = j] /\ stage' = [stage EXCEPT ![c] = s]
    BY <1>1, <1>6 DEF Busy
  <2>2. /\ j \in Job /\ j.id = id /\ j.kind = k
        /\ <<j.kind, j.order, j.session>> = <<planned[id].kind, planned[id].order, planned[id].session>>
    <3>1. previews[id].kind = k /\ previews[id].intact
      BY <1>6 DEF Accepted
    <3>2. <<previews[id].kind, previews[id].order, previews[id].session>> =
            <<planned[id].kind, planned[id].order, planned[id].session>>
      BY <1>1, <1>3, <3>1 DEF ToolsInv, Sealed
    <3>3. id \in Nat /\ previews[id].order \in Orders /\ previews[id].session \in Sessions
      BY <1>3 DEF PreviewRecord, ToolsInv, Shape
    <3> QED BY <3>1, <3>2, <3>3 DEF Job, NoJob
  <2>3. s \in Stages /\ s \in Applying /\ s # "sending"
        /\ (s \in Creating => k = "create") /\ (s = "admitting" => k = "reprint")
    BY DEF Stages, Applying, Creating, LabelKinds
  <2> HIDE DEF j, s
  <2>4. /\ stage'[c] = s /\ job'[c] = j
        /\ \A d \in ToolCalls \ {c} : stage'[d] = stage[d] /\ job'[d] = job[d]
    BY <2>1 DEF ToolsInv, Shape
  <2>5. Shape'
    BY <1>2, <1>3, <2>1, <2>2, <2>3 DEF ToolsInv, Shape, config
  <2>6. \A d \in ToolCalls : stage[d] \in Applying => job[d].id \notin live
    BY DEF ToolsInv, Working
  <2>7. ASSUME NEW d \in ToolCalls, d # c PROVE Working(d)'
    <3>1. Working(d) /\ stage'[d] = stage[d] /\ job'[d] = job[d]
      BY <2>4, <2>7 DEF ToolsInv
    <3>2. \A x \in ToolCalls \ {c} : stage'[x] \in Applying /\ job'[x].id = job[d].id
                                       => stage[x] \in Applying /\ job[x].id = job[d].id
      BY <2>4
    <3>3. stage[d] \in Applying => job[d].id # id
      BY <1>1, <2>6
    <3>4. stage[d] = "sending" => Paid(job[d].kind, job[d].id, job[d].estimate)'
      BY <1>2, <3>1 DEF Working, Paid, config
    <3> QED BY <1>2, <1>3, <2>2, <2>4, <3>1, <3>2, <3>3, <3>4 DEF Working
  <2>8. Working(c)'
    <3>1. \A i \in 1 .. Len(sent) : sent[i].id # id
      BY <1>1 DEF ToolsInv, Written
    <3>2. \A d \in ToolCalls \ {c} : stage'[d] \in Applying => job'[d].id # id
      BY <1>1, <2>4, <2>6
    <3>3. s \notin {"planning", "quoting"}
      BY <2>3 DEF Applying, Creating
    <3> QED BY <1>2, <1>3, <2>2, <2>3, <2>4, <3>1, <3>2, <3>3 DEF Working
  <2> QED BY <1>4, <2>5, <2>7, <2>8 DEF ToolsInv
<1> QED BY <1>5, <1>6

(* A call that stays the one it is, with the checks of its stage done.      *)
LEMMA Advance ==
  ASSUME ToolsInv, NEW c \in ToolCalls, stage[c] \in Applying,
         NEW s \in {"pricing", "sending"}, NEW e \in Estimates \cup {Nothing},
         Busy(c, s), job' = [job EXCEPT ![c].estimate = e],
         s = "pricing" => job[c].kind = "create",
         s = "sending" => Paid(job[c].kind, job[c].id, e),
         UNCHANGED <<now, store, config, sent>>
  PROVE  ToolsInv'
<1> DEFINE j == [job[c] EXCEPT !.estimate = e]
<1>1. job[c] \in Job /\ Working(c)
  BY DEF ToolsInv, Shape
<1>2. j \in Job /\ j.id = job[c].id /\ j.kind = job[c].kind /\ j.order = job[c].order
      /\ j.session = job[c].session /\ j.estimate = e
  BY <1>1 DEF Job
<1>3. job' = [job EXCEPT ![c] = j]
  BY DEF ToolsInv, Shape
<1> HIDE DEF j
<1>4. /\ stage'[c] = s /\ job'[c] = j
      /\ \A d \in ToolCalls \ {c} : stage'[d] = stage[d] /\ job'[d] = job[d]
  BY <1>3 DEF Busy, ToolsInv, Shape
<1>5. s = "sending" => Paid(job[c].kind, job[c].id, job[c].estimate)'
  BY <1>2, <1>4 DEF Paid, store, config
<1>6. \A d \in ToolCalls : stage'[d] \in Applying => stage[d] \in Applying /\ job'[d].id = job[d].id
  BY <1>2, <1>4
<1>7. s \notin {"planning", "quoting", "preflight", "admitting"} /\ (s \in Creating => s = "pricing")
  BY DEF Creating
<1>8. Working(c)'
  BY <1>1, <1>2, <1>4, <1>5, <1>6, <1>7 DEF Working, store
<1> QED BY <1>2, <1>3, <1>8, OneCall DEF Busy, Stages, Applying, Creating

(* A job with the estimate it has is the job itself.                       *)
LEMMA SameEstimate ==
  ASSUME ToolsInv, NEW c \in ToolCalls
  PROVE  /\ job[c].estimate \in Estimates \cup {Nothing}
         /\ job = [job EXCEPT ![c].estimate = job[c].estimate]
<1>1. job \in [ToolCalls -> Job] /\ job[c] \in Job
  BY DEF ToolsInv, Shape
<1>2. job[c] = [job[c] EXCEPT !.estimate = job[c].estimate]
  BY <1>1 DEF Job
<1> QED BY <1>1, <1>2 DEF Job

(* So does the preflight.                                                  *)
LEMMA PreflightSafe ==
  ASSUME ToolsInv, NEW c \in ToolCalls, Preflight(c)
  PROVE  ToolsInv'
<1>1. stage[c] = "preflight" /\ UNCHANGED <<now, store, config, sent>>
  BY DEF Preflight
<1>2. CASE End(c)
  BY <1>1, <1>2, EndSafe
<1>3. CASE Busy(c, "pricing") /\ UNCHANGED job
  <2>1. job[c].kind = "create"
    BY <1>1 DEF ToolsInv, Working, Creating
  <2> QED BY <1>1, <1>3, <2>1, SameEstimate, Advance DEF Applying, Creating
<1> QED BY <1>2, <1>3 DEF Preflight

(* A create is sent only with the amount the reviewer saw and the fresh     *)
(* quote both within the cap (Price).                                       *)
LEMMA PriceSafe ==
  ASSUME ToolsInv, NEW c \in ToolCalls, Price(c)
  PROVE  ToolsInv'
<1>1. stage[c] = "pricing" /\ UNCHANGED <<now, store, config, sent>>
  BY DEF Price
<1>2. job[c].kind = "create" /\ job[c].id \in 1 .. Len(planned) /\ stage[c] \in Applying
  BY <1>1 DEF ToolsInv, Working, Creating, Applying
<1>3. CASE cap = Nothing
  <2>1. Busy(c, "sending") /\ UNCHANGED job
    BY <1>3 DEF Price
  <2>2. Paid(job[c].kind, job[c].id, job[c].estimate)
    BY <1>3 DEF Paid
  <2> QED BY <1>1, <1>2, <2>1, <2>2, SameEstimate, Advance
<1>4. CASE cap # Nothing
  <2>1. PICK e \in Estimates \cup {Nothing} :
          IF ReviewedOk(job[c].id) /\ QuoteOk("create", e)
          THEN Busy(c, "sending") /\ job' = [job EXCEPT ![c].estimate = e]
          ELSE End(c)
    BY <1>4 DEF Price
  <2>2. CASE ~(ReviewedOk(job[c].id) /\ QuoteOk("create", e))
    BY <1>1, <2>1, <2>2, EndSafe
  <2>3. CASE ReviewedOk(job[c].id) /\ QuoteOk("create", e)
    <3>1. previews[job[c].id].cents = planned[job[c].id].cents
      BY <1>2 DEF ToolsInv, Sealed
    <3>2. planned[job[c].id].cents = Nothing \/ planned[job[c].id].cents <= toCents(cap)
      BY <2>3, <3>1 DEF ReviewedOk
    <3>3. e # Nothing /\ Readable(e) /\ Within(EstimateTotal(e), cap)
      BY <2>3 DEF QuoteOk
    <3>4. Paid(job[c].kind, job[c].id, e)
      BY <1>2, <3>2, <3>3 DEF Paid
    <3> QED BY <1>1, <1>2, <2>1, <2>3, <3>4, Advance
  <2> QED BY <2>2, <2>3
<1> QED BY <1>3, <1>4

(* Under a cap a reprint is sent only with the operator's leave (Admit). *)
LEMMA AdmitSafe ==
  ASSUME ToolsInv, NEW c \in ToolCalls, Admit(c)
  PROVE  ToolsInv'
<1>1. stage[c] = "admitting" /\ UNCHANGED <<now, store, config, sent>>
  BY DEF Admit
<1>2. job[c].kind = "reprint" /\ stage[c] \in Applying
  BY <1>1 DEF ToolsInv, Working, Applying
<1>3. CASE End(c)
  BY <1>1, <1>3, EndSafe
<1>4. CASE ~End(c)
  <2>1. Busy(c, "sending") /\ UNCHANGED job /\ (cap = Nothing \/ QuoteOk("reprint", Nothing))
    BY <1>4 DEF Admit
  <2>2. Paid(job[c].kind, job[c].id, job[c].estimate)
    BY <1>2, <2>1 DEF Paid, QuoteOk
  <2> QED BY <1>1, <1>2, <2>1, <2>2, SameEstimate, Advance
<1> QED BY <1>3, <1>4

-----------------------------------------------------------------------------
(* The write (Send): the preview a call held is now a written one.          *)
LEMMA SendSafe ==
  ASSUME ToolsInv, NEW c \in ToolCalls, Send(c)
  PROVE  ToolsInv'
<1>1. stage[c] = "sending" /\ End(c) /\ UNCHANGED <<now, store, config>>
  BY DEF Send, limiter
<1>2. CASE UNCHANGED sent
  BY <1>1, <1>2, EndSafe
<1>3. CASE ~UNCHANGED sent
  <2> DEFINE w == [id |-> job[c].id, kind |-> job[c].kind, order |-> job[c].order,
                   session |-> job[c].session, estimate |-> job[c].estimate,
                   cap |-> cap, allowed |-> allowReprint]
             n == Len(sent)
             i == job[c].id
  <2>1. sent' = Append(sent, w)
    BY <1>3 DEF Send
  <2>2. /\ Shape /\ Working(c) /\ stage[c] \in Applying /\ job[c] \in Job
        /\ i \in 1 .. Len(planned) /\ i \notin live
        /\ \A k \in 1 .. n : sent[k].id # i
        /\ <<w.kind, w.order, w.session>> = <<planned[i].kind, planned[i].order, planned[i].session>>
        /\ Paid(w.kind, i, w.estimate)
    BY <1>1 DEF ToolsInv, Shape, Working, Applying
  <2>3. planned[i] \in PreviewRecord
    BY <2>2 DEF Shape
  <2>4. w \in Write
    BY <2>2, <2>3 DEF Shape, Write, Job, PreviewRecord
  <2>5. w.id = i /\ w.cap = cap /\ w.allowed = allowReprint
    OBVIOUS
  <2> HIDE DEF w
  <2>6. /\ sent' \in Seq(Write) /\ Len(sent') = n + 1 /\ n \in Nat /\ sent'[n + 1] = w
        /\ \A k \in 1 .. n : sent'[k] = sent[k]
    BY <2>1, <2>2, <2>4 DEF Shape
  <2>7. NoJob \in Job
    BY DEF NoJob, Job, LabelKinds
  <2>8. /\ stage' \in [ToolCalls -> Stages] /\ job' \in [ToolCalls -> Job] /\ stage'[c] = "idle"
        /\ \A d \in ToolCalls \ {c} : stage'[d] = stage[d] /\ job'[d] = job[d]
    BY <1>1, <2>2, <2>7 DEF End, Shape, Stages
  <2>9. Shape' /\ Sealed'
    BY <1>1, <2>2, <2>6, <2>8 DEF ToolsInv, Shape, Sealed, store, config
  <2>10. Written'
    BY <1>1, <2>2, <2>5, <2>6 DEF ToolsInv, Written, store
  <2>11. WithinCap'
    <3>1. \A k \in 1 .. n : sent'[k] = sent[k] /\ planned' = planned
      BY <1>1, <2>6 DEF store
    <3>2. cap # Nothing =>
            \/ /\ w.kind = "create" /\ w.estimate # Nothing
               /\ Len(w.estimate) = Packages /\ \A p \in 1 .. Packages : w.estimate[p] > 0
               /\ toCents(EstimateTotal(w.estimate)) <= toCents(w.cap)
               /\ planned[w.id].cents = Nothing \/ planned[w.id].cents <= toCents(w.cap)
            \/ w.kind = "reprint" /\ w.allowed
      BY <2>2, <2>5 DEF Paid, Readable, Within
    <3> QED BY <1>1, <2>5, <2>6, <3>1, <3>2 DEF ToolsInv, WithinCap, store
  <2>12. SentOnceAsReviewed'
    BY <1>1, <2>2, <2>5, <2>6 DEF ToolsInv, SentOnceAsReviewed, store
  <2>13. Working(c)'
    BY <2>8 DEF Working, Applying, Creating
  <2>14. ASSUME NEW d \in ToolCalls, d # c PROVE Working(d)'
    <3>1. Working(d) /\ stage'[d] = stage[d] /\ job'[d] = job[d]
      BY <2>8, <2>14 DEF ToolsInv
    <3>2. \A x \in ToolCalls : stage'[x] \in Applying => stage[x] \in Applying /\ job'[x] = job[x]
      BY <2>8 DEF Applying, Creating
    <3>3. stage[d] \in Applying => job[d].id # i
      BY <2>2, <2>14 DEF Working
    <3>4. stage[d] = "sending" => Paid(job[d].kind, job[d].id, job[d].estimate)'
      BY <1>1, <3>1 DEF Working, Paid, store, config
    <3>5. stage[d] \in Applying => \A k \in 1 .. n + 1 : sent'[k].id # job[d].id
      BY <2>5, <2>6, <3>1, <3>3 DEF Working
    <3> QED BY <1>1, <2>6, <3>1, <3>2, <3>4, <3>5 DEF Working, store
  <2> QED BY <2>9, <2>10, <2>11, <2>12, <2>13, <2>14 DEF ToolsInv
<1> QED BY <1>2, <1>3

-----------------------------------------------------------------------------
(* A store that gives a record back altered breaks its seal (Corrupt). *)
LEMMA CorruptSafe ==
  ASSUME ToolsInv, Corrupt
  PROVE  ToolsInv'
<1>1. PICK id \in live, o \in Orders :
        previews' = [previews EXCEPT ![id].order = o, ![id].intact = FALSE]
  BY DEF Corrupt
<1>2. UNCHANGED <<now, live, planned, config, stage, job, sent>>
  BY DEF Corrupt
<1>3. /\ previews \in Seq(PreviewRecord) /\ Len(previews) = Len(planned)
      /\ id \in 1 .. Len(previews) /\ previews[id] \in PreviewRecord
  BY <1>1 DEF ToolsInv, Shape
<1> DEFINE r == [previews[id] EXCEPT !.order = o, !.intact = FALSE]
<1>4. r \in PreviewRecord /\ ~r.intact /\ r.cents = previews[id].cents
  BY <1>3 DEF PreviewRecord
<1>5. previews' = [previews EXCEPT ![id] = r]
  BY <1>1, <1>3 DEF PreviewRecord
<1> HIDE DEF r
<1>6. /\ previews' \in Seq(PreviewRecord) /\ Len(previews') = Len(previews) /\ previews'[id] = r
      /\ \A i \in 1 .. Len(previews) : i # id => previews'[i] = previews[i]
  BY <1>3, <1>4, <1>5
<1>7. Shape'
  BY <1>2, <1>6 DEF ToolsInv, Shape, config
<1>8. Sealed'
  BY <1>2, <1>3, <1>4, <1>6 DEF ToolsInv, Sealed
<1>9. /\ Written' /\ WithinCap' /\ SentOnceAsReviewed'
      /\ \A c \in ToolCalls : Working(c)'
  BY <1>2 DEF ToolsInv, Written, WithinCap, SentOnceAsReviewed, Working, Paid, config
<1> QED BY <1>7, <1>8, <1>9 DEF ToolsInv

(* A restart ends every call; what the store still holds was never taken    *)
(* (Restart).                                                               *)
LEMMA RestartSafe ==
  ASSUME ToolsInv, Restart
  PROVE  ToolsInv'
<1>1. /\ UNCHANGED <<now, previews, planned, sent>> /\ live' \subseteq live
      /\ cap' \in Caps /\ allowReprint' \in BOOLEAN
      /\ stage' = [c \in ToolCalls |-> "idle"] /\ job' = [c \in ToolCalls |-> NoJob]
  BY DEF Restart
<1>2. NoJob \in Job
  BY DEF NoJob, Job, LabelKinds
<1>3. Shape'
  BY <1>1, <1>2 DEF ToolsInv, Shape, Stages
<1>4. \A c \in ToolCalls : Working(c)'
  BY <1>1 DEF Working, Applying, Creating
<1> QED BY <1>1, <1>3, <1>4 DEF ToolsInv, Sealed, Written, WithinCap, SentOnceAsReviewed

(* So does the passing of time.                                            *)
LEMMA TickSafe ==
  ASSUME ToolsInv, Tick
  PROVE  ToolsInv'
<1>1. UNCHANGED <<store, config, stage, job, sent>> /\ now' = now + 1
  BY DEF Tick
<1>2. Shape'
  BY <1>1 DEF ToolsInv, Shape, store, config
<1> QED BY <1>1, <1>2 DEF ToolsInv, Sealed, Written, WithinCap, SentOnceAsReviewed, Working, Paid,
                          store, config

(* The invariant of the tools holds before any call.                       *)
LEMMA ToolsStart == ToolsInit => ToolsInv
<1> SUFFICES ASSUME ToolsInit PROVE ToolsInv
  OBVIOUS
<1>1. NoJob \in Job
  BY DEF NoJob, Job, LabelKinds
<1>2. Shape
  BY <1>1 DEF ToolsInit, Shape, Stages
<1>3. previews = <<>> /\ planned = <<>> /\ sent = <<>> /\ \A c \in ToolCalls : stage[c] = "idle"
  BY DEF ToolsInit
<1>4. \A c \in ToolCalls : Working(c)
  BY <1>3 DEF Working, Applying, Creating
<1> QED BY <1>2, <1>3, <1>4 DEF ToolsInv, Sealed, Written, WithinCap, SentOnceAsReviewed

(* Every step of the tools keeps it.                                       *)
LEMMA ToolsKept == ToolsInv /\ [ToolsNext]_toolVars => ToolsInv'
<1> SUFFICES ASSUME ToolsInv, [ToolsNext]_toolVars PROVE ToolsInv'
  OBVIOUS
<1>1. ASSUME NEW c \in ToolCalls, Step(c) PROVE ToolsInv'
  BY <1>1, PreviewSafe, PlanSafe, QuotePreviewSafe, ApplySafe, PreflightSafe, PriceSafe,
     AdmitSafe, SendSafe DEF Step
<1>2. CASE UNCHANGED toolVars
  <2>1. UNCHANGED <<now, cap, allowReprint, previews, live, stage, job, byOrder, attempts, blocked,
                    planned, life, reserved, sent>>
    BY <1>2 DEF toolVars, store, config, limiter
  <2>2. Shape'
    BY <2>1 DEF ToolsInv, Shape
  <2>3. (Sealed /\ Written /\ WithinCap /\ SentOnceAsReviewed)'
    BY <2>1 DEF ToolsInv, Sealed, Written, WithinCap, SentOnceAsReviewed, Paid
  <2>4. \A c \in ToolCalls : Working(c)'
    BY <2>1 DEF ToolsInv, Working, Paid
  <2> QED BY <2>2, <2>3, <2>4 DEF ToolsInv
<1> QED BY <1>1, <1>2, CorruptSafe, RestartSafe, TickSafe DEF ToolsNext

(* For any orders, sessions, calls, estimates and caps: whatever changes    *)
(* between a preview and its apply, and however the process restarts, the   *)
(* tools keep their invariant (shipping-label-write.ts:447-492).            *)
THEOREM ToolsInvariant == ToolsSpec => []ToolsInv
<1> QED BY ToolsStart, ToolsKept, PTL DEF ToolsSpec

(* No label is bought beyond the cap in force when it is sent.              *)
THEOREM CapIsKept == ToolsSpec => []WithinCap
<1>1. ToolsInv => WithinCap
  BY DEF ToolsInv
<1> QED BY <1>1, ToolsInvariant, PTL

(* Every write is one reviewed preview, carried out once: a preview that    *)
(* was taken is never taken again, by whatever call, tool or process        *)
(* (preview-apply-core.ts:44-92).                                           *)
THEOREM ReviewIsKept == ToolsSpec => []SentOnceAsReviewed
<1>1. ToolsInv => SentOnceAsReviewed
  BY DEF ToolsInv
<1> QED BY <1>1, ToolsInvariant, PTL

-----------------------------------------------------------------------------
(* The reprint limiter. What it remembers covers what it let through in     *)
(* this process: the last reprint of each order, and each one of the hour.  *)
Reservation == [id : Nat, order : Orders, at : Nat, life : Nat]

LimiterShape ==
  /\ reserved \in Seq(Reservation) /\ byOrder \in [Orders -> Int] /\ life \in Nat
  /\ attempts \subseteq [n : Nat, at : Nat] /\ IsFiniteSet(attempts)

Remembered(k) ==
  /\ reserved[k].at <= now /\ reserved[k].life <= life
  /\ reserved[k].life = life =>
       /\ reserved[k].at <= byOrder[reserved[k].order]
       /\ now - reserved[k].at < HOUR_MS => [n |-> k, at |-> reserved[k].at] \in attempts

HasReservation(id) == \E k \in 1 .. Len(reserved) : reserved[k].id = id

ReprintInv ==
  /\ LimiterShape
  /\ \A k \in 1 .. Len(reserved) : Remembered(k)
  /\ \A c \in ToolCalls : stage[c] = "sending" /\ job[c].kind = "reprint" => HasReservation(job[c].id)
  /\ ReprintsSpaced

(* The reprints of this process that the hour of one of them takes in.      *)
InHourOf(k) ==
  {i \in 1 .. k : reserved[i].life = reserved[k].life /\ reserved[k].at - reserved[i].at < HOUR_MS}

-----------------------------------------------------------------------------
(* A step that admits no reprint: calls that come to send one were          *)
(* admitted, and so was what is sent.                                       *)
LEMMA NoneAdmitted ==
  ASSUME ReprintInv, UNCHANGED <<limiter, life>>, now \in Nat, now' \in Nat, now' >= now,
         \A c \in ToolCalls : stage'[c] = "sending" /\ job'[c].kind = "reprint" => HasReservation(job'[c].id),
         \A i \in 1 .. Len(sent') : sent'[i].kind = "reprint" => HasReservation(sent'[i].id)
  PROVE  ReprintInv'
<1>1. UNCHANGED <<byOrder, attempts, reserved, life>>
  BY DEF limiter
<1>2. LimiterShape'
  BY <1>1 DEF ReprintInv, LimiterShape
<1>3. ASSUME NEW k \in 1 .. Len(reserved) PROVE Remembered(k)'
  <2>0. reserved \in Seq(Reservation) /\ Remembered(k)
    BY DEF ReprintInv, LimiterShape
  <2>1. Remembered(k) /\ reserved[k].at \in Nat
    <3>1. reserved[k] \in Reservation
      BY <2>0
    <3> QED BY <2>0, <3>1 DEF Reservation
  <2>2. HOUR_MS \in Nat
    BY ToolsAssumption
  <2>3. now' - reserved[k].at < HOUR_MS => now - reserved[k].at < HOUR_MS
    BY <2>1, <2>2
  <2>4. reserved[k].at <= now'
    BY <2>1 DEF Remembered
  <2> QED BY <1>1, <2>1, <2>3, <2>4 DEF Remembered
<1>4. ReprintsSpaced'
  BY <1>1 DEF ReprintInv, ReprintsSpaced, HasReservation
<1> QED BY <1>1, <1>2, <1>3, <1>4 DEF ReprintInv, HasReservation

(* Time passes, and calls stay what they are.                               *)
LEMMA Stays ==
  ASSUME ToolsInv, ReprintInv, UNCHANGED <<limiter, life, stage, job, sent>>, now' \in Nat, now' >= now
  PROVE  ReprintInv'
<1>1. now \in Nat /\ UNCHANGED reserved
  BY DEF ToolsInv, Shape, limiter
<1>2. \A c \in ToolCalls : stage'[c] = "sending" /\ job'[c].kind = "reprint" => HasReservation(job'[c].id)
  BY DEF ReprintInv
<1>3. \A i \in 1 .. Len(sent') : sent'[i].kind = "reprint" => HasReservation(sent'[i].id)
  BY DEF ReprintInv, ReprintsSpaced, HasReservation
<1> QED BY <1>1, <1>2, <1>3, NoneAdmitted

(* A step of one call that does not come to send a reprint.                 *)
LEMMA OneCallUnlimited ==
  ASSUME ToolsInv, ReprintInv, NEW c \in ToolCalls, NEW s, NEW j,
         stage' = [stage EXCEPT ![c] = s], job' = [job EXCEPT ![c] = j],
         s = "sending" => j.kind = "create",
         UNCHANGED <<now, limiter, life, sent>>
  PROVE  ReprintInv'
<1>1. now \in Nat /\ stage \in [ToolCalls -> Stages] /\ job \in [ToolCalls -> Job]
  BY DEF ToolsInv, Shape
<1>2. ASSUME NEW d \in ToolCalls, stage'[d] = "sending", job'[d].kind = "reprint"
      PROVE  HasReservation(job'[d].id)
  <2>1. d # c
    BY <1>1, <1>2
  <2> QED BY <1>1, <1>2, <2>1 DEF ReprintInv
<1>3. \A i \in 1 .. Len(sent') : sent'[i].kind = "reprint" => HasReservation(sent'[i].id)
  BY DEF ReprintInv, ReprintsSpaced, HasReservation
<1> QED BY <1>1, <1>2, <1>3, NoneAdmitted

(* reserve: one more of the hour leaves it within the count, and its order  *)
(* had none since the cooldown began (label-reprint-limiter.ts:57-64).      *)
LEMMA ReserveSpaced ==
  ASSUME ToolsInv, ReprintInv, NEW c \in ToolCalls, stage[c] = "admitting", ~Refused(job[c].order),
         byOrder' = [byOrder EXCEPT ![job[c].order] = now],
         attempts' = Recent \cup {[n |-> Len(reserved) + 1, at |-> now]},
         reserved' = Append(reserved, [id |-> job[c].id, order |-> job[c].order, at |-> now, life |-> life]),
         stage' = [stage EXCEPT ![c] = "sending"], job' = job,
         UNCHANGED <<now, life, sent>>
  PROVE  ReprintInv'
<1> DEFINE o == job[c].order
           n == Len(reserved)
           new == [id |-> job[c].id, order |-> o, at |-> now, life |-> life]
<1>0. /\ now \in Nat /\ stage \in [ToolCalls -> Stages] /\ job \in [ToolCalls -> Job]
      /\ LimiterShape /\ n \in Nat /\ cooldown \in Nat /\ maxPerHour \in Nat /\ HOUR_MS \in Nat
  BY ToolsAssumption DEF ToolsInv, Shape, ReprintInv, LimiterShape
<1>1. job[c].id \in Nat /\ o \in Orders
  <2>1. Working(c) /\ planned \in Seq(PreviewRecord) /\ job[c] \in Job
    BY DEF ToolsInv, Shape
  <2>2. job[c].id \in 1 .. Len(planned) /\ o = planned[job[c].id].order
    BY <2>1 DEF Working, Applying
  <2>3. planned[job[c].id] \in PreviewRecord
    BY <2>1, <2>2
  <2> QED BY <2>1, <2>2, <2>3 DEF PreviewRecord, Job
<1>2. now - byOrder[o] >= cooldown /\ Cardinality(Recent) < maxPerHour
  <2>1. byOrder[o] \in Int /\ Cardinality(Recent) \in Nat
    <3>1. Recent \in SUBSET attempts
      BY DEF Recent
    <3> QED BY <1>0, <1>1, <3>1, FS_Subset, FS_CardinalityType DEF LimiterShape
  <2> QED BY <1>0, <2>1 DEF Refused
<1>3. new \in Reservation /\ reserved' = Append(reserved, new)
  BY <1>0, <1>1 DEF Reservation, LimiterShape
<1> HIDE DEF new
<1>4. /\ reserved' \in Seq(Reservation) /\ Len(reserved') = n + 1
      /\ reserved'[n + 1] = new /\ \A k \in 1 .. n : reserved'[k] = reserved[k]
  BY <1>0, <1>3, AppendProperties DEF LimiterShape
<1>5. new.order = o /\ new.at = now /\ new.life = life /\ new.id = job[c].id
  BY DEF new
<1>6. /\ IsFiniteSet(Recent) /\ Recent \subseteq attempts
  BY <1>0, FS_Subset DEF Recent, LimiterShape
<1>7. LimiterShape'
  <2>1. attempts' \subseteq [n : Nat, at : Nat] /\ IsFiniteSet(attempts')
    <3>1. [n |-> n + 1, at |-> now] \in [n : Nat, at : Nat]
      BY <1>0
    <3>2. IsFiniteSet(Recent \cup {[n |-> n + 1, at |-> now]})
      BY <1>6, FS_AddElement
    <3> QED BY <1>0, <1>6, <3>1, <3>2 DEF LimiterShape
  <2>2. byOrder' \in [Orders -> Int]
    BY <1>0, <1>1 DEF LimiterShape
  <2> QED BY <1>0, <1>4, <2>1, <2>2 DEF LimiterShape
<1>8. ASSUME NEW k \in 1 .. n
      PROVE  /\ Remembered(k) /\ reserved[k].at \in Nat /\ reserved[k].life \in Nat
             /\ reserved[k].order \in Orders /\ byOrder[reserved[k].order] \in Int
  <2>1. reserved[k] \in Reservation
    BY <1>0 DEF LimiterShape
  <2> QED BY <1>0, <2>1 DEF Reservation, ReprintInv, LimiterShape
<1>9. ASSUME NEW k \in 1 .. Len(reserved') PROVE Remembered(k)'
  <2>1. CASE k = n + 1
    <3>1. reserved'[k] = new
      BY <1>4, <2>1
    <3>2. byOrder'[o] = now
      BY <1>0, <1>1 DEF LimiterShape
    <3>3. [n |-> k, at |-> now] \in attempts'
      BY <2>1
    <3> QED BY <1>0, <1>5, <3>1, <3>2, <3>3 DEF Remembered, LimiterShape
  <2>2. CASE k \in 1 .. n
    <3>1. reserved'[k] = reserved[k]
      BY <1>4, <2>2
    <3>2. reserved[k].life = life => reserved[k].at <= byOrder'[reserved[k].order]
      BY <1>0, <1>1, <1>8, <2>2 DEF Remembered, LimiterShape
    <3>3. reserved[k].life = life /\ now - reserved[k].at < HOUR_MS
            => [n |-> k, at |-> reserved[k].at] \in attempts'
      BY <1>8, <2>2 DEF Remembered, Recent
    <3> QED BY <1>8, <2>2, <3>1, <3>2, <3>3 DEF Remembered
  <2> QED BY <1>0, <1>4, <2>1, <2>2
<1>10. ASSUME NEW d \in ToolCalls, stage'[d] = "sending", job'[d].kind = "reprint"
       PROVE  \E k \in 1 .. Len(reserved') : reserved'[k].id = job'[d].id
  <2>1. CASE d = c
    <3>1. n + 1 \in 1 .. Len(reserved')
      BY <1>0, <1>4
    <3> QED BY <1>4, <1>5, <2>1, <3>1
  <2>2. CASE d # c
    <3>1. PICK k \in 1 .. n : reserved[k].id = job[d].id
      BY <1>0, <1>10, <2>2 DEF ReprintInv, HasReservation
    <3>2. k \in 1 .. Len(reserved')
      BY <1>0, <1>4, <3>1
    <3> QED BY <1>4, <3>1, <3>2
  <2> QED BY <2>1, <2>2
<1>11. ASSUME NEW i \in 1 .. Len(reserved'), NEW k \in 1 .. Len(reserved'), i < k,
              reserved'[i].life = reserved'[k].life, reserved'[i].order = reserved'[k].order
       PROVE  reserved'[k].at - reserved'[i].at >= cooldown
  <2>1. i \in 1 .. n /\ reserved'[i] = reserved[i]
    BY <1>0, <1>4, <1>11
  <2>2. CASE k = n + 1
    <3>1. reserved'[k] = new
      BY <1>4, <2>2
    <3>3. reserved[i].life = life /\ reserved[i].order = o
      BY <1>5, <1>11, <2>1, <3>1
    <3>2. reserved[i].at <= byOrder[o] /\ reserved[i].at \in Nat /\ byOrder[o] \in Int
      BY <1>8, <2>1, <3>3 DEF Remembered
    <3>4. now - reserved[i].at >= cooldown
      <4>1. now - byOrder[o] >= cooldown /\ now \in Nat /\ cooldown \in Nat
        BY <1>0, <1>2
      <4> QED BY <3>2, <4>1
    <3>5. reserved'[k].at = now /\ reserved'[i].at = reserved[i].at
      BY <1>5, <2>1, <3>1
    <3> QED BY <3>4, <3>5
  <2>3. CASE k \in 1 .. n
    <3>1. reserved'[k] = reserved[k]
      BY <1>4, <2>3
    <3> QED BY <1>11, <2>1, <2>3, <3>1 DEF ReprintInv, ReprintsSpaced
  <2> QED BY <1>0, <1>4, <2>2, <2>3
<1>12. ASSUME NEW k \in 1 .. Len(reserved') PROVE Cardinality(InHourOf(k)') <= maxPerHour
  <2>1. CASE k = n + 1
    <3> DEFINE I == {i \in 1 .. n : reserved[i].life = life /\ now - reserved[i].at < HOUR_MS}
    <3>1. InHourOf(k)' \subseteq I \cup {n + 1}
      BY <1>0, <1>4, <1>5, <2>1 DEF InHourOf
    <3>2. IsFiniteSet(I)
      <4>1. IsFiniteSet(1 .. n) /\ I \in SUBSET (1 .. n)
        BY <1>0, FS_Interval
      <4> QED BY <4>1, FS_Subset
    <3>3. Cardinality(I) <= Cardinality(Recent)
      <4> DEFINE f == [i \in I |-> [n |-> i, at |-> reserved[i].at]]
      <4>1. f \in [I -> Recent]
        BY <1>8 DEF Remembered, Recent
      <4>2. ASSUME NEW x \in I, NEW y \in I, f[x] = f[y] PROVE x = y
        <5>1. f[x].n = x /\ f[y].n = y
          OBVIOUS
        <5> QED BY <4>2, <5>1
      <4> HIDE DEF f, I
      <4>3. Cardinality(I) \in Nat /\ Cardinality(Recent) \in Nat
        BY <1>6, <3>2, FS_CardinalityType
      <4> QED BY <1>6, <3>2, <4>1, <4>2, <4>3, FS_PigeonHole
    <3> HIDE DEF I
    <3>4. /\ IsFiniteSet(I \cup {n + 1}) /\ Cardinality(I \cup {n + 1}) \in {Cardinality(I), Cardinality(I) + 1}
          /\ Cardinality(I) \in Nat /\ Cardinality(Recent) \in Nat
      BY <1>6, <3>2, FS_AddElement, FS_CardinalityType
    <3>5. Cardinality(InHourOf(k)') \in Nat /\ Cardinality(InHourOf(k)') <= Cardinality(I \cup {n + 1})
      BY <3>1, <3>4, FS_Subset, FS_CardinalityType
    <3> QED BY <1>0, <1>2, <3>3, <3>4, <3>5
  <2>2. CASE k \in 1 .. n
    <3>1. InHourOf(k)' = InHourOf(k)
      BY <1>0, <1>4, <2>2 DEF InHourOf
    <3>2. Cardinality(InHourOf(k)) <= maxPerHour
      BY <2>2 DEF ReprintInv, ReprintsSpaced, InHourOf
    <3> QED BY <3>1, <3>2
  <2> QED BY <1>0, <1>4, <2>1, <2>2
<1>13. ASSUME NEW i \in 1 .. Len(sent), sent[i].kind = "reprint"
       PROVE  \E k \in 1 .. Len(reserved') : reserved'[k].id = sent[i].id
  <2>1. PICK k \in 1 .. n : reserved[k].id = sent[i].id
    BY <1>13 DEF ReprintInv, ReprintsSpaced
  <2>2. k \in 1 .. Len(reserved') /\ reserved'[k] = reserved[k]
    BY <1>0, <1>4
  <2> QED BY <2>1, <2>2
<1>14. ReprintsSpaced'
  <2>1. \A k \in 1 .. Len(reserved') : Cardinality({i \in 1 .. k : /\ reserved'[i].life = reserved'[k].life
                                     /\ reserved'[k].at - reserved'[i].at < HOUR_MS}) <= maxPerHour
    BY <1>12 DEF InHourOf
  <2> QED BY <1>11, <1>13, <2>1 DEF ReprintsSpaced
<1> QED BY <1>7, <1>9, <1>10, <1>14 DEF ReprintInv, HasReservation

-----------------------------------------------------------------------------
(* The steps of a call. All but reserve leave the limiter alone, and only   *)
(* reserve brings a reprint to its sending.                                 *)
LEMMA EndUnlimited ==
  ASSUME ToolsInv, ReprintInv, NEW c \in ToolCalls, End(c), UNCHANGED <<now, limiter, life, sent>>
  PROVE  ReprintInv'
BY OneCallUnlimited DEF End

(* A record that is stored ends the call and leaves the limiter alone.     *)
LEMMA StoreUnlimited ==
  ASSUME ToolsInv, ReprintInv, NEW c \in ToolCalls, NEW cents, Store(c, cents),
         UNCHANGED <<now, limiter, life, sent>>
  PROVE  ReprintInv'
BY EndUnlimited DEF Store

(* A call that stays what it is and does not come to its sending.           *)
LEMMA WaitUnlimited ==
  ASSUME ToolsInv, ReprintInv, NEW c \in ToolCalls, NEW where, Busy(c, where), UNCHANGED job,
         where = "sending" => job[c].kind = "create", UNCHANGED <<now, limiter, life, sent>>
  PROVE  ReprintInv'
<1>1. job' = [job EXCEPT ![c] = job[c]]
  BY DEF ToolsInv, Shape
<1> QED BY <1>1, OneCallUnlimited DEF Busy

(* Nothing a preview does comes to a sending.                              *)
LEMMA PreparationUnlimited ==
  ASSUME ToolsInv, ReprintInv, NEW c \in ToolCalls, Preview(c) \/ Plan(c) \/ QuotePreview(c)
  PROVE  ReprintInv'
<1>1. CASE Preview(c)
  <2>1. PICK k \in LabelKinds, o \in Orders, s \in Sessions :
          job' = [job EXCEPT ![c] = [NoJob EXCEPT !.kind = k, !.order = o, !.session = s]]
    BY <1>1 DEF Preview
  <2>2. stage' = [stage EXCEPT ![c] = "planning"] /\ UNCHANGED <<now, limiter, life, sent>>
    BY <1>1 DEF Preview, Busy, config
  <2> QED BY <2>1, <2>2, OneCallUnlimited
<1>2. CASE Plan(c)
  <2>1. UNCHANGED <<now, limiter, life, sent>>
    BY <1>2 DEF Plan, config
  <2>2. End(c) \/ Store(c, Nothing) \/ (Busy(c, "quoting") /\ UNCHANGED job)
    BY <1>2 DEF Plan
  <2> QED BY <2>1, <2>2, EndUnlimited, StoreUnlimited, WaitUnlimited
<1>3. CASE QuotePreview(c)
  <2>1. UNCHANGED <<now, limiter, life, sent>>
    BY <1>3 DEF QuotePreview, config
  <2>2. End(c) \/ \E cents : Store(c, cents)
    BY <1>3 DEF QuotePreview
  <2> QED BY <2>1, <2>2, EndUnlimited, StoreUnlimited
<1> QED BY <1>1, <1>2, <1>3

(* Nothing an application does before it is admitted comes to a sending.   *)
LEMMA ApplicationUnlimited ==
  ASSUME ToolsInv, ReprintInv, NEW c \in ToolCalls, Apply(c) \/ Preflight(c) \/ Price(c)
  PROVE  ReprintInv'
<1>1. CASE Apply(c)
  <2>1. UNCHANGED <<now, limiter, life, sent>>
    BY <1>1 DEF Apply, config
  <2>2. PICK id \in live, k \in LabelKinds :
          IF Accepted(id, k)
          THEN /\ job' = [job EXCEPT ![c] = [NoJob EXCEPT !.kind = k, !.order = previews[id].order,
                                                          !.session = previews[id].session, !.id = id]]
               /\ Busy(c, IF k = "create" THEN "preflight" ELSE "admitting")
          ELSE UNCHANGED <<stage, job>>
    BY <1>1 DEF Apply
  <2>3. CASE Accepted(id, k)
    BY <2>1, <2>2, <2>3, OneCallUnlimited DEF Busy
  <2>4. CASE ~Accepted(id, k)
    <3>1. now' \in Nat /\ now' >= now
      BY <2>1 DEF ToolsInv, Shape
    <3>2. UNCHANGED <<limiter, life, stage, job, sent>>
      BY <2>1, <2>2, <2>4
    <3> QED BY <3>1, <3>2, Stays
  <2> QED BY <2>3, <2>4
<1>2. CASE Preflight(c)
  <2>1. UNCHANGED <<now, limiter, life, sent>>
    BY <1>2 DEF Preflight, config
  <2>2. End(c) \/ (Busy(c, "pricing") /\ UNCHANGED job)
    BY <1>2 DEF Preflight
  <2> QED BY <2>1, <2>2, EndUnlimited, WaitUnlimited
<1>3. CASE Price(c)
  <2>1. UNCHANGED <<now, limiter, life, sent>> /\ stage[c] = "pricing"
    BY <1>3 DEF Price, config
  <2>2. job[c].kind = "create" /\ job[c] \in Job /\ job \in [ToolCalls -> Job]
    BY <2>1 DEF ToolsInv, Working, Creating, Shape
  <2>3. CASE cap = Nothing
    BY <1>3, <2>1, <2>2, <2>3, WaitUnlimited DEF Price
  <2>4. CASE cap # Nothing
    <3>1. PICK e : \/ Busy(c, "sending") /\ job' = [job EXCEPT ![c].estimate = e]
                   \/ End(c)
      BY <1>3, <2>4 DEF Price
    <3>2. CASE Busy(c, "sending") /\ job' = [job EXCEPT ![c].estimate = e]
      <4> DEFINE j == [job[c] EXCEPT !.estimate = e]
      <4>1. job' = [job EXCEPT ![c] = j]
        BY <2>2, <3>2
      <4>2. j.kind = "create"
        BY <2>2 DEF Job
      <4> HIDE DEF j
      <4> QED BY <2>1, <3>2, <4>1, <4>2, OneCallUnlimited DEF Busy
    <3> QED BY <2>1, <3>1, <3>2, EndUnlimited
  <2> QED BY <2>3, <2>4
<1> QED BY <1>1, <1>2, <1>3

(* An admission leaves the limiter as it is, or notes the attempt in it.   *)
LEMMA AdmitLimited ==
  ASSUME ToolsInv, ReprintInv, NEW c \in ToolCalls, Admit(c)
  PROVE  ReprintInv'
<1>1. UNCHANGED <<now, life, sent>> /\ stage[c] = "admitting"
  BY DEF Admit, config
<1>2. CASE End(c) /\ UNCHANGED limiter
  BY <1>1, <1>2, EndUnlimited
<1>3. CASE ~(End(c) /\ UNCHANGED limiter)
  BY <1>1, <1>3, ReserveSpaced DEF Admit, Busy
<1> QED BY <1>2, <1>3

(* What is sent was admitted.                                              *)
LEMMA SendLimited ==
  ASSUME ToolsInv, ReprintInv, NEW c \in ToolCalls, Send(c)
  PROVE  ReprintInv'
<1> DEFINE j == job[c]
           w == [id |-> j.id, kind |-> j.kind, order |-> j.order, session |-> j.session,
                 estimate |-> j.estimate, cap |-> cap, allowed |-> allowReprint]
<1>1. UNCHANGED <<now, limiter, life>> /\ stage[c] = "sending" /\ End(c)
  BY DEF Send, config
<1>2. CASE UNCHANGED sent
  BY <1>1, <1>2, EndUnlimited
<1>3. CASE sent' = Append(sent, w)
  <2>1. now \in Nat /\ sent \in Seq(Write) /\ stage \in [ToolCalls -> Stages] /\ job \in [ToolCalls -> Job]
    BY DEF ToolsInv, Shape
  <2>2. ASSUME NEW d \in ToolCalls, stage'[d] = "sending", job'[d].kind = "reprint"
        PROVE  HasReservation(job'[d].id)
    <3>1. d # c
      BY <1>1, <2>1, <2>2 DEF End
    <3> QED BY <1>1, <2>1, <2>2, <3>1 DEF End, ReprintInv
  <2>3. ASSUME NEW i \in 1 .. Len(sent'), sent'[i].kind = "reprint" PROVE HasReservation(sent'[i].id)
    <3>1. CASE i = Len(sent) + 1
      <4>1. sent'[i] = w
        BY <1>3, <2>1, <3>1
      <4> QED BY <1>1, <2>3, <4>1 DEF ReprintInv
    <3>2. CASE i \in 1 .. Len(sent)
      <4>1. sent'[i] = sent[i]
        BY <1>3, <2>1, <3>2
      <4> QED BY <2>3, <3>2, <4>1 DEF ReprintInv, ReprintsSpaced, HasReservation
    <3> QED BY <1>3, <2>1, <3>1, <3>2
  <2> QED BY <1>1, <2>1, <2>2, <2>3, NoneAdmitted
<1> QED BY <1>2, <1>3 DEF Send

(* A restart forgets what the limiter knew: of this process there is nothing. *)
LEMMA RestartLimited ==
  ASSUME ToolsInv, ReprintInv, Restart
  PROVE  ReprintInv'
<1>1. /\ UNCHANGED <<now, reserved, sent>> /\ life' = life + 1 /\ attempts' = {}
      /\ byOrder' = [o \in Orders |-> Never]
      /\ \A c \in ToolCalls : stage'[c] = "idle"
  BY DEF Restart
<1>2. life \in Nat /\ reserved \in Seq(Reservation) /\ now \in Nat
  BY DEF ReprintInv, LimiterShape, ToolsInv, Shape
<1>3. LimiterShape'
  <2>1. Never \in Int
    BY ToolsAssumption DEF Never
  <2> QED BY <1>1, <1>2, <2>1, FS_EmptySet DEF LimiterShape
<1>4. ASSUME NEW k \in 1 .. Len(reserved) PROVE Remembered(k)'
  <2>0. reserved[k] \in Reservation
    BY <1>2
  <2>1. reserved[k].life \in Nat
    BY <2>0 DEF Reservation
  <2>2. reserved[k].at <= now /\ reserved[k].life <= life
    BY DEF ReprintInv, Remembered
  <2> QED BY <1>1, <1>2, <2>1, <2>2 DEF Remembered
<1>5. ReprintsSpaced'
  BY <1>1 DEF ReprintInv, ReprintsSpaced
<1> QED BY <1>1, <1>3, <1>4, <1>5 DEF ReprintInv

(* The limiter starts with no reprint.                                     *)
LEMMA LimiterStart == ToolsInit => ReprintInv
<1> SUFFICES ASSUME ToolsInit PROVE ReprintInv
  OBVIOUS
<1>1. Never \in Int
  BY ToolsAssumption DEF Never
<1>2. reserved = <<>> /\ sent = <<>> /\ attempts = {} /\ \A c \in ToolCalls : stage[c] = "idle"
  BY DEF ToolsInit
<1>3. LimiterShape
  BY <1>1, <1>2, FS_EmptySet DEF ToolsInit, LimiterShape
<1> QED BY <1>2, <1>3 DEF ReprintInv, ReprintsSpaced

(* Every step keeps what is known of the limiter.                          *)
LEMMA LimiterKept == ToolsInv /\ ReprintInv /\ [ToolsNext]_toolVars => ReprintInv'
<1> SUFFICES ASSUME ToolsInv, ReprintInv, [ToolsNext]_toolVars PROVE ReprintInv'
  OBVIOUS
<1>0. now \in Nat
  BY DEF ToolsInv, Shape
<1>1. ASSUME NEW c \in ToolCalls, Step(c) PROVE ReprintInv'
  BY <1>1, PreparationUnlimited, ApplicationUnlimited, AdmitLimited, SendLimited DEF Step
<1>2. CASE UNCHANGED toolVars
  <2>1. now' = now /\ UNCHANGED <<limiter, life, stage, job, sent>>
    BY <1>2 DEF toolVars, config
  <2>2. now' \in Nat /\ now' >= now
    BY <1>0, <2>1
  <2> QED BY <2>1, <2>2, Stays
<1>3. CASE Corrupt
  <2>1. now' = now /\ UNCHANGED <<limiter, life, stage, job, sent>>
    BY <1>3 DEF Corrupt, config
  <2>2. now' \in Nat /\ now' >= now
    BY <1>0, <2>1
  <2> QED BY <2>1, <2>2, Stays
<1>4. CASE Tick
  <2>1. now' = now + 1 /\ UNCHANGED <<limiter, life, stage, job, sent>>
    BY <1>4 DEF Tick, config
  <2>2. now' \in Nat /\ now' >= now
    BY <1>0, <2>1
  <2> QED BY <2>1, <2>2, Stays
<1> QED BY <1>1, <1>2, <1>3, <1>4, RestartLimited DEF ToolsNext

(* For any orders, sessions, concurrent calls, cooldown, hourly count,      *)
(* clock and restarts: the reprints one process lets through keep the       *)
(* cooldown of their order and the hourly count, and every reprint sent is  *)
(* one of them (label-reprint-limiter.ts:53-65).                            *)
THEOREM ReprintsAreSpaced == ToolsSpec => []ReprintsSpaced
<1>1. ReprintInv => ReprintsSpaced
  BY DEF ReprintInv
<1> QED BY <1>1, LimiterStart, LimiterKept, ToolsInvariant, PTL DEF ToolsSpec

-----------------------------------------------------------------------------
(* What the stored entries say agrees with what happened: each belongs to   *)
(* the session that put it and is marked exactly when it was consumed.      *)
EntryInv(e) ==
  /\ e.id <= minted
  /\ owner[e.id] = e.sessionId
  /\ uses[e.id] = IF e.consumed THEN 1 ELSE 0

(* The inductive invariant: an id that was never handed out was never used. *)
PreviewInv ==
  /\ PreviewTypeOK
  /\ \A e \in entries : EntryInv(e)
  /\ \A j \in PreviewIds : j > minted => uses[j] = 0
  /\ reply.id \in {0} \cup PreviewIds
  /\ reply.id = 0 => reply.status = "none"
  /\ AnswersAreTrue

-----------------------------------------------------------------------------
(* Sweeping and evicting only drop entries (sweepIfDue, enforceCaps).       *)
LEMMA SweepDrops == Swept \subseteq entries
BY DEF Swept

(* Holding to the caps only drops records.                                 *)
LEMMA CapsDrop ==
  ASSUME NEW s, NEW set
  PROVE  WithinTotal(WithinSession(s, set)) \subseteq set
<1>1. WithinSession(s, set) \subseteq set
  BY DEF WithinSession
<1>2. WithinTotal(WithinSession(s, set)) \subseteq WithinSession(s, set)
  BY DEF WithinTotal
<1> QED BY <1>1, <1>2

(* The clock never runs behind the last sweep.                              *)
LEMMA SweepTime ==
  ASSUME PreviewTypeOK, SweepIfDue, UNCHANGED clock
  PROVE  lastSweepAt' \in Int /\ lastSweepAt' <= clock'
BY PreviewAssumption DEF PreviewTypeOK, SweepIfDue

-----------------------------------------------------------------------------
(* A new preview gets an id no other has (preview-store/index.ts, put).     *)
LEMMA PutSafe ==
  ASSUME PreviewInv, NEW s \in McpSessions, Put(s)
  PROVE  PreviewInv'
<1> DEFINE new == [id |-> minted + 1, sessionId |-> s, expiresAt |-> clock + previewTtl,
                   consumed |-> FALSE, consumedAt |-> 0]
<1>0. PreviewTypeOK /\ minted \in 0 .. MaxMinted /\ minted < MaxMinted /\ MaxMinted \in Nat
  BY PreviewAssumption DEF PreviewInv, PreviewTypeOK, Put
<1>1. minted' = minted + 1 /\ minted' \in 0 .. MaxMinted /\ minted' \in PreviewIds
  BY <1>0 DEF Put, PreviewIds
<1>2. new \in PreviewEntry /\ new.id = minted + 1 /\ new.sessionId = s /\ ~new.consumed
  BY <1>0, <1>1, PreviewAssumption DEF PreviewEntry, PreviewTypeOK
<1>3. entries' \subseteq entries \cup {new}
  BY SweepDrops, CapsDrop DEF Put
<1>4. /\ owner' = [owner EXCEPT ![minted + 1] = s]
      /\ uses' = uses /\ clock' = clock
      /\ reply' = [to |-> s, id |-> minted + 1, status |-> "stored"]
      /\ SweepIfDue
  BY DEF Put, Reply
<1>5. \A e \in entries : e \in PreviewEntry /\ e.id \in PreviewIds /\ e.id <= minted
  BY DEF PreviewInv, PreviewTypeOK, EntryInv, PreviewEntry
<1>6. PreviewTypeOK'
  <2>1. entries' \subseteq PreviewEntry
    BY <1>2, <1>3, <1>5
  <2>2. \A e, f \in entries' : e.id = f.id => e = f
    <3> SUFFICES ASSUME NEW e \in entries', NEW f \in entries', e.id = f.id
                 PROVE  e = f
      OBVIOUS
    <3>1. CASE e \in entries /\ f \in entries
      BY <3>1 DEF PreviewInv, PreviewTypeOK
    <3>2. CASE e = new /\ f = new
      BY <3>2
    <3>3. CASE (e = new /\ f \in entries) \/ (e \in entries /\ f = new)
      BY <3>3, <1>0, <1>2, <1>5 DEF PreviewIds
    <3> QED BY <1>3, <3>1, <3>2, <3>3
  <2>3. owner' \in [PreviewIds -> McpSessions \cup {Nobody}]
    BY <1>1, <1>4 DEF PreviewInv, PreviewTypeOK
  <2> QED BY <1>0, <1>1, <1>4, <2>1, <2>2, <2>3, SweepTime DEF PreviewTypeOK
<1>7. uses[minted + 1] = 0
  BY <1>0, <1>1 DEF PreviewInv
<1>8. \A e \in entries' : EntryInv(e)'
  <2> SUFFICES ASSUME NEW e \in entries' PROVE EntryInv(e)'
    OBVIOUS
  <2>1. CASE e = new
    BY <2>1, <1>0, <1>1, <1>2, <1>4, <1>7 DEF EntryInv, PreviewTypeOK
  <2>2. CASE e \in entries
    BY <2>2, <1>0, <1>1, <1>4, <1>5 DEF EntryInv, PreviewTypeOK, PreviewInv, PreviewIds
  <2> QED BY <1>3, <2>1, <2>2
<1>9. AnswersAreTrue'
  BY <1>4 DEF PreviewInv, AnswersAreTrue
<1> QED BY <1>0, <1>1, <1>4, <1>6, <1>8, <1>9 DEF PreviewInv, PreviewIds

(* Looking up changes nothing but what the sweep drops (get).               *)
LEMMA GetSafe ==
  ASSUME PreviewInv, NEW s \in McpSessions, NEW i \in 1 .. minted, Get(s, i)
  PROVE  PreviewInv'
<1>0. i \in PreviewIds
  BY PreviewAssumption DEF PreviewInv, PreviewTypeOK, PreviewIds
<1>1. entries' \subseteq entries
  BY SweepDrops DEF Get
<1>2. UNCHANGED <<clock, minted, owner, uses>> /\ SweepIfDue
  BY DEF Get
<1>3. PreviewTypeOK'
  BY <1>1, <1>2, SweepTime DEF PreviewInv, PreviewTypeOK
<1>4. \A e \in entries' : EntryInv(e)'
  BY <1>1, <1>2 DEF PreviewInv, EntryInv
<1>5. /\ reply'.id = i
      /\ \/ reply'.status = "absent"
         \/ /\ reply'.status = "live" /\ reply'.to = s
            /\ owner[i] = s /\ uses[i] = 0
  <2>1. CASE \E e \in Of(s, Swept) : e.id = i /\ ~isDead(e) /\ Reply(s, i, "live")
    <3> PICK e \in Of(s, Swept) : e.id = i /\ ~isDead(e) /\ Reply(s, i, "live")
      BY <2>1
    <3>1. e \in entries /\ e.sessionId = s /\ ~e.consumed
      BY SweepDrops DEF Of, isDead
    <3> QED BY <3>1 DEF PreviewInv, EntryInv, Reply
  <2>2. CASE Reply(s, i, "absent")
    BY <2>2 DEF Reply
  <2> QED BY <2>1, <2>2 DEF Get
<1>6. AnswersAreTrue'
  BY <1>2, <1>5 DEF PreviewInv, AnswersAreTrue
<1> QED BY <1>0, <1>2, <1>3, <1>4, <1>5, <1>6 DEF PreviewInv, PreviewIds

(* A preview is consumed only in the scope of its session, once, and is     *)
(* marked in the same step (consume).                                       *)
LEMMA ConsumeSafe ==
  ASSUME PreviewInv, NEW s \in McpSessions, NEW i \in 1 .. minted, Consume(s, i)
  PROVE  PreviewInv'
<1>0. i \in PreviewIds /\ i <= minted
  BY PreviewAssumption DEF PreviewInv, PreviewTypeOK, PreviewIds
<1>1. UNCHANGED <<clock, minted, owner>> /\ SweepIfDue
  BY DEF Consume
<1>2. lastSweepAt' \in Int /\ lastSweepAt' <= clock'
  BY <1>1, SweepTime DEF PreviewInv
<1>3. CASE /\ entries' = Swept /\ uses' = uses
           /\ \/ Reply(s, i, "not_found")
              \/ \E e \in Of(s, Swept) :
                   /\ e.id = i /\ isDead(e)
                   /\ Reply(s, i, IF e.consumed THEN "already_used" ELSE "expired")
  <2>1. entries' \subseteq entries
    BY <1>3, SweepDrops
  <2>2. PreviewTypeOK'
    BY <1>1, <1>2, <1>3, <2>1 DEF PreviewInv, PreviewTypeOK
  <2>3. \A e \in entries' : EntryInv(e)'
    BY <1>1, <1>3, <2>1 DEF PreviewInv, EntryInv
  <2>4. /\ reply'.id = i
        /\ \/ reply'.status = "not_found"
           \/ /\ reply'.to = s /\ owner[i] = s
              /\ \/ reply'.status = "already_used" /\ uses[i] = 1
                 \/ reply'.status = "expired" /\ uses[i] = 0
    <3>1. CASE Reply(s, i, "not_found")
      BY <3>1 DEF Reply
    <3>2. CASE \E e \in Of(s, Swept) :
                 /\ e.id = i /\ isDead(e)
                 /\ Reply(s, i, IF e.consumed THEN "already_used" ELSE "expired")
      <4> PICK e \in Of(s, Swept) :
                 /\ e.id = i /\ isDead(e)
                 /\ Reply(s, i, IF e.consumed THEN "already_used" ELSE "expired")
        BY <3>2
      <4>1. e \in entries /\ e.sessionId = s
        BY SweepDrops DEF Of
      <4>2. owner[i] = s /\ uses[i] = IF e.consumed THEN 1 ELSE 0
        BY <4>1 DEF PreviewInv, EntryInv
      <4>3. CASE e.consumed
        BY <4>2, <4>3 DEF Reply
      <4>4. CASE ~e.consumed
        BY <4>2, <4>4 DEF Reply
      <4> QED BY <4>3, <4>4
    <3> QED BY <1>3, <3>1, <3>2
  <2>5. AnswersAreTrue'
    BY <1>1, <1>3, <2>4 DEF PreviewInv, AnswersAreTrue
  <2> QED BY <1>0, <1>1, <1>3, <2>2, <2>3, <2>4, <2>5 DEF PreviewInv, PreviewIds
<1>4. ASSUME NEW e \in Of(s, Swept), e.id = i, ~isDead(e),
             entries' = (Swept \ {e}) \cup {[e EXCEPT !.consumed = TRUE, !.consumedAt = clock]},
             uses' = [uses EXCEPT ![i] = @ + 1],
             Reply(s, i, "ok")
      PROVE  PreviewInv'
  <2> DEFINE used == [e EXCEPT !.consumed = TRUE, !.consumedAt = clock]
  <2>1. e \in entries /\ e.sessionId = s /\ ~e.consumed
    BY <1>4, SweepDrops DEF Of, isDead
  <2>2. e \in PreviewEntry /\ clock \in Nat
    BY <2>1, PreviewAssumption DEF PreviewInv, PreviewTypeOK
  <2>3. used \in PreviewEntry /\ used.id = i /\ used.sessionId = s /\ used.consumed = TRUE
    BY <1>4, <2>1, <2>2 DEF PreviewEntry
  <2>4. uses[i] = 0 /\ owner[i] = s /\ uses \in [PreviewIds -> Nat]
    BY <1>4, <2>1 DEF PreviewInv, PreviewTypeOK, EntryInv
  <2>5. \A f \in entries' : f = used \/ (f \in entries /\ f.id # i)
    BY <1>4, <2>1, SweepDrops DEF PreviewInv, PreviewTypeOK
  <2>6. /\ uses'[i] = 1 /\ uses' \in [PreviewIds -> Nat]
        /\ \A j \in PreviewIds \ {i} : uses'[j] = uses[j]
    BY <1>0, <1>4, <2>4
  <2>7. entries' \subseteq PreviewEntry
    BY <2>3, <2>5 DEF PreviewInv, PreviewTypeOK
  <2>8. \A f, g \in entries' : f.id = g.id => f = g
    BY <2>3, <2>5 DEF PreviewInv, PreviewTypeOK
  <2>9. PreviewTypeOK'
    BY <1>1, <1>2, <2>6, <2>7, <2>8 DEF PreviewInv, PreviewTypeOK
  <2>10. \A f \in entries' : EntryInv(f)'
    <3> SUFFICES ASSUME NEW f \in entries' PROVE EntryInv(f)'
      OBVIOUS
    <3>1. CASE f = used
      BY <3>1, <1>0, <1>1, <2>3, <2>4, <2>6 DEF EntryInv
    <3>2. CASE f \in entries /\ f.id # i
      <4>1. f.id \in PreviewIds
        BY <3>2 DEF PreviewInv, PreviewTypeOK, PreviewEntry
      <4> QED BY <3>2, <4>1, <1>1, <2>6 DEF PreviewInv, EntryInv
    <3> QED BY <2>5, <3>1, <3>2
  <2>11. reply' = [to |-> s, id |-> i, status |-> "ok"]
    BY <1>4 DEF Reply
  <2>12. \A j \in PreviewIds : uses'[j] <= 1
    BY <2>6 DEF PreviewInv, AnswersAreTrue
  <2>13. AnswersAreTrue'
    BY <1>1, <2>4, <2>6, <2>11, <2>12 DEF AnswersAreTrue
  <2>14. \A j \in PreviewIds : j > minted => uses'[j] = 0
    BY <1>0, <2>6 DEF PreviewInv, PreviewTypeOK, PreviewIds
  <2> QED BY <1>0, <1>1, <2>9, <2>10, <2>11, <2>13, <2>14 DEF PreviewInv
<1> QED BY <1>3, <1>4 DEF Consume

-----------------------------------------------------------------------------
(* Every step keeps the invariant.                                          *)
LEMMA PreviewStepSafe ==
  ASSUME PreviewInv, [PreviewNext]_previewVars
  PROVE  PreviewInv'
<1>1. CASE \E s \in McpSessions : Put(s)
  BY <1>1, PutSafe
<1>2. CASE \E s \in McpSessions, i \in 1 .. minted : Get(s, i) \/ Consume(s, i)
  BY <1>2, GetSafe, ConsumeSafe
<1>3. CASE PreviewTick
  <2>1. PreviewTypeOK'
    BY <1>3, PreviewAssumption DEF PreviewTick, PreviewInv, PreviewTypeOK
  <2> QED BY <1>3, <2>1 DEF PreviewTick, PreviewInv, EntryInv, AnswersAreTrue, PreviewIds
<1>4. CASE UNCHANGED previewVars
  BY <1>4 DEF previewVars, PreviewInv, PreviewTypeOK, EntryInv, AnswersAreTrue, PreviewIds
<1> QED BY <1>1, <1>2, <1>3, <1>4 DEF PreviewNext

(* The store starts out empty.                                              *)
LEMMA PreviewInitSafe == PreviewInit => PreviewInv
BY PreviewAssumption DEF PreviewInit, PreviewInv, PreviewTypeOK, AnswersAreTrue, NoReply, EntryInv

(* The types, whatever the caps and however many sessions share the store.  *)
THEOREM PreviewTyped == PreviewSpec => []PreviewTypeOK
<1>1. PreviewInv => PreviewTypeOK
  BY DEF PreviewInv
<1> QED BY <1>1, PreviewInitSafe, PreviewStepSafe, PTL DEF PreviewSpec

(* A preview is consumed at most once, its session alone learns of it, and  *)
(* each answer was true (preview-store/index.ts:262-290).                   *)
THEOREM PreviewsAreSingleUse == PreviewSpec => []AnswersAreTrue
<1>1. PreviewInv => AnswersAreTrue
  BY DEF PreviewInv
<1> QED BY <1>1, PreviewInitSafe, PreviewStepSafe, PTL DEF PreviewSpec

-----------------------------------------------------------------------------
(* The caps hold between two operations, and the store is finite.           *)
CapsHold ==
  /\ IsFiniteSet(entries) /\ Cardinality(entries) <= maxEntries
  /\ \A s \in McpSessions : Cardinality(Of(s, entries)) <= maxEntriesPerSession

CapsInv == PreviewInv /\ CapsHold

(* Any entries that are not none have an oldest (evictOne).                 *)
LEMMA OldestExists ==
  ASSUME NEW set \in SUBSET PreviewEntry, set # {}
  PROVE  Oldest(set) \in set
<1>1. PreviewIds \subseteq Nat /\ \A e \in set : e.id \in PreviewIds
  BY PreviewAssumption DEF PreviewIds, PreviewEntry
<1> DEFINE ids == {e.id : e \in set}
<1>2. ids \in SUBSET Nat /\ ids # {}
  BY <1>1
<1> HIDE DEF ids
<1>3. PICK i \in ids : \A j \in ids : i <= j
  BY <1>2, LeastNumber
<1>4. \E e \in set : \A f \in set : e.id <= f.id
  BY <1>3 DEF ids
<1> QED BY <1>4 DEF Oldest

(* What is evicted was stored, and is dead when any of the set is.          *)
LEMMA VictimChosen ==
  ASSUME NEW set \in SUBSET PreviewEntry, set # {}
  PROVE  Victim(set) \in set /\ (~isDead(Victim(set)) => \A e \in set : ~isDead(e))
<1> DEFINE dead == {e \in set : isDead(e)}
<1>1. CASE dead # {}
  <2>1. Oldest(dead) \in dead
    BY <1>1, OldestExists
  <2>2. Victim(set) = Oldest(dead)
    BY <1>1 DEF Victim
  <2> QED BY <2>1, <2>2
<1>2. CASE dead = {}
  BY <1>2, OldestExists DEF Victim
<1> QED BY <1>1, <1>2

(* The session that pays has entries; while none of them all is dead, no    *)
(* session holds more (heaviestSession).                                    *)
LEMMA HeaviestChosen ==
  ASSUME NEW set \in SUBSET PreviewEntry, set # {}, IsFiniteSet(set)
  PROVE  /\ Of(Heaviest(set), set) # {}
         /\ (\E e \in set : isDead(e)) => \E e \in Of(Heaviest(set), set) : isDead(e)
         /\ (\A e \in set : ~isDead(e)) =>
              \A f \in set : Cardinality(Of(f.sessionId, set)) <= Cardinality(Of(Heaviest(set), set))
<1> DEFINE dead  == {e \in set : isDead(e)}
           heavy == {e \in set : \A f \in set :
                       Cardinality(Of(e.sessionId, set)) >= Cardinality(Of(f.sessionId, set))}
<1>1. CASE dead # {}
  <2>1. Oldest(dead) \in dead
    BY <1>1, OldestExists
  <2>2. Heaviest(set) = Oldest(dead).sessionId
    BY <1>1 DEF Heaviest
  <2>3. Oldest(dead) \in Of(Heaviest(set), set) /\ isDead(Oldest(dead))
    BY <2>1, <2>2 DEF Of
  <2> QED BY <1>1, <2>3
<1>2. CASE dead = {}
  <2> DEFINE held(e) == Cardinality(Of(e.sessionId, set))
             short == {Cardinality(set) - held(e) : e \in set}
  <2>1. \A e \in set : held(e) \in Nat /\ Cardinality(set) \in Nat /\ held(e) <= Cardinality(set)
    BY FS_Subset, FS_CardinalityType DEF Of
  <2> HIDE DEF held
  <2>2. short \in SUBSET Nat /\ short # {}
    BY <2>1
  <2>3. PICK n \in short : \A m \in short : n <= m
    BY <2>2, LeastNumber
  <2>4. PICK e \in set : n = Cardinality(set) - held(e)
    BY <2>3
  <2>5. ASSUME NEW f \in set PROVE held(e) >= held(f)
    <3>1. Cardinality(set) - held(f) \in short
      OBVIOUS
    <3>2. Cardinality(set) - held(e) <= Cardinality(set) - held(f)
      BY <2>3, <2>4, <3>1
    <3>3. held(e) \in Nat /\ held(f) \in Nat /\ Cardinality(set) \in Nat
      BY <2>1, <2>4
    <3> QED BY <3>2, <3>3
  <2>6. heavy # {}
    BY <2>5 DEF held
  <2>7. Oldest(heavy) \in heavy
    BY <2>6, OldestExists
  <2>8. Heaviest(set) = Oldest(heavy).sessionId
    BY <1>2 DEF Heaviest
  <2>9. Oldest(heavy) \in Of(Heaviest(set), set)
    BY <2>7, <2>8 DEF Of
  <2>10. \A f \in set : Cardinality(Of(Heaviest(set), set)) >= Cardinality(Of(f.sessionId, set))
    BY <2>7, <2>8
  <2>11. \A f \in set : held(f) <= Cardinality(Of(Heaviest(set), set))
    <3> SUFFICES ASSUME NEW f \in set PROVE held(f) <= Cardinality(Of(Heaviest(set), set))
      OBVIOUS
    <3>1. Cardinality(Of(Heaviest(set), set)) = held(Oldest(heavy)) /\ Oldest(heavy) \in set
      BY <2>7, <2>8 DEF held
    <3>2. held(Oldest(heavy)) \in Nat /\ held(f) \in Nat
      BY <2>1, <3>1
    <3>3. held(Oldest(heavy)) >= held(f)
      BY <2>10, <3>1 DEF held
    <3> QED BY <3>1, <3>2, <3>3
  <2> QED BY <1>2, <2>9, <2>11 DEF held
<1> QED BY <1>1, <1>2

(* Nothing alive is swept (sweepIfDue).                                     *)
LEMMA SweepSparesTheLive ==
  ASSUME PreviewTypeOK, NEW e \in entries, ~isDead(e)
  PROVE  e \in Swept
<1>1. ~e.consumed /\ ~(clock > e.expiresAt) /\ e.expiresAt \in Nat /\ clock \in Nat
  BY PreviewAssumption DEF isDead, isExpired, PreviewTypeOK, PreviewEntry
<1> QED BY <1>1, PreviewAssumption DEF Swept, goneAt

(* A smaller set of entries counts no more, whoever holds them.             *)
LEMMA FewerHeld ==
  ASSUME CapsHold, NEW set \in SUBSET entries
  PROVE  /\ IsFiniteSet(set) /\ Cardinality(set) \in Nat /\ Cardinality(set) <= maxEntries
         /\ \A s \in McpSessions : /\ IsFiniteSet(Of(s, set)) /\ Cardinality(Of(s, set)) \in Nat
                                   /\ Cardinality(Of(s, set)) <= maxEntriesPerSession
<1>0. maxEntries \in Nat /\ maxEntriesPerSession \in Nat /\ Cardinality(entries) \in Nat
  BY PreviewAssumption, FS_CardinalityType DEF CapsHold
<1>1. IsFiniteSet(set) /\ Cardinality(set) \in Nat /\ Cardinality(set) <= Cardinality(entries)
  BY FS_Subset, FS_CardinalityType DEF CapsHold
<1>2. ASSUME NEW s \in McpSessions
      PROVE  /\ IsFiniteSet(Of(s, set)) /\ Cardinality(Of(s, set)) \in Nat
             /\ Cardinality(Of(s, set)) <= maxEntriesPerSession
  <2>1. IsFiniteSet(Of(s, entries)) /\ Cardinality(Of(s, entries)) \in Nat
    <3>1. Of(s, entries) \in SUBSET entries
      BY DEF Of
    <3> QED BY <3>1, FS_Subset, FS_CardinalityType DEF CapsHold
  <2>2. Of(s, set) \in SUBSET Of(s, entries)
    BY DEF Of
  <2>3. /\ IsFiniteSet(Of(s, set)) /\ Cardinality(Of(s, set)) \in Nat
        /\ Cardinality(Of(s, set)) <= Cardinality(Of(s, entries))
    BY <2>1, <2>2, FS_Subset, FS_CardinalityType
  <2> QED BY <1>0, <2>1, <2>3 DEF CapsHold
<1> QED BY <1>0, <1>1, <1>2 DEF CapsHold

(* A put makes room: within the session that puts, then in the store, and   *)
(* what it evicts alive is its own or comes from a session that holds no    *)
(* less, when nothing dead is left (enforceCaps).                           *)
LEMMA PutIsFair ==
  ASSUME CapsInv, NEW s \in McpSessions, Put(s)
  PROVE  /\ CapsHold'
         /\ \A e \in entries : ~isDead(e) /\ e \notin entries' =>
              \/ s = e.sessionId
              \/ /\ Cardinality(Of(s, entries')) <= Cardinality(Of(e.sessionId, entries))
                 /\ \A f \in entries' : ~isDead(f)
<1> DEFINE new  == [id |-> minted + 1, sessionId |-> s, expiresAt |-> clock + previewTtl,
                    consumed |-> FALSE, consumedAt |-> 0]
           base == Swept \cup {new}
           kept == WithinSession(s, base)
<1>0. PreviewTypeOK /\ maxEntries \in Nat \ {0} /\ maxEntriesPerSession \in Nat \ {0}
  BY PreviewAssumption DEF CapsInv, PreviewInv
<1>1. new \in PreviewEntry /\ new.sessionId = s
  BY <1>0, PreviewAssumption DEF Put, PreviewEntry, PreviewTypeOK, PreviewIds
<1>2. entries' = WithinTotal(kept)
  BY DEF Put
<1> HIDE DEF new
<1>3. Swept \in SUBSET entries /\ base \in SUBSET PreviewEntry /\ entries \in SUBSET PreviewEntry
  BY <1>0, <1>1, SweepDrops DEF PreviewTypeOK
<1>4. /\ IsFiniteSet(base) /\ Cardinality(base) \in Nat /\ Cardinality(base) <= maxEntries + 1
      /\ \A t \in McpSessions : IsFiniteSet(Of(t, base)) /\ Cardinality(Of(t, base)) \in Nat
      /\ Cardinality(Of(s, base)) <= maxEntriesPerSession + 1
      /\ \A t \in McpSessions \ {s} : /\ Of(t, base) \subseteq Of(t, entries)
                                      /\ Cardinality(Of(t, base)) <= maxEntriesPerSession
  <2>1. /\ IsFiniteSet(Swept) /\ Cardinality(Swept) \in Nat /\ Cardinality(Swept) <= maxEntries
        /\ \A t \in McpSessions : /\ IsFiniteSet(Of(t, Swept)) /\ Cardinality(Of(t, Swept)) \in Nat
                                  /\ Cardinality(Of(t, Swept)) <= maxEntriesPerSession
    BY <1>3, FewerHeld DEF CapsInv
  <2>2. IsFiniteSet(base) /\ Cardinality(base) \in {Cardinality(Swept), Cardinality(Swept) + 1}
    BY <2>1, FS_AddElement
  <2>3. Of(s, base) = Of(s, Swept) \cup {new} /\ \A t \in McpSessions \ {s} : Of(t, base) = Of(t, Swept)
    BY <1>1 DEF Of
  <2>4. /\ IsFiniteSet(Of(s, base))
        /\ Cardinality(Of(s, base)) \in {Cardinality(Of(s, Swept)), Cardinality(Of(s, Swept)) + 1}
    <3>1. IsFiniteSet(Of(s, Swept))
      BY <2>1
    <3> QED BY <2>3, <3>1, FS_AddElement
  <2>5. \A t \in McpSessions \ {s} : Of(t, base) \subseteq Of(t, entries)
    BY <1>3, <2>3 DEF Of
  <2>6. Cardinality(base) \in Nat /\ Cardinality(base) <= maxEntries + 1
    BY <1>0, <2>1, <2>2
  <2>7. Cardinality(Of(s, base)) \in Nat /\ Cardinality(Of(s, base)) <= maxEntriesPerSession + 1
    BY <1>0, <2>1, <2>4
  <2> HIDE DEF base
  <2> QED BY <2>1, <2>2, <2>3, <2>4, <2>5, <2>6, <2>7
<1> HIDE DEF base
<1>5. /\ kept \subseteq base
      /\ Cardinality(Of(s, kept)) <= maxEntriesPerSession
      /\ \A e \in base : e \notin kept => e.sessionId = s
  <2>1. CASE Cardinality(Of(s, base)) > maxEntriesPerSession
    <3> DEFINE v == Victim(Of(s, base))
    <3>1. Of(s, base) # {}
      BY <1>0, <2>1, FS_EmptySet
    <3>2. v \in Of(s, base)
      <4>1. Of(s, base) \in SUBSET PreviewEntry
        BY <1>3 DEF Of
      <4> QED BY <3>1, <4>1, VictimChosen
    <3>3. kept = base \ {v} /\ v.sessionId = s
      BY <2>1, <3>2 DEF WithinSession, Of
    <3> HIDE DEF v
    <3>4. Of(s, kept) = Of(s, base) \ {v}
      BY <3>3 DEF Of
    <3>5. Cardinality(Of(s, kept)) = Cardinality(Of(s, base)) - 1
      BY <1>4, <3>2, <3>4, FS_RemoveElement
    <3>6. Cardinality(Of(s, kept)) <= maxEntriesPerSession
      BY <1>0, <1>4, <3>5
    <3> QED BY <3>3, <3>6
  <2>2. CASE ~(Cardinality(Of(s, base)) > maxEntriesPerSession)
    <3>1. kept = base
      BY <2>2 DEF WithinSession
    <3>2. Cardinality(Of(s, base)) <= maxEntriesPerSession
      BY <1>0, <1>4, <2>2
    <3> HIDE DEF kept
    <3> QED BY <3>1, <3>2
  <2> QED BY <2>1, <2>2
<1> HIDE DEF kept
<1>6. /\ IsFiniteSet(kept) /\ Cardinality(kept) \in Nat /\ Cardinality(kept) <= maxEntries + 1
      /\ \A t \in McpSessions : /\ IsFiniteSet(Of(t, kept)) /\ Cardinality(Of(t, kept)) \in Nat
                                /\ Cardinality(Of(t, kept)) <= maxEntriesPerSession
  <2>1. IsFiniteSet(kept) /\ Cardinality(kept) \in Nat /\ Cardinality(kept) <= Cardinality(base)
    BY <1>4, <1>5, FS_Subset, FS_CardinalityType
  <2>2. ASSUME NEW t \in McpSessions
        PROVE  /\ IsFiniteSet(Of(t, kept)) /\ Cardinality(Of(t, kept)) \in Nat
               /\ Cardinality(Of(t, kept)) <= maxEntriesPerSession
    <3>1. Of(t, kept) \in SUBSET Of(t, base)
      BY <1>5 DEF Of
    <3>2. /\ IsFiniteSet(Of(t, kept)) /\ Cardinality(Of(t, kept)) \in Nat
          /\ Cardinality(Of(t, kept)) <= Cardinality(Of(t, base))
      BY <1>4, <3>1, FS_Subset, FS_CardinalityType
    <3> QED BY <1>0, <1>4, <1>5, <3>2
  <2> QED BY <1>0, <1>4, <2>1, <2>2
<1>7. \E set \in SUBSET kept :
        /\ entries' = set /\ Cardinality(set) <= maxEntries
        /\ \A e \in kept : e \notin set /\ ~isDead(e) =>
             /\ \A f \in kept : ~isDead(f)
             /\ s # e.sessionId => Cardinality(Of(s, set)) <= Cardinality(Of(e.sessionId, kept))
  <2>1. CASE Cardinality(kept) > maxEntries
    <3> DEFINE h == Heaviest(kept)
               v == Victim(Of(h, kept))
    <3>1. kept # {} /\ kept \in SUBSET PreviewEntry
      <4>1. kept = {} => Cardinality(kept) = 0
        BY FS_EmptySet
      <4> QED BY <1>0, <1>3, <1>5, <1>6, <2>1, <4>1
    <3>2. /\ Of(h, kept) # {}
          /\ (\E e \in kept : isDead(e)) => \E e \in Of(h, kept) : isDead(e)
          /\ (\A e \in kept : ~isDead(e)) =>
               \A f \in kept : Cardinality(Of(f.sessionId, kept)) <= Cardinality(Of(h, kept))
      BY <1>6, <3>1, HeaviestChosen
    <3>3. Of(h, kept) \in SUBSET PreviewEntry
      BY <3>1 DEF Of
    <3>4. v \in Of(h, kept) /\ (~isDead(v) => \A e \in Of(h, kept) : ~isDead(e))
      BY <3>2, <3>3, VictimChosen
    <3>5. entries' = kept \ {v} /\ v \in kept /\ v.sessionId = h
      BY <1>2, <2>1, <3>4 DEF WithinTotal, Of
    <3> HIDE DEF h, v
    <3>6. Cardinality(kept \ {v}) = Cardinality(kept) - 1
      BY <1>6, <3>5, FS_RemoveElement
    <3>7. Cardinality(kept \ {v}) <= maxEntries
      BY <1>0, <1>6, <3>6
    <3>8. ASSUME ~isDead(v) PROVE \A f \in kept : ~isDead(f)
      BY <3>2, <3>4, <3>8
    <3>9. ASSUME ~isDead(v), s # h
          PROVE  Cardinality(Of(s, kept \ {v})) <= Cardinality(Of(h, kept))
      <4>1. Of(s, kept \ {v}) = Of(s, kept)
        BY <3>5, <3>9 DEF Of
      <4>2. CASE Of(s, kept) = {}
        <5>1. Cardinality(Of(s, kept)) = 0
          BY <4>2, FS_EmptySet
        <5>2. Cardinality(Of(h, kept)) \in Nat
          <6>1. Of(h, kept) \in SUBSET kept
            BY DEF Of
          <6> QED BY <1>6, <6>1, FS_Subset, FS_CardinalityType
        <5> QED BY <4>1, <5>1, <5>2
      <4>3. CASE Of(s, kept) # {}
        <5>1. PICK f \in kept : f.sessionId = s
          BY <4>3 DEF Of
        <5> QED BY <3>2, <3>8, <3>9, <4>1, <5>1
      <4> QED BY <4>2, <4>3
    <3> WITNESS kept \ {v} \in SUBSET kept
    <3> QED BY <3>5, <3>7, <3>8, <3>9
  <2>2. CASE ~(Cardinality(kept) > maxEntries)
    <3>1. entries' = kept
      BY <1>2, <2>2 DEF WithinTotal
    <3>2. Cardinality(kept) <= maxEntries
      BY <1>0, <1>6, <2>2
    <3> WITNESS kept \in SUBSET kept
    <3> QED BY <3>1, <3>2
  <2> QED BY <2>1, <2>2
<1>8. PICK set \in SUBSET kept :
        /\ entries' = set /\ Cardinality(set) <= maxEntries
        /\ \A e \in kept : e \notin set /\ ~isDead(e) =>
             /\ \A f \in kept : ~isDead(f)
             /\ s # e.sessionId => Cardinality(Of(s, set)) <= Cardinality(Of(e.sessionId, kept))
  BY <1>7
<1>9. CapsHold'
  <2>1. IsFiniteSet(set) /\ Cardinality(set) <= maxEntries
    BY <1>6, <1>8, FS_Subset
  <2>2. ASSUME NEW t \in McpSessions PROVE Cardinality(Of(t, set)) <= maxEntriesPerSession
    <3>1. Of(t, set) \in SUBSET Of(t, kept)
      BY <1>8 DEF Of
    <3>2. Cardinality(Of(t, set)) \in Nat /\ Cardinality(Of(t, set)) <= Cardinality(Of(t, kept))
      BY <1>6, <3>1, FS_Subset, FS_CardinalityType
    <3> QED BY <1>0, <1>6, <3>2
  <2>3. \A t : Of(t, entries)' = Of(t, entries')
    BY DEF Of
  <2> QED BY <1>8, <2>1, <2>2, <2>3 DEF CapsHold
<1>10. ASSUME NEW e \in entries, ~isDead(e), e \notin entries', s # e.sessionId
       PROVE  /\ Cardinality(Of(s, entries')) <= Cardinality(Of(e.sessionId, entries))
              /\ \A f \in entries' : ~isDead(f)
  <2>1. e \in base /\ e \in PreviewEntry
    BY <1>0, <1>3, <1>10, SweepSparesTheLive DEF base
  <2>2. e \in kept /\ e.sessionId \in McpSessions
    BY <1>5, <1>10, <2>1 DEF PreviewEntry
  <2>3. /\ \A f \in kept : ~isDead(f)
        /\ Cardinality(Of(s, set)) <= Cardinality(Of(e.sessionId, kept))
    BY <1>8, <1>10, <2>2
  <2>4. Of(e.sessionId, kept) \subseteq Of(e.sessionId, entries)
    <3>1. Of(e.sessionId, kept) \subseteq Of(e.sessionId, base)
      BY <1>5 DEF Of
    <3> QED BY <1>4, <1>10, <2>2, <3>1
  <2>5. /\ IsFiniteSet(Of(e.sessionId, entries)) /\ Cardinality(Of(e.sessionId, entries)) \in Nat
    BY <2>2, FewerHeld DEF CapsInv
  <2>6. Cardinality(Of(e.sessionId, kept)) <= Cardinality(Of(e.sessionId, entries))
    BY <2>4, <2>5, FS_Subset
  <2>7. Cardinality(Of(s, set)) \in Nat /\ Cardinality(Of(e.sessionId, kept)) \in Nat
    <3>1. Of(s, set) \in SUBSET Of(s, kept)
      BY <1>8 DEF Of
    <3> QED BY <1>6, <2>2, <3>1, FS_Subset, FS_CardinalityType
  <2> QED BY <1>8, <2>3, <2>5, <2>6, <2>7
<1> QED BY <1>9, <1>10

(* Any other step keeps what is alive and counts no more.                   *)
LEMMA OthersKeep ==
  ASSUME CapsInv, [PreviewNext]_previewVars, ~ \E s \in McpSessions : Put(s)
  PROVE  /\ CapsHold'
         /\ \A e \in entries : ~isDead(e) => \E f \in entries' : f.id = e.id
<1>0. PreviewTypeOK /\ entries \in SUBSET PreviewEntry
  BY DEF CapsInv, PreviewInv, PreviewTypeOK
<1>1. ASSUME entries' \in SUBSET entries PROVE CapsHold'
  <2>1. \A t : Of(t, entries)' = Of(t, entries')
    BY DEF Of
  <2> QED BY <1>1, <2>1, FewerHeld DEF CapsInv, CapsHold
<1>2. CASE entries' = entries
  BY <1>1, <1>2
<1>3. CASE entries' = Swept
  BY <1>0, <1>1, <1>3, SweepDrops, SweepSparesTheLive
<1>4. ASSUME NEW e \in Swept,
             entries' = (Swept \ {e}) \cup {[e EXCEPT !.consumed = TRUE, !.consumedAt = clock]}
      PROVE  /\ CapsHold'
             /\ \A x \in entries : ~isDead(x) => \E f \in entries' : f.id = x.id
  <2> DEFINE used == [e EXCEPT !.consumed = TRUE, !.consumedAt = clock]
  <2>1. e \in entries /\ e \in PreviewEntry /\ used.id = e.id /\ used.sessionId = e.sessionId
    BY <1>0, SweepDrops DEF PreviewEntry
  <2> HIDE DEF used
  <2>2. entries' = (Swept \ {e}) \cup {used}
    BY <1>4 DEF used
  <2>3. \A x \in entries : ~isDead(x) => \E f \in entries' : f.id = x.id
    BY <1>0, <2>1, <2>2, SweepSparesTheLive
  <2>4. ASSUME NEW set \in SUBSET entries, IsFiniteSet(set), e \in set
        PROVE  /\ IsFiniteSet((set \ {e}) \cup {used})
               /\ Cardinality((set \ {e}) \cup {used}) <= Cardinality(set)
    <3>1. /\ IsFiniteSet(set \ {e}) /\ Cardinality(set \ {e}) = Cardinality(set) - 1
          /\ Cardinality(set) \in Nat
      BY <2>4, FS_RemoveElement, FS_CardinalityType
    <3>2. /\ IsFiniteSet((set \ {e}) \cup {used})
          /\ Cardinality((set \ {e}) \cup {used}) \in {Cardinality(set \ {e}), Cardinality(set \ {e}) + 1}
      BY <3>1, FS_AddElement
    <3> QED BY <3>1, <3>2
  <2>5. Swept \in SUBSET entries /\ IsFiniteSet(Swept) /\ Cardinality(Swept) \in Nat /\ Cardinality(Swept) <= maxEntries
    BY SweepDrops, FewerHeld DEF CapsInv
  <2>6. IsFiniteSet(entries') /\ Cardinality(entries') <= maxEntries
    <3>1. IsFiniteSet(entries') /\ Cardinality(entries') <= Cardinality(Swept) /\ Cardinality(entries') \in Nat
      BY <2>2, <2>4, <2>5, FS_CardinalityType
    <3> QED BY <2>5, <3>1, PreviewAssumption
  <2>7. ASSUME NEW t \in McpSessions PROVE Cardinality(Of(t, entries')) <= maxEntriesPerSession
    <3>1. /\ IsFiniteSet(Of(t, Swept)) /\ Cardinality(Of(t, Swept)) \in Nat
          /\ Cardinality(Of(t, Swept)) <= maxEntriesPerSession
      BY <2>5, FewerHeld DEF CapsInv
    <3>2. CASE t = e.sessionId
      <4>1. Of(t, entries') = (Of(t, Swept) \ {e}) \cup {used} /\ e \in Of(t, Swept)
        BY <2>1, <2>2, <3>2 DEF Of
      <4>2. Of(t, Swept) \in SUBSET entries
        BY <2>5 DEF Of
      <4>3. /\ IsFiniteSet(Of(t, entries')) /\ Cardinality(Of(t, entries')) <= Cardinality(Of(t, Swept))
            /\ Cardinality(Of(t, entries')) \in Nat
        BY <2>4, <3>1, <4>1, <4>2, FS_CardinalityType
      <4> QED BY <3>1, <4>3, PreviewAssumption
    <3>3. CASE t # e.sessionId
      <4>1. Of(t, entries') = Of(t, Swept)
        BY <2>1, <2>2, <3>3 DEF Of
      <4> QED BY <3>1, <4>1
    <3> QED BY <3>2, <3>3
  <2>8. \A t : Of(t, entries)' = Of(t, entries')
    BY DEF Of
  <2> QED BY <2>3, <2>6, <2>7, <2>8 DEF CapsHold
<1>5. \/ entries' = entries \/ entries' = Swept
      \/ \E e \in Swept : entries' = (Swept \ {e}) \cup {[e EXCEPT !.consumed = TRUE, !.consumedAt = clock]}
  BY DEF PreviewNext, previewVars, Get, Consume, PreviewTick, Of
<1> QED BY <1>2, <1>3, <1>4, <1>5

(* Every step keeps the caps and is fair.                                   *)
LEMMA CapsStepSafe ==
  ASSUME CapsInv, [PreviewNext]_previewVars
  PROVE  /\ CapsInv'
         /\ Cardinality(entries') <= maxEntries
         /\ \A s \in McpSessions : Cardinality(Of(s, entries')) <= maxEntriesPerSession
         /\ \A e \in entries : ~isDead(e) /\ (\A f \in entries' : f.id # e.id) =>
              /\ minted' = minted + 1
              /\ LET s == owner'[minted'] IN
                 \/ s = e.sessionId
                 \/ /\ Cardinality(Of(s, entries')) <= Cardinality(Of(e.sessionId, entries))
                    /\ \A f \in entries' : ~isDead(f)
<1>1. PreviewInv'
  BY PreviewStepSafe DEF CapsInv
<1>2. CapsHold' => /\ Cardinality(entries') <= maxEntries
                   /\ \A s \in McpSessions : Cardinality(Of(s, entries')) <= maxEntriesPerSession
  <2>1. \A t : Of(t, entries)' = Of(t, entries')
    BY DEF Of
  <2> QED BY <2>1 DEF CapsHold
<1>3. CASE \E s \in McpSessions : Put(s)
  <2>1. PICK s \in McpSessions : Put(s)
    BY <1>3
  <2>2. minted' = minted + 1 /\ owner'[minted'] = s
    <3>1. /\ minted < MaxMinted /\ minted' = minted + 1 /\ owner' = [owner EXCEPT ![minted + 1] = s]
          /\ minted \in Nat /\ MaxMinted \in Nat /\ owner \in [PreviewIds -> McpSessions \cup {Nobody}]
      BY <2>1, PreviewAssumption DEF Put, CapsInv, PreviewInv, PreviewTypeOK
    <3>2. minted + 1 \in PreviewIds
      BY <3>1 DEF PreviewIds
    <3> QED BY <3>1, <3>2
  <2>3. /\ CapsHold'
        /\ \A e \in entries : ~isDead(e) /\ e \notin entries' =>
             \/ s = e.sessionId
             \/ /\ Cardinality(Of(s, entries')) <= Cardinality(Of(e.sessionId, entries))
                /\ \A f \in entries' : ~isDead(f)
    BY <2>1, PutIsFair
  <2> QED BY <1>1, <1>2, <2>2, <2>3 DEF CapsInv
<1>4. CASE ~ \E s \in McpSessions : Put(s)
  BY <1>1, <1>2, <1>4, OthersKeep DEF CapsInv
<1> QED BY <1>3, <1>4

(* The store holds no more than its caps allow, and a live preview leaves   *)
(* it only for a new one of its own session or of a session that holds no   *)
(* more, once nothing dead is left (preview-store/index.ts:298-352).        *)
THEOREM EvictionIsFair == PreviewSpec => FairEviction
<1>1. PreviewInit => CapsInv
  <2> SUFFICES ASSUME PreviewInit PROVE CapsInv
    OBVIOUS
  <2>1. entries = {} /\ \A s : Of(s, entries) = {}
    BY DEF PreviewInit, Of
  <2>2. CapsHold
    BY <2>1, FS_EmptySet, PreviewAssumption DEF CapsHold
  <2> QED BY <2>2, PreviewInitSafe DEF CapsInv
<1> QED BY <1>1, CapsStepSafe, PTL DEF PreviewSpec, FairEviction

-----------------------------------------------------------------------------
(***************************************************************************)
(* RateLimitStore.  What the limiter keeps is compared with the history of *)
(* its grants, counted from the newest: the times agree as far as a minute *)
(* goes, the events for the hour, and the history keeps both budgets       *)
(* (Accounted).  Pruning, one more grant and a tick of the clock each keep *)
(* that, and #process is any number of grants after a pruning.             *)
(***************************************************************************)
(* Sums of costs.                                                           *)
Event == [age : Nat, cost : Nat]

(* The sums exist, start with nothing and grow by one cost after another.   *)
LEMMA SumsAreSums ==
  ASSUME NEW s \in Seq(Event)
  PROVE  /\ Sums(s)[0] = 0 /\ Total(s) = Sums(s)[Len(s)]
         /\ \A i \in 1 .. Len(s) : Sums(s)[i] = Sums(s)[i - 1] + s[i].cost
         /\ \A i \in 0 .. Len(s) : Sums(s)[i] \in Nat
<1> DEFINE n == Len(s)
           Is(f, m) == f = [i \in 0 .. m |-> IF i = 0 THEN 0 ELSE f[i - 1] + s[i].cost]
           Bad == {m \in Nat : m <= n /\ ~ \E f \in [0 .. m -> Nat] : Is(f, m)}
<1>0. n \in Nat /\ \A i \in 1 .. n : s[i].cost \in Nat
  <2>1. \A i \in 1 .. n : s[i] \in Event
    OBVIOUS
  <2> QED BY <2>1 DEF Event
<1>1. 0 \notin Bad
  <2>1. Is([i \in 0 .. 0 |-> 0], 0) /\ [i \in 0 .. 0 |-> 0] \in [0 .. 0 -> Nat]
    OBVIOUS
  <2> QED BY <2>1
<1>2. ASSUME NEW m \in Nat, m \notin Bad PROVE m + 1 \notin Bad
  <2> SUFFICES ASSUME m + 1 <= n PROVE \E f \in [0 .. m + 1 -> Nat] : Is(f, m + 1)
    OBVIOUS
  <2>1. PICK f \in [0 .. m -> Nat] : Is(f, m)
    BY <1>0, <1>2
  <2> DEFINE g == [i \in 0 .. m + 1 |-> IF i = m + 1 THEN f[i - 1] + s[i].cost ELSE f[i]]
  <2>2. g \in [0 .. m + 1 -> Nat]
    BY <1>0
  <2>3. Is(g, m + 1)
    BY <2>1
  <2> QED BY <2>2, <2>3
<1>3. Bad = {}
  <2>1. Bad \in SUBSET Nat
    OBVIOUS
  <2> HIDE DEF Bad
  <2> QED BY <1>1, <1>2, <2>1, NoCounterexample
<1>4. PICK f \in [0 .. n -> Nat] : Is(f, n)
  <2>1. n \in Nat /\ n <= n
    BY <1>0
  <2>2. n \notin Bad
    <3> HIDE DEF Bad
    <3> QED BY <1>3
  <2> HIDE DEF Is
  <2> QED BY <2>1, <2>2
<1>5. Is(Sums(s), n)
  BY <1>4 DEF Sums
<1> DEFINE Odd == {k \in Nat : k <= n /\ Sums(s)[k] \notin Nat}
<1>6. Sums(s)[0] = 0 /\ \A i \in 1 .. n : Sums(s)[i] = Sums(s)[i - 1] + s[i].cost
  BY <1>0, <1>5
<1>7. Odd = {}
  <2>1. 0 \notin Odd
    BY <1>6
  <2>2. ASSUME NEW m \in Nat, m \notin Odd PROVE m + 1 \notin Odd
    <3> SUFFICES ASSUME m + 1 <= n PROVE Sums(s)[m + 1] \in Nat
      OBVIOUS
    <3>1. Sums(s)[m] \in Nat
      BY <1>0, <2>2
    <3>2. Sums(s)[m + 1] = Sums(s)[m] + s[m + 1].cost
      BY <1>6
    <3> QED BY <1>0, <3>1, <3>2
  <2>3. Odd \in SUBSET Nat
    OBVIOUS
  <2> HIDE DEF Odd
  <2> QED BY <2>1, <2>2, <2>3, NoCounterexample
<1> QED BY <1>6, <1>7 DEF Total

(* The tail of a sequence, with lower costs perhaps, costs no more.         *)
LEMMA TailCostsLess ==
  ASSUME NEW s \in Seq(Event), NEW t \in Seq(Event), NEW d \in Nat,
         Len(s) = d + Len(t), \A i \in 1 .. Len(t) : t[i].cost <= s[d + i].cost
  PROVE  Total(t) <= Total(s)
<1> DEFINE n == Len(t)
           Bad == {i \in Nat : i <= n /\ ~(Sums(t)[i] <= Sums(s)[d + i])}
<1>0. n \in Nat /\ \A i \in 1 .. n : t[i].cost \in Nat /\ s[d + i].cost \in Nat
  <2>1. \A i \in 1 .. n : t[i] \in Event /\ d + i \in 1 .. Len(s)
    OBVIOUS
  <2>2. \A i \in 1 .. Len(s) : s[i].cost \in Nat
    <3>1. \A i \in 1 .. Len(s) : s[i] \in Event
      OBVIOUS
    <3> QED BY <3>1 DEF Event
  <2>3. \A i \in 1 .. n : t[i].cost \in Nat
    BY <2>1 DEF Event
  <2> QED BY <2>1, <2>2, <2>3
<1>1. 0 \notin Bad
  BY SumsAreSums
<1>2. ASSUME NEW m \in Nat, m \notin Bad PROVE m + 1 \notin Bad
  <2> SUFFICES ASSUME m + 1 <= n PROVE Sums(t)[m + 1] <= Sums(s)[d + (m + 1)]
    OBVIOUS
  <2>1. Sums(t)[m] <= Sums(s)[d + m] /\ Sums(t)[m] \in Nat /\ Sums(s)[d + m] \in Nat
    BY <1>0, <1>2, SumsAreSums
  <2>2. Sums(t)[m + 1] = Sums(t)[m] + t[m + 1].cost
    BY <1>0, SumsAreSums
  <2>3. Sums(s)[d + (m + 1)] = Sums(s)[d + m] + s[d + (m + 1)].cost
    <3>1. d + (m + 1) \in 1 .. Len(s) /\ (d + (m + 1)) - 1 = d + m
      BY <1>0
    <3> QED BY <3>1, SumsAreSums
  <2>4. t[m + 1].cost \in Nat /\ s[d + (m + 1)].cost \in Nat /\ t[m + 1].cost <= s[d + (m + 1)].cost
    <3>1. m + 1 \in 1 .. n
      BY <1>0
    <3> QED BY <1>0, <3>1
  <2> QED BY <2>1, <2>2, <2>3, <2>4
<1>3. Bad = {}
  <2>1. Bad \in SUBSET Nat
    OBVIOUS
  <2> HIDE DEF Bad
  <2> QED BY <1>1, <1>2, <2>1, NoCounterexample
<1>4. n \in Nat /\ n <= n /\ d + n = Len(s)
  BY <1>0
<1>5. Sums(t)[n] <= Sums(s)[d + n]
  BY <1>3, <1>4
<1> QED BY <1>4, <1>5, SumsAreSums

(* One more event costs its cost more.                                      *)
LEMMA OneMoreCosts ==
  ASSUME NEW s \in Seq(Event), NEW e \in Event
  PROVE  Total(Append(s, e)) = Total(s) + e.cost
<1> DEFINE t == Append(s, e)
           n == Len(s)
           Bad == {i \in Nat : i <= n /\ Sums(t)[i] # Sums(s)[i]}
<1>0. n \in Nat /\ t \in Seq(Event) /\ Len(t) = n + 1 /\ t[n + 1] = e /\ \A i \in 1 .. n : t[i] = s[i]
  OBVIOUS
<1> HIDE DEF t
<1>1. 0 \notin Bad
  BY <1>0, SumsAreSums
<1>2. ASSUME NEW m \in Nat, m \notin Bad PROVE m + 1 \notin Bad
  <2> SUFFICES ASSUME m + 1 <= n PROVE Sums(t)[m + 1] = Sums(s)[m + 1]
    OBVIOUS
  <2>1. Sums(t)[m] = Sums(s)[m]
    BY <1>0, <1>2
  <2>2. Sums(t)[m + 1] = Sums(t)[m] + t[m + 1].cost /\ Sums(s)[m + 1] = Sums(s)[m] + s[m + 1].cost
    BY <1>0, SumsAreSums
  <2> QED BY <1>0, <2>1, <2>2
<1>3. Bad = {}
  <2>1. Bad \in SUBSET Nat
    OBVIOUS
  <2> HIDE DEF Bad
  <2> QED BY <1>1, <1>2, <2>1, NoCounterexample
<1>4. Sums(t)[n] = Sums(s)[n] /\ Sums(t)[n + 1] = Sums(t)[n] + e.cost
  BY <1>0, <1>3, SumsAreSums
<1> QED BY <1>0, <1>4, SumsAreSums DEF t

-----------------------------------------------------------------------------
(* What is pruned is the tail from the first place that stays.              *)
LEMMA FromIsTail ==
  ASSUME NEW S, NEW s \in Seq(S), NEW P \in SUBSET (1 .. Len(s))
  PROVE  /\ From(s, P) \in Seq(S)
         /\ \E d \in 0 .. Len(s) :
              /\ Len(s) = d + Len(From(s, P))
              /\ \A i \in 1 .. Len(From(s, P)) : From(s, P)[i] = s[d + i]
              /\ \A i \in 1 .. d : i \notin P
              /\ d < Len(s) => d + 1 \in P
<1>0. Len(s) \in Nat
  OBVIOUS
<1>1. CASE P = {}
  <2>1. From(s, P) = <<>>
    BY <1>1 DEF From
  <2>2. /\ Len(s) \in 0 .. Len(s) /\ Len(s) = Len(s) + Len(<<>>) /\ ~(Len(s) < Len(s))
        /\ \A i \in 1 .. Len(<<>>) : FALSE
        /\ \A i \in 1 .. Len(s) : i \notin P
    BY <1>0, <1>1
  <2>3. <<>> \in Seq(S)
    OBVIOUS
  <2> QED BY <2>1, <2>2, <2>3
<1>2. CASE P # {}
  <2> DEFINE f == CHOOSE i \in P : \A j \in P : i <= j
  <2>1. f \in P /\ \A j \in P : f <= j
    <3>1. P \in SUBSET Nat
      OBVIOUS
    <3>2. \E i \in P : \A j \in P : i <= j
      BY <1>2, <3>1, LeastNumber
    <3> QED BY <3>2
  <2>2. From(s, P) = SubSeq(s, f, Len(s))
    BY <1>2 DEF From
  <2> HIDE DEF f
  <2>3. f \in 1 .. Len(s)
    BY <2>1
  <2>4. SubSeq(s, f, Len(s)) \in Seq(S) /\ Len(SubSeq(s, f, Len(s))) = Len(s) - f + 1
        /\ \A i \in 1 .. Len(s) - f + 1 : SubSeq(s, f, Len(s))[i] = s[f + i - 1]
    BY <1>0, <2>3, SubSeqProperties
  <2>5. /\ f - 1 \in 0 .. Len(s) /\ Len(s) = (f - 1) + Len(From(s, P))
        /\ \A i \in 1 .. Len(From(s, P)) : From(s, P)[i] = s[(f - 1) + i]
        /\ \A i \in 1 .. f - 1 : i \notin P
        /\ (f - 1) + 1 \in P
    <3>1. \A i \in 1 .. Len(s) - f + 1 : f + i - 1 = (f - 1) + i
      BY <1>0, <2>3
    <3> QED BY <1>0, <2>1, <2>2, <2>3, <2>4, <3>1
  <2> QED BY <2>2, <2>4, <2>5
<1> QED BY <1>1, <1>2

(* The windows against the history: counted from the newest, the times are  *)
(* those of the grants, as far as a minute goes, and the events are the     *)
(* grants of the last hour; what they hold beyond is older.                 *)
TimesAgree(T, L) ==
  /\ T \in Seq(0 .. MINUTE + 1)
  /\ \A r \in Nat :
       /\ r < Len(T) /\ r < Len(L) => T[Len(T) - r] = Smaller(L[Len(L) - r].age, MINUTE + 1)
       /\ r < Len(T) /\ ~(r < Len(L)) => T[Len(T) - r] = MINUTE + 1
       /\ ~(r < Len(T)) /\ r < Len(L) => L[Len(L) - r].age > MINUTE

EventsAgree(E, L) ==
  /\ E \in Seq(Event)
  /\ \A r \in Nat :
       /\ r < Len(L) => r < Len(E) /\ E[Len(E) - r] = L[Len(L) - r]
       /\ ~(r < Len(L)) /\ r < Len(E) => E[Len(E) - r].age >= HOUR

Aging(L) ==
  /\ L \in Seq(Event)
  /\ \A i \in 1 .. Len(L) : L[i].age < HOUR
  /\ \A i, j \in 1 .. Len(L) : i < j => L[i].age >= L[j].age

(* The budgets of a history.                                                *)
Kept(L) ==
  /\ \A r \in Nat : r < Len(L) /\ L[Len(L) - r].age < MINUTE => r < MaxPerMinute
  /\ Total(Modest(L)) <= MaxRecordsPerHour

Accounted(T, E, L) == TimesAgree(T, L) /\ EventsAgree(E, L) /\ Aging(L) /\ Kept(L)

(* The least numbers the constants are good for.                            *)
LEMMA RateNumbers ==
  /\ MINUTE \in Nat /\ MINUTE >= 1 /\ HOUR \in Nat /\ MINUTE + 1 <= HOUR
  /\ MaxPerMinute \in Nat /\ MaxPerMinute >= 1 /\ MaxRecordsPerHour \in Nat
  /\ WaitCap \in Nat /\ MaxReset \in Nat /\ Costs \subseteq Nat
  /\ MINUTE + 1 \in Nat /\ Old \in Nat /\ Old = HOUR + 1 /\ 0 \in 0 .. MINUTE + 1
BY RateAssumption DEF Old

(* Pruning loses nothing that is young.                                     *)
LEMMA PruneSafe ==
  ASSUME NEW T, NEW E, NEW L, Accounted(T, E, L)
  PROVE  Accounted(PrunedTimes(T), PrunedEvents(E), L)
<1>1. TimesAgree(PrunedTimes(T), L)
  <2> DEFINE P == {i \in DOMAIN T : T[i] <= MINUTE}
             U == From(T, P)
  <2>0. T \in Seq(0 .. MINUTE + 1) /\ DOMAIN T = 1 .. Len(T) /\ Len(T) \in Nat /\ L \in Seq(Event) /\ Len(L) \in Nat
    BY DEF Accounted, TimesAgree, Aging
  <2>1. U \in Seq(0 .. MINUTE + 1) /\ Len(U) \in Nat
    BY <2>0, FromIsTail
  <2>2. PICK d \in 0 .. Len(T) :
           /\ Len(T) = d + Len(U)
           /\ \A i \in 1 .. Len(U) : U[i] = T[d + i]
           /\ \A i \in 1 .. d : i \notin P
    BY <2>0, FromIsTail
  <2>3. \A i \in 1 .. d : T[i] = MINUTE + 1
    <3> SUFFICES ASSUME NEW i \in 1 .. d PROVE T[i] = MINUTE + 1
      OBVIOUS
    <3>0. i \in 1 .. Len(T) /\ i \notin P
      <4> HIDE DEF P
      <4> QED BY <2>0, <2>2
    <3>1. i \in 1 .. Len(T) /\ T[i] \in 0 .. MINUTE + 1 /\ i \notin P
      <4> DEFINE S == 0 .. MINUTE + 1
      <4>1. T \in Seq(S)
        BY <2>0
      <4> HIDE DEF S, P
      <4>2. T[i] \in S
        BY <4>1, <3>0, ElementOfSeq
      <4> QED BY <3>0, <4>2 DEF S
    <3> QED BY <3>1, <2>0, RateNumbers
  <2>4. PrunedTimes(T) = U
    BY DEF PrunedTimes
  <2> HIDE DEF U, P
  <2>5. ASSUME NEW r \in Nat
        PROVE  /\ r < Len(U) /\ r < Len(L) => U[Len(U) - r] = Smaller(L[Len(L) - r].age, MINUTE + 1)
               /\ r < Len(U) /\ ~(r < Len(L)) => U[Len(U) - r] = MINUTE + 1
               /\ ~(r < Len(U)) /\ r < Len(L) => L[Len(L) - r].age > MINUTE
    <3>1. /\ r < Len(T) /\ r < Len(L) => T[Len(T) - r] = Smaller(L[Len(L) - r].age, MINUTE + 1)
          /\ r < Len(T) /\ ~(r < Len(L)) => T[Len(T) - r] = MINUTE + 1
          /\ ~(r < Len(T)) /\ r < Len(L) => L[Len(L) - r].age > MINUTE
      BY DEF Accounted, TimesAgree
    <3>2. CASE r < Len(U)
      <4>1. r < Len(T) /\ Len(U) - r \in 1 .. Len(U) /\ d + (Len(U) - r) = Len(T) - r
        BY <2>0, <2>1, <2>2, <3>2
      <4>2. U[Len(U) - r] = T[Len(T) - r]
        BY <2>2, <4>1
      <4> QED BY <3>1, <3>2, <4>1, <4>2
    <3>3. CASE ~(r < Len(U)) /\ r < Len(T)
      <4>1. Len(T) - r \in 1 .. d
        BY <2>0, <2>1, <2>2, <3>3
      <4>2. T[Len(T) - r] = MINUTE + 1
        BY <2>3, <4>1
      <4>3. r < Len(L) => L[Len(L) - r].age \in Nat
        <5> SUFFICES ASSUME r < Len(L) PROVE L[Len(L) - r].age \in Nat
          OBVIOUS
        <5>1. Len(L) - r \in 1 .. Len(L)
          BY <2>0
        <5>2. L[Len(L) - r] \in Event
          BY <2>0, <5>1
        <5> QED BY <5>2 DEF Event
      <4> QED BY <3>1, <3>3, <4>2, <4>3, RateNumbers DEF Smaller
    <3> QED BY <3>1, <3>2, <3>3
  <2> QED BY <2>1, <2>4, <2>5 DEF TimesAgree
<1>2. EventsAgree(PrunedEvents(E), L)
  <2> DEFINE P == {i \in DOMAIN E : E[i].age <= HOUR}
             U == From(E, P)
  <2>0. E \in Seq(Event) /\ DOMAIN E = 1 .. Len(E) /\ Len(E) \in Nat /\ L \in Seq(Event) /\ Len(L) \in Nat
    BY DEF Accounted, EventsAgree, Aging
  <2>1. U \in Seq(Event) /\ Len(U) \in Nat
    BY <2>0, FromIsTail
  <2>2. PICK d \in 0 .. Len(E) :
           /\ Len(E) = d + Len(U)
           /\ \A i \in 1 .. Len(U) : U[i] = E[d + i]
           /\ \A i \in 1 .. d : i \notin P
    BY <2>0, FromIsTail
  <2>3. \A i \in 1 .. d : E[i].age > HOUR
    <3> SUFFICES ASSUME NEW i \in 1 .. d PROVE E[i].age > HOUR
      OBVIOUS
    <3>0. i \in 1 .. Len(E) /\ i \notin P
      <4> HIDE DEF P
      <4> QED BY <2>0, <2>2
    <3>1. i \in 1 .. Len(E) /\ E[i] \in Event /\ i \notin P
      BY <2>0, <3>0
    <3>2. E[i].age \in Nat
      BY <3>1 DEF Event
    <3> QED BY <3>1, <3>2, <2>0, RateNumbers
  <2>4. PrunedEvents(E) = U
    BY DEF PrunedEvents
  <2> HIDE DEF U, P
  <2>5. ASSUME NEW r \in Nat
        PROVE  /\ r < Len(L) => r < Len(U) /\ U[Len(U) - r] = L[Len(L) - r]
               /\ ~(r < Len(L)) /\ r < Len(U) => U[Len(U) - r].age >= HOUR
    <3>1. /\ r < Len(L) => r < Len(E) /\ E[Len(E) - r] = L[Len(L) - r]
          /\ ~(r < Len(L)) /\ r < Len(E) => E[Len(E) - r].age >= HOUR
      BY DEF Accounted, EventsAgree
    <3>2. CASE r < Len(U)
      <4>1. r < Len(E) /\ Len(U) - r \in 1 .. Len(U) /\ d + (Len(U) - r) = Len(E) - r
        BY <2>0, <2>1, <2>2, <3>2
      <4>2. U[Len(U) - r] = E[Len(E) - r]
        BY <2>2, <4>1
      <4> QED BY <3>1, <3>2, <4>1, <4>2
    <3>3. CASE ~(r < Len(U)) /\ r < Len(L)
      <4>1. Len(E) - r \in 1 .. d
        BY <2>0, <2>1, <2>2, <3>1, <3>3
      <4>2. E[Len(E) - r].age > HOUR /\ E[Len(E) - r] = L[Len(L) - r]
        BY <2>3, <3>1, <3>3, <4>1
      <4>3. Len(L) - r \in 1 .. Len(L)
        BY <2>0, <3>3
      <4>4. L[Len(L) - r].age < HOUR /\ L[Len(L) - r] \in Event
        BY <2>0, <4>3 DEF Accounted, Aging
      <4>5. L[Len(L) - r].age \in Nat
        BY <4>4 DEF Event
      <4> QED BY <4>2, <4>4, <4>5, RateNumbers
    <3> QED BY <3>2, <3>3
  <2> QED BY <2>1, <2>4, <2>5 DEF EventsAgree
<1> QED BY <1>1, <1>2 DEF Accounted

(* The grants counted as nothing or at their cost are events, too.          *)
LEMMA ModestEvents ==
  ASSUME NEW L \in Seq(Event)
  PROVE  /\ Modest(L) \in Seq(Event) /\ Len(Modest(L)) = Len(L)
         /\ \A i \in 1 .. Len(L) : Modest(L)[i] \in Event
         /\ \A i \in 1 .. Len(L) :
              Modest(L)[i].cost = IF L[i].cost <= MaxRecordsPerHour THEN L[i].cost ELSE 0
<1> DEFINE one(e) == IF e.cost <= MaxRecordsPerHour THEN e ELSE [e EXCEPT !.cost = 0]
<1>1. \A e \in Event : one(e) \in Event /\ one(e).cost = IF e.cost <= MaxRecordsPerHour THEN e.cost ELSE 0
  BY DEF Event
<1>2. Modest(L) = [i \in 1 .. Len(L) |-> one(L[i])]
  BY DEF Modest
<1> HIDE DEF one
<1>3. \A i \in 1 .. Len(L) : L[i] \in Event
  OBVIOUS
<1>4. \A i \in 1 .. Len(L) : one(L[i]) \in Event
  BY <1>1, <1>3
<1>5. [i \in 1 .. Len(L) |-> one(L[i])] \in Seq(Event)
  BY <1>4, IsASeq
<1> QED BY <1>1, <1>2, <1>3, <1>4, <1>5

(* The rest of a sequence, after its first i elements.                      *)
LEMMA RestIsTail ==
  ASSUME NEW S, NEW s \in Seq(S), NEW i \in 0 .. Len(s)
  PROVE  /\ SubSeq(s, i + 1, Len(s)) \in Seq(S)
         /\ Len(SubSeq(s, i + 1, Len(s))) = Len(s) - i
         /\ \A k \in 1 .. Len(s) - i : SubSeq(s, i + 1, Len(s))[k] = s[i + k]
<1> DEFINE m == i + 1
           n == Len(s)
<1>1. m \in Nat /\ n \in Nat /\ m >= 1 /\ m <= n + 1 /\ n - m + 1 = n - i
      /\ \A k \in 1 .. n - i : m + k - 1 = i + k
  OBVIOUS
<1>2. \A k \in m .. n : s[k] \in S
  <2>1. m .. n \subseteq 1 .. Len(s)
    BY <1>1
  <2> QED BY <2>1, ElementOfSeq
<1> HIDE DEF m, n
<1>3. /\ SubSeq(s, m, n) \in Seq(S)
      /\ Len(SubSeq(s, m, n)) = IF m <= n THEN n - m + 1 ELSE 0
      /\ \A k \in 1 .. n - m + 1 : SubSeq(s, m, n)[k] = s[m + k - 1]
  BY <1>1, <1>2, SubSeqProperties
<1>4. Len(SubSeq(s, m, n)) = n - i
  BY <1>1, <1>3 DEF m
<1>5. \A k \in 1 .. n - i : SubSeq(s, m, n)[k] = s[i + k]
  BY <1>1, <1>3
<1> QED BY <1>3, <1>4, <1>5 DEF m, n

(* What an hour's grants cost, those too large aside, when one more is let  *)
(* through: the events from the limiting one on leave room for it.          *)
LEMMA RoomForCost ==
  ASSUME NEW E, NEW L, EventsAgree(E, L), Aging(L), Kept(L), NEW c \in Costs,
         RecordWait(E, c) \in Int, RecordWait(E, c) <= 0, c <= MaxRecordsPerHour
  PROVE  Total(Modest(L)) + c <= MaxRecordsPerHour
<1> DEFINE Rest(i) == SubSeq(E, i + 1, Len(E))
           Fits(i) == Total(Rest(i)) + c <= MaxRecordsPerHour
           enough == {i \in DOMAIN E : Fits(i)}
           first == CHOOSE i \in enough : \A j \in enough : i <= j
<1>0. /\ E \in Seq(Event) /\ L \in Seq(Event) /\ Len(E) \in Nat /\ Len(L) \in Nat /\ DOMAIN E = 1 .. Len(E)
      /\ c \in Nat
  BY RateNumbers DEF EventsAgree, Aging
<1>1. RecordWait(E, c) = IF Fits(0) \/ enough = {} THEN 0 ELSE HOUR - E[first].age
  BY DEF RecordWait
<1>2. ASSUME NEW i \in 0 .. Len(E)
      PROVE  /\ Rest(i) \in Seq(Event)
             /\ Len(Rest(i)) = Len(E) - i
             /\ \A k \in 1 .. Len(E) - i : Rest(i)[k] = E[i + k]
  BY <1>0, RestIsTail
<1>3. Modest(L) \in Seq(Event) /\ Len(Modest(L)) = Len(L) /\ Total(Modest(L)) \in Nat
      /\ \A i \in 1 .. Len(L) : Modest(L)[i].cost <= L[i].cost
  <2>1. \A i \in 1 .. Len(L) : L[i].cost \in Nat
    <3>1. \A i \in 1 .. Len(L) : L[i] \in Event
      BY <1>0
    <3> QED BY <3>1 DEF Event
  <2>2. Modest(L) \in Seq(Event) /\ Len(Modest(L)) = Len(L)
        /\ \A i \in 1 .. Len(L) : Modest(L)[i].cost = IF L[i].cost <= MaxRecordsPerHour THEN L[i].cost ELSE 0
    BY <1>0, ModestEvents
  <2>3. Total(Modest(L)) \in Nat
    BY <1>0, <2>2, SumsAreSums
  <2> QED BY <2>1, <2>2, <2>3
<1>4. \A r \in Nat : /\ r < Len(L) => r < Len(E) /\ E[Len(E) - r] = L[Len(L) - r]
                     /\ ~(r < Len(L)) /\ r < Len(E) => E[Len(E) - r].age >= HOUR
  BY DEF EventsAgree
<1>5. Len(L) <= Len(E)
  <2>1. CASE Len(L) = 0
    BY <1>0, <2>1
  <2>2. CASE Len(L) > 0
    <3>1. Len(L) - 1 \in Nat /\ Len(L) - 1 < Len(L)
      BY <1>0, <2>2
    <3> QED BY <1>0, <1>4, <3>1
  <2> QED BY <1>0, <2>1, <2>2
(* The events from place i on include the history, if it is that short. *)
<1>6. ASSUME NEW i \in 0 .. Len(E), Len(L) <= Len(E) - i PROVE Total(Modest(L)) <= Total(Rest(i))
  <2> DEFINE d == Len(E) - i - Len(L)
  <2>0. Rest(i) \in Seq(Event) /\ Len(Rest(i)) = Len(E) - i
        /\ \A k \in 1 .. Len(E) - i : Rest(i)[k] = E[i + k]
    BY <1>2
  <2> HIDE DEF Rest
  <2>1. d \in Nat /\ Rest(i) \in Seq(Event) /\ Len(Rest(i)) = d + Len(Modest(L))
    BY <1>0, <2>0, <1>3, <1>6
  <2>2. ASSUME NEW k \in 1 .. Len(L) PROVE Modest(L)[k].cost <= Rest(i)[d + k].cost
    <3>1. Len(L) - k \in Nat /\ Len(L) - k < Len(L) /\ Len(L) - (Len(L) - k) = k
      BY <1>0
    <3>2. E[Len(E) - (Len(L) - k)] = L[k]
      BY <1>4, <3>1
    <3>3. d + k \in 1 .. Len(E) - i /\ i + (d + k) = Len(E) - (Len(L) - k)
      BY <1>0, <1>6
    <3>4. Rest(i)[d + k] = E[i + (d + k)]
      BY <2>0, <3>3
    <3> QED BY <1>3, <3>2, <3>3, <3>4
  <2> HIDE DEF d
  <2> QED BY <1>3, <2>1, <2>2, TailCostsLess
<1>7. CASE Fits(0)
  <2>0. 0 \in 0 .. Len(E) /\ Len(L) <= Len(E) - 0
    BY <1>0, <1>5
  <2>1. Rest(0) \in Seq(Event) /\ Total(Modest(L)) <= Total(Rest(0))
    BY <2>0, <1>2, <1>6
  <2> HIDE DEF Rest
  <2>2. Total(Rest(0)) \in Nat
    BY <2>1, SumsAreSums
  <2> QED BY <1>0, <1>3, <1>7, <2>1, <2>2, RateNumbers
<1>8. CASE ~Fits(0)
  <2>0. Len(E) \in 0 .. Len(E) /\ Len(E) - Len(E) = 0
    BY <1>0
  <2>1. Rest(Len(E)) \in Seq(Event) /\ Len(Rest(Len(E))) = 0
    BY <2>0, RestIsTail, <1>0
  <2>2. Total(Rest(Len(E))) = 0
    BY <2>1, SumsAreSums
  <2>3. Fits(Len(E))
    BY <1>0, <2>2, RateNumbers
  <2>4. Len(E) # 0
    BY <1>8, <2>3
  <2>5. Len(E) \in enough
    BY <1>0, <2>3, <2>4
  <2>6. enough \in SUBSET Nat /\ enough # {}
    BY <1>0, <2>5
  <2>7. first \in enough
    <3> HIDE DEF enough
    <3>1. \E i \in enough : \A j \in enough : i <= j
      BY <2>6, LeastNumber
    <3> QED BY <3>1
  <2>8. HOUR - E[first].age <= 0
    BY <1>1, <1>8, <2>6
  <2>9. first \in 1 .. Len(E) /\ Fits(first)
    BY <1>0, <2>7
  <2> HIDE DEF first, enough
  <2>10. Len(L) <= Len(E) - first
    <3> SUFFICES ASSUME ~(Len(L) <= Len(E) - first) PROVE FALSE
      OBVIOUS
    <3> DEFINE r == Len(E) - first
    <3>1. r \in Nat /\ r < Len(L) /\ Len(E) - r = first
      BY <1>0, <2>9
    <3>2. E[first] = L[Len(L) - r] /\ Len(L) - r \in 1 .. Len(L)
      BY <1>0, <1>4, <3>1
    <3>3. E[first].age < HOUR /\ E[first] \in Event
      BY <1>0, <3>2 DEF Aging
    <3>4. E[first].age \in Nat
      BY <3>3 DEF Event
    <3> QED BY <2>8, <3>3, <3>4, RateNumbers
  <2>11. Rest(first) \in Seq(Event) /\ Total(Modest(L)) <= Total(Rest(first))
    <3>1. first \in 0 .. Len(E)
      BY <1>0, <2>9
    <3> QED BY <3>1, <1>2, <1>6, <2>10
  <2> HIDE DEF Rest
  <2>12. Total(Rest(first)) \in Nat
    BY <2>11, SumsAreSums
  <2> QED BY <1>0, <1>3, <2>9, <2>11, <2>12, RateNumbers
<1> QED BY <1>7, <1>8

(* A wait is a number.                                                      *)
LEMMA WaitsAreNumbers ==
  ASSUME NEW T \in Seq(0 .. MINUTE + 1), NEW E \in Seq(Event), NEW c
  PROVE  RequestWait(T) \in Int /\ RecordWait(E, c) \in Int
<1>1. RequestWait(T) \in Int
  <2>1. CASE Len(T) < MaxPerMinute
    BY <2>1 DEF RequestWait
  <2>2. CASE ~(Len(T) < MaxPerMinute)
    <3> DEFINE i == Len(T) - MaxPerMinute + 1
               S == 0 .. MINUTE + 1
    <3>1. i \in 1 .. Len(T)
      BY <2>2, RateNumbers
    <3>2. T \in Seq(S)
      OBVIOUS
    <3> HIDE DEF S, i
    <3>3. T[i] \in S
      BY <3>1, <3>2, ElementOfSeq
    <3>4. T[i] \in Int /\ MINUTE \in Int
      BY <3>3, RateNumbers DEF S
    <3>5. RequestWait(T) = MINUTE - T[i]
      BY <2>2 DEF RequestWait, i
    <3> QED BY <3>4, <3>5
  <2> QED BY <2>1, <2>2
<1>2. RecordWait(E, c) \in Int
  <2> DEFINE Fits(i) == Total(SubSeq(E, i + 1, Len(E))) + c <= MaxRecordsPerHour
             enough == {i \in DOMAIN E : Fits(i)}
             first == CHOOSE i \in enough : \A j \in enough : i <= j
  <2>1. RecordWait(E, c) = IF Fits(0) \/ enough = {} THEN 0 ELSE HOUR - E[first].age
    BY DEF RecordWait
  <2>2. enough \subseteq 1 .. Len(E)
    OBVIOUS
  <2> HIDE DEF enough, Fits
  <2>3. CASE enough = {}
    BY <2>1, <2>3
  <2>4. CASE enough # {}
    <3>1. enough \in SUBSET Nat
      BY <2>2
    <3>2. \E i \in enough : \A j \in enough : i <= j
      BY <2>4, <3>1, LeastNumber
    <3>3. first \in 1 .. Len(E)
      BY <2>2, <3>2
    <3> HIDE DEF first
    <3>4. E[first] \in Event
      BY <3>3
    <3>5. E[first].age \in Nat
      BY <3>4 DEF Event
    <3> QED BY <2>1, <3>5, RateNumbers
  <2> QED BY <2>3, <2>4
<1> QED BY <1>1, <1>2

(* One request more leaves no more than MaxPerMinute in any minute.         *)
LEMMA RoomForRequest ==
  ASSUME NEW T, NEW L, TimesAgree(T, L), Aging(L), Kept(L), RequestWait(T) <= 0,
         NEW r \in Nat, r < Len(L), L[Len(L) - r].age < MINUTE
  PROVE  r + 1 < MaxPerMinute
<1>0. T \in Seq(0 .. MINUTE + 1) /\ Len(T) \in Nat /\ L \in Seq(Event) /\ Len(L) \in Nat
  BY DEF TimesAgree, Aging
<1>1. r < MaxPerMinute
  BY DEF Kept
<1>2. L[Len(L) - r].age \in Nat
  <2>1. Len(L) - r \in 1 .. Len(L)
    BY <1>0
  <2>2. L[Len(L) - r] \in Event
    BY <1>0, <2>1
  <2> QED BY <2>2 DEF Event
<1>3. /\ r < Len(T) => T[Len(T) - r] = Smaller(L[Len(L) - r].age, MINUTE + 1)
      /\ ~(r < Len(T)) => L[Len(L) - r].age > MINUTE
  BY DEF TimesAgree
<1>4. r < Len(T) /\ T[Len(T) - r] = L[Len(L) - r].age
  BY <1>2, <1>3, RateNumbers DEF Smaller
<1>5. CASE Len(T) < MaxPerMinute
  BY <1>0, <1>4, <1>5, RateNumbers
<1>6. CASE ~(Len(T) < MaxPerMinute)
  <2>1. MINUTE - T[Len(T) - MaxPerMinute + 1] <= 0
    BY <1>6 DEF RequestWait
  <2>2. r # MaxPerMinute - 1
    <3> SUFFICES ASSUME r = MaxPerMinute - 1 PROVE FALSE
      OBVIOUS
    <3>1. Len(T) - MaxPerMinute + 1 = Len(T) - r
      BY <1>0, RateNumbers
    <3> QED BY <1>2, <1>4, <2>1, <3>1, RateNumbers
  <2> QED BY <1>1, <2>2, RateNumbers
<1> QED BY <1>5, <1>6

(* A grant keeps the budgets and is accounted for.                          *)
LEMMA GrantSafe ==
  ASSUME NEW T, NEW E, NEW L, Accounted(T, E, L), NEW c \in Costs,
         RequestWait(T) <= 0, RecordWait(E, c) <= 0
  PROVE  LET e == [age |-> 0, cost |-> c]
         IN Accounted(Append(T, 0), Append(E, e), Append(L, e))
<1> DEFINE e == [age |-> 0, cost |-> c]
           U == Append(T, 0)
           F == Append(E, e)
           M == Append(L, e)
<1>0. /\ T \in Seq(0 .. MINUTE + 1) /\ E \in Seq(Event) /\ L \in Seq(Event)
      /\ Len(T) \in Nat /\ Len(E) \in Nat /\ Len(L) \in Nat
      /\ TimesAgree(T, L) /\ EventsAgree(E, L) /\ Aging(L) /\ Kept(L)
      /\ c \in Nat /\ e \in Event /\ e.age = 0 /\ e.cost = c
  BY RateNumbers DEF Accounted, TimesAgree, EventsAgree, Aging, Event
<1>b. \A i \in 1 .. Len(L) : L[i] \in Event
  BY <1>0
<1>a. \A i \in 1 .. Len(L) : L[i].age \in Nat /\ L[i].cost \in Nat
  BY <1>b DEF Event
<1> HIDE DEF e
<1>1. /\ U \in Seq(0 .. MINUTE + 1) /\ Len(U) = Len(T) + 1 /\ U[Len(T) + 1] = 0
      /\ \A i \in 1 .. Len(T) : U[i] = T[i]
  <2> DEFINE S == 0 .. MINUTE + 1
  <2>1. T \in Seq(S) /\ 0 \in S
    BY <1>0, RateNumbers
  <2> HIDE DEF S
  <2>2. U \in Seq(S) /\ Len(U) = Len(T) + 1 /\ U[Len(T) + 1] = 0 /\ \A i \in 1 .. Len(T) : U[i] = T[i]
    BY <2>1, AppendProperties
  <2> QED BY <2>2 DEF S
<1>2. /\ F \in Seq(Event) /\ Len(F) = Len(E) + 1 /\ F[Len(E) + 1] = e
      /\ \A i \in 1 .. Len(E) : F[i] = E[i]
  BY <1>0, AppendProperties
<1>3. /\ M \in Seq(Event) /\ Len(M) = Len(L) + 1 /\ M[Len(L) + 1] = e
      /\ \A i \in 1 .. Len(L) : M[i] = L[i]
  BY <1>0, AppendProperties
<1> HIDE DEF U, F, M
(* Counted from the newest, the newest is the grant and the others follow. *)
<1>4. ASSUME NEW r \in Nat, r # 0
      PROVE  /\ r - 1 \in Nat
             /\ r < Len(M) => r - 1 < Len(L) /\ M[Len(M) - r] = L[Len(L) - (r - 1)] /\ Len(L) - (r - 1) \in 1 .. Len(L)
             /\ r < Len(U) => r - 1 < Len(T) /\ U[Len(U) - r] = T[Len(T) - (r - 1)]
             /\ r < Len(F) => r - 1 < Len(E) /\ F[Len(F) - r] = E[Len(E) - (r - 1)]
             /\ ~(r < Len(M)) => ~(r - 1 < Len(L))
             /\ ~(r < Len(U)) => ~(r - 1 < Len(T))
             /\ ~(r < Len(F)) => ~(r - 1 < Len(E))
  <2>0. r - 1 \in Nat
    BY <1>4
  <2>1. ASSUME r < Len(M) PROVE r - 1 < Len(L) /\ M[Len(M) - r] = L[Len(L) - (r - 1)] /\ Len(L) - (r - 1) \in 1 .. Len(L)
    <3>1. Len(M) - r \in 1 .. Len(L) /\ Len(M) - r = Len(L) - (r - 1) /\ r - 1 < Len(L)
      BY <1>0, <1>3, <1>4, <2>1
    <3> QED BY <1>3, <3>1
  <2>2. ASSUME r < Len(U) PROVE r - 1 < Len(T) /\ U[Len(U) - r] = T[Len(T) - (r - 1)]
    <3>1. Len(U) - r \in 1 .. Len(T) /\ Len(U) - r = Len(T) - (r - 1) /\ r - 1 < Len(T)
      BY <1>0, <1>1, <1>4, <2>2
    <3> QED BY <1>1, <3>1
  <2>3. ASSUME r < Len(F) PROVE r - 1 < Len(E) /\ F[Len(F) - r] = E[Len(E) - (r - 1)]
    <3>1. Len(F) - r \in 1 .. Len(E) /\ Len(F) - r = Len(E) - (r - 1) /\ r - 1 < Len(E)
      BY <1>0, <1>2, <1>4, <2>3
    <3> QED BY <1>2, <3>1
  <2>4. /\ ~(r < Len(M)) => ~(r - 1 < Len(L))
        /\ ~(r < Len(U)) => ~(r - 1 < Len(T))
        /\ ~(r < Len(F)) => ~(r - 1 < Len(E))
    BY <1>0, <1>1, <1>2, <1>3, <1>4
  <2> QED BY <2>0, <2>1, <2>2, <2>3, <2>4
<1>5. 0 < Len(U) /\ U[Len(U) - 0] = 0 /\ 0 < Len(F) /\ F[Len(F) - 0] = e /\ 0 < Len(M) /\ M[Len(M) - 0] = e
  BY <1>0, <1>1, <1>2, <1>3
<1>6. TimesAgree(U, M)
  <2> SUFFICES ASSUME NEW r \in Nat
               PROVE  /\ r < Len(U) /\ r < Len(M) => U[Len(U) - r] = Smaller(M[Len(M) - r].age, MINUTE + 1)
                      /\ r < Len(U) /\ ~(r < Len(M)) => U[Len(U) - r] = MINUTE + 1
                      /\ ~(r < Len(U)) /\ r < Len(M) => M[Len(M) - r].age > MINUTE
    BY <1>1 DEF TimesAgree
  <2>1. CASE r = 0
    BY <1>0, <1>5, <2>1, RateNumbers DEF Smaller
  <2>2. CASE r # 0
    <3>1. /\ r - 1 < Len(T) /\ r - 1 < Len(L) => T[Len(T) - (r - 1)] = Smaller(L[Len(L) - (r - 1)].age, MINUTE + 1)
          /\ r - 1 < Len(T) /\ ~(r - 1 < Len(L)) => T[Len(T) - (r - 1)] = MINUTE + 1
          /\ ~(r - 1 < Len(T)) /\ r - 1 < Len(L) => L[Len(L) - (r - 1)].age > MINUTE
      <4>1. r - 1 \in Nat
        BY <2>2
      <4> QED BY <1>0, <4>1 DEF TimesAgree
    <3> QED BY <1>4, <2>2, <3>1
  <2> QED BY <2>1, <2>2
<1>7. EventsAgree(F, M)
  <2> SUFFICES ASSUME NEW r \in Nat
               PROVE  /\ r < Len(M) => r < Len(F) /\ F[Len(F) - r] = M[Len(M) - r]
                      /\ ~(r < Len(M)) /\ r < Len(F) => F[Len(F) - r].age >= HOUR
    BY <1>2 DEF EventsAgree
  <2>1. CASE r = 0
    BY <1>5, <2>1
  <2>2. CASE r # 0
    <3>1. /\ r - 1 < Len(L) => r - 1 < Len(E) /\ E[Len(E) - (r - 1)] = L[Len(L) - (r - 1)]
          /\ ~(r - 1 < Len(L)) /\ r - 1 < Len(E) => E[Len(E) - (r - 1)].age >= HOUR
      <4>1. r - 1 \in Nat
        BY <2>2
      <4> QED BY <1>0, <4>1 DEF EventsAgree
    <3> QED BY <1>4, <2>2, <3>1
  <2> QED BY <2>1, <2>2
<1>8. Aging(M)
  <2>1. \A i \in 1 .. Len(L) : L[i].age < HOUR
    BY <1>0 DEF Aging
  <2>2. \A i, j \in 1 .. Len(L) : i < j => L[i].age >= L[j].age
    BY <1>0 DEF Aging
  <2>3. \A i \in 1 .. Len(M) : i \in 1 .. Len(L) \/ (i = Len(L) + 1)
    BY <1>0, <1>3
  <2>4. ASSUME NEW i \in 1 .. Len(M) PROVE M[i].age < HOUR
    <3>1. CASE i \in 1 .. Len(L)
      BY <1>3, <2>1, <3>1
    <3>2. CASE i = Len(L) + 1
      BY <1>0, <1>3, <3>2, RateNumbers
    <3> QED BY <2>3, <3>1, <3>2
  <2>5. ASSUME NEW i \in 1 .. Len(M), NEW j \in 1 .. Len(M), i < j PROVE M[i].age >= M[j].age
    <3>1. i \in 1 .. Len(L) /\ M[i] = L[i] /\ M[i].age \in Nat
      BY <1>0, <1>3, <1>a, <2>3, <2>5
    <3>2. CASE j \in 1 .. Len(L)
      BY <1>3, <2>2, <2>5, <3>1, <3>2
    <3>3. CASE j = Len(L) + 1
      BY <1>0, <1>3, <3>1, <3>3
    <3> QED BY <2>3, <3>2, <3>3
  <2> QED BY <1>3, <2>4, <2>5 DEF Aging
<1>9. \A r \in Nat : r < Len(M) /\ M[Len(M) - r].age < MINUTE => r < MaxPerMinute
  <2> SUFFICES ASSUME NEW r \in Nat, r < Len(M), M[Len(M) - r].age < MINUTE PROVE r < MaxPerMinute
    OBVIOUS
  <2>1. CASE r = 0
    BY <2>1, RateNumbers
  <2>2. CASE r # 0
    <3>1. r - 1 \in Nat /\ r - 1 < Len(L) /\ L[Len(L) - (r - 1)].age < MINUTE
      BY <1>4, <2>2
    <3>2. (r - 1) + 1 < MaxPerMinute
      BY <1>0, <3>1, RoomForRequest
    <3> QED BY <3>2, RateNumbers
  <2> QED BY <2>1, <2>2
<1>10. Total(Modest(M)) <= MaxRecordsPerHour
  <2> DEFINE one == IF c <= MaxRecordsPerHour THEN e ELSE [e EXCEPT !.cost = 0]
  <2>1. one \in Event /\ one.cost = IF c <= MaxRecordsPerHour THEN c ELSE 0
    BY <1>0 DEF Event
  <2>2. Modest(L) \in Seq(Event) /\ Len(Modest(L)) = Len(L)
    BY <1>0, ModestEvents
  <2>3. Modest(M) = Append(Modest(L), one)
    <3> DEFINE g == Append(Modest(L), one)
               Low(x) == IF x.cost <= MaxRecordsPerHour THEN x ELSE [x EXCEPT !.cost = 0]
    <3>1. Modest(M) = [i \in 1 .. Len(M) |-> Low(M[i])] /\ Modest(L) = [i \in 1 .. Len(L) |-> Low(L[i])]
      BY <1>0, <1>3 DEF Modest
    <3>2. one = Low(e)
      BY <1>0
    <3> HIDE DEF one, Low
    <3>3. /\ g \in Seq(Event) /\ Len(g) = Len(L) + 1 /\ g[Len(L) + 1] = one
          /\ \A i \in 1 .. Len(L) : g[i] = Modest(L)[i]
      BY <2>1, <2>2, AppendProperties
    <3> HIDE DEF g
    <3>4. ASSUME NEW i \in 1 .. Len(M) PROVE g[i] = Modest(M)[i]
      <4>1. Modest(M)[i] = Low(M[i])
        BY <3>1
      <4>2. CASE i \in 1 .. Len(L)
        BY <1>3, <3>1, <3>3, <4>1, <4>2
      <4>3. CASE i = Len(L) + 1
        BY <1>3, <3>2, <3>3, <4>1, <4>3
      <4> QED BY <1>0, <1>3, <4>2, <4>3
    <3>5. Modest(M) \in Seq(Event) /\ Len(Modest(M)) = Len(M)
      BY <1>3, ModestEvents
    <3>6. g = Modest(M)
      BY <1>3, <3>3, <3>4, <3>5, SeqEqual
    <3> QED BY <3>6 DEF g
  <2> HIDE DEF one
  <2>4. Total(Modest(M)) = Total(Modest(L)) + one.cost
    BY <2>1, <2>2, <2>3, OneMoreCosts
  <2>5. Total(Modest(L)) \in Nat /\ Total(Modest(L)) <= MaxRecordsPerHour
    <3>1. Total(Modest(L)) \in Nat
      BY <2>2, SumsAreSums
    <3>2. Total(Modest(L)) <= MaxRecordsPerHour
      BY <1>0 DEF Kept
    <3> QED BY <3>1, <3>2
  <2>6. CASE c <= MaxRecordsPerHour
    <3>1. RecordWait(E, c) \in Int
      BY <1>0, WaitsAreNumbers
    <3>2. Total(Modest(L)) + c <= MaxRecordsPerHour
      BY <1>0, <2>6, <3>1, RoomForCost
    <3> QED BY <2>1, <2>4, <2>6, <3>2
  <2>7. CASE ~(c <= MaxRecordsPerHour)
    BY <2>1, <2>4, <2>5, <2>7
  <2> QED BY <2>6, <2>7
<1> QED BY <1>6, <1>7, <1>8, <1>9, <1>10 DEF Accounted, Kept, U, F, M, e

(* A tick later.                                                            *)
TimesLater(T)  == [i \in DOMAIN T |-> Smaller(T[i] + 1, MINUTE + 1)]
EventsLater(E) == [i \in DOMAIN E |-> [E[i] EXCEPT !.age = Smaller(@ + 1, Old)]]
LogLater(L) ==
  LET older == [i \in DOMAIN L |-> [L[i] EXCEPT !.age = @ + 1]]
  IN From(older, {i \in DOMAIN older : older[i].age < HOUR})

(* Time passes over the windows and over the history alike.                 *)
LEMMA TimePasses ==
  ASSUME NEW T, NEW E, NEW L, Accounted(T, E, L)
  PROVE  Accounted(TimesLater(T), EventsLater(E), LogLater(L))
<1> DEFINE U == [i \in DOMAIN T |-> Smaller(T[i] + 1, MINUTE + 1)]
           F == [i \in DOMAIN E |-> [E[i] EXCEPT !.age = Smaller(@ + 1, Old)]]
           older == [i \in DOMAIN L |-> [L[i] EXCEPT !.age = @ + 1]]
           P == {i \in DOMAIN older : older[i].age < HOUR}
           M == From(older, P)
<1>0. /\ T \in Seq(0 .. MINUTE + 1) /\ E \in Seq(Event) /\ L \in Seq(Event)
      /\ DOMAIN T = 1 .. Len(T) /\ DOMAIN E = 1 .. Len(E) /\ DOMAIN L = 1 .. Len(L)
      /\ Len(T) \in Nat /\ Len(E) \in Nat /\ Len(L) \in Nat
      /\ TimesAgree(T, L) /\ EventsAgree(E, L) /\ Aging(L) /\ Kept(L)
  BY DEF Accounted, TimesAgree, EventsAgree, Aging
<1>1. \A i \in 1 .. Len(T) : T[i] \in 0 .. MINUTE + 1
  <2> DEFINE S == 0 .. MINUTE + 1
  <2>1. T \in Seq(S)
    BY <1>0
  <2> HIDE DEF S
  <2>2. \A i \in 1 .. Len(T) : T[i] \in S
    BY <2>1, ElementOfSeq
  <2> QED BY <2>2 DEF S
<1>2. (\A i \in 1 .. Len(E) : E[i] \in Event) /\ (\A i \in 1 .. Len(L) : L[i] \in Event)
  BY <1>0
<1>3. /\ \A i \in 1 .. Len(E) : E[i].age \in Nat /\ E[i].cost \in Nat
      /\ \A i \in 1 .. Len(L) : L[i].age \in Nat /\ L[i].cost \in Nat
  BY <1>2 DEF Event
(* Every age grows by one, and is no longer followed beyond the window. *)
<1>4. U \in Seq(0 .. MINUTE + 1) /\ Len(U) = Len(T) /\ \A i \in 1 .. Len(T) : U[i] = Smaller(T[i] + 1, MINUTE + 1)
  <2>1. \A i \in 1 .. Len(T) : Smaller(T[i] + 1, MINUTE + 1) \in 0 .. MINUTE + 1
    BY <1>1, RateNumbers DEF Smaller
  <2>2. U = [i \in 1 .. Len(T) |-> Smaller(T[i] + 1, MINUTE + 1)]
    BY <1>0
  <2> HIDE DEF U
  <2> DEFINE S == 0 .. MINUTE + 1
             f(i) == Smaller(T[i] + 1, MINUTE + 1)
  <2>3. \A i \in 1 .. Len(T) : f(i) \in S
    BY <2>1
  <2>4. U = [i \in 1 .. Len(T) |-> f(i)]
    BY <2>2
  <2> HIDE DEF S, f
  <2>5. U \in Seq(S)
    BY <1>0, <2>3, <2>4, IsASeq
  <2>6. Len(U) = Len(T) /\ \A i \in 1 .. Len(T) : U[i] = f(i)
    BY <1>0, <2>4, <2>5
  <2> QED BY <2>5, <2>6 DEF S, f
<1>5. /\ F \in Seq(Event) /\ Len(F) = Len(E)
      /\ \A i \in 1 .. Len(E) : F[i].age = Smaller(E[i].age + 1, Old) /\ F[i].cost = E[i].cost /\ F[i] \in Event
  <2> DEFINE f(i) == [E[i] EXCEPT !.age = Smaller(@ + 1, Old)]
  <2>1. ASSUME NEW i \in 1 .. Len(E)
        PROVE  f(i) \in Event /\ f(i).age = Smaller(E[i].age + 1, Old) /\ f(i).cost = E[i].cost
    <3>1. E[i] \in Event /\ E[i].age \in Nat /\ Smaller(E[i].age + 1, Old) \in Nat
      BY <1>2, <1>3, RateNumbers DEF Smaller
    <3> QED BY <3>1 DEF Event
  <2>2. F = [i \in 1 .. Len(E) |-> f(i)]
    BY <1>0
  <2> HIDE DEF F, f
  <2>3. F \in Seq(Event)
    BY <1>0, <2>1, <2>2, IsASeq
  <2>4. Len(F) = Len(E) /\ \A i \in 1 .. Len(E) : F[i] = f(i)
    BY <1>0, <2>2, <2>3
  <2> QED BY <2>1, <2>3, <2>4
<1>6. /\ older \in Seq(Event) /\ Len(older) = Len(L) /\ DOMAIN older = 1 .. Len(L)
      /\ \A i \in 1 .. Len(L) : older[i].age = L[i].age + 1 /\ older[i].cost = L[i].cost /\ older[i] \in Event
      /\ \A i \in 1 .. Len(L) : older[i] = [L[i] EXCEPT !.age = @ + 1]
  <2> DEFINE f(i) == [L[i] EXCEPT !.age = @ + 1]
  <2>1. ASSUME NEW i \in 1 .. Len(L)
        PROVE  f(i) \in Event /\ f(i).age = L[i].age + 1 /\ f(i).cost = L[i].cost
    <3>1. L[i] \in Event /\ L[i].age \in Nat /\ L[i].age + 1 \in Nat
      BY <1>2, <1>3
    <3> QED BY <3>1 DEF Event
  <2>2. older = [i \in 1 .. Len(L) |-> f(i)]
    BY <1>0
  <2> HIDE DEF older, f
  <2>3. older \in Seq(Event)
    BY <1>0, <2>1, <2>2, IsASeq
  <2>4. Len(older) = Len(L) /\ DOMAIN older = 1 .. Len(L) /\ \A i \in 1 .. Len(L) : older[i] = f(i)
    BY <1>0, <2>2, <2>3
  <2>5. \A i \in 1 .. Len(L) : f(i) = [L[i] EXCEPT !.age = @ + 1]
    BY DEF f
  <2> QED BY <2>1, <2>3, <2>4, <2>5
(* The history loses what is an hour old. *)
<1>7. P = {i \in 1 .. Len(L) : L[i].age + 1 < HOUR}
  BY <1>6
<1> HIDE DEF U, F, older
<1>8. M \in Seq(Event) /\ Len(M) \in Nat
  <2>1. P \in SUBSET (1 .. Len(older))
    BY <1>6, <1>7
  <2> HIDE DEF P
  <2> QED BY <1>6, <2>1, FromIsTail
<1>9. PICK d \in 0 .. Len(L) :
         /\ Len(L) = d + Len(M)
         /\ \A i \in 1 .. Len(M) : M[i] = older[d + i]
         /\ \A i \in 1 .. d : i \notin P
         /\ d < Len(L) => d + 1 \in P
  <2>1. P \in SUBSET (1 .. Len(older))
    BY <1>6, <1>7
  <2>2. older \in Seq(Event) /\ Len(older) = Len(L)
    BY <1>6
  <2> HIDE DEF P
  <2> QED BY <2>1, <2>2, FromIsTail, SMTT(30)
<1> HIDE DEF M
<1>10. \A i \in 1 .. d : L[i].age + 1 >= HOUR
  <2> SUFFICES ASSUME NEW i \in 1 .. d PROVE L[i].age + 1 >= HOUR
    OBVIOUS
  <2>1. i \in 1 .. Len(L) /\ i \notin P
    BY <1>0, <1>9
  <2> HIDE DEF P
  <2> QED BY <1>3, <1>7, <2>1, RateNumbers
<1>11. ASSUME NEW i \in 1 .. Len(M)
       PROVE  /\ d + i \in 1 .. Len(L) /\ M[i] = older[d + i] /\ M[i].cost = L[d + i].cost
              /\ M[i].age = L[d + i].age + 1 /\ M[i].age < HOUR
  <2>1. d + i \in 1 .. Len(L) /\ d + 1 \in 1 .. Len(L) /\ d < Len(L)
    BY <1>0, <1>8, <1>9
  <2>2. M[i] = older[d + i] /\ older[d + i].age = L[d + i].age + 1 /\ older[d + i].cost = L[d + i].cost
    BY <1>6, <1>9, <2>1
  <2>3. L[d + 1].age + 1 < HOUR
    <3>1. d + 1 \in P
      BY <1>9, <2>1
    <3> HIDE DEF P
    <3> QED BY <1>7, <3>1
  <2>4. L[d + 1].age >= L[d + i].age
    <3>1. CASE i = 1
      BY <1>3, <2>1, <3>1
    <3>2. CASE i # 1
      <4>1. d + 1 < d + i
        BY <1>9, <3>2
      <4> QED BY <1>0, <2>1, <4>1 DEF Aging
    <3> QED BY <3>1, <3>2
  <2>5. L[d + i].age \in Nat /\ L[d + 1].age \in Nat
    BY <1>3, <2>1
  <2>6. L[d + i].age + 1 < HOUR
    <3> DEFINE x == L[d + i].age
               y == L[d + 1].age
    <3>1. x \in Nat /\ y \in Nat /\ y >= x /\ y + 1 < HOUR
      BY <2>3, <2>4, <2>5
    <3> HIDE DEF x, y
    <3>2. x + 1 < HOUR
      BY <3>1, RateNumbers
    <3> QED BY <3>2 DEF x
  <2> HIDE DEF P
  <2> QED BY <2>1, <2>2, <2>6
<1> HIDE DEF P
(* Counted from the newest. *)
<1>12. ASSUME NEW r \in Nat
       PROVE  /\ r < Len(M) => /\ r < Len(L) /\ Len(L) - r \in 1 .. Len(L)
                               /\ M[Len(M) - r] = older[Len(L) - r]
                               /\ M[Len(M) - r].age = L[Len(L) - r].age + 1
                               /\ M[Len(M) - r].age < HOUR
              /\ ~(r < Len(M)) /\ r < Len(L) => Len(L) - r \in 1 .. Len(L) /\ L[Len(L) - r].age + 1 >= HOUR
  <2>1. ASSUME r < Len(M)
        PROVE  /\ r < Len(L) /\ Len(L) - r \in 1 .. Len(L)
               /\ M[Len(M) - r] = older[Len(L) - r]
               /\ M[Len(M) - r].age = L[Len(L) - r].age + 1
               /\ M[Len(M) - r].age < HOUR
    <3>1. Len(M) - r \in 1 .. Len(M) /\ d + (Len(M) - r) = Len(L) - r /\ r < Len(L)
      BY <1>0, <1>8, <1>9, <2>1
    <3> QED BY <1>11, <3>1
  <2>2. ASSUME ~(r < Len(M)), r < Len(L) PROVE Len(L) - r \in 1 .. Len(L) /\ L[Len(L) - r].age + 1 >= HOUR
    <3>1. Len(L) - r \in 1 .. d /\ Len(L) - r \in 1 .. Len(L)
      BY <1>0, <1>8, <1>9, <2>2
    <3> QED BY <1>10, <3>1
  <2> QED BY <2>1, <2>2
<1>13. TimesAgree(U, M)
  <2> SUFFICES ASSUME NEW r \in Nat
               PROVE  /\ r < Len(U) /\ r < Len(M) => U[Len(U) - r] = Smaller(M[Len(M) - r].age, MINUTE + 1)
                      /\ r < Len(U) /\ ~(r < Len(M)) => U[Len(U) - r] = MINUTE + 1
                      /\ ~(r < Len(U)) /\ r < Len(M) => M[Len(M) - r].age > MINUTE
    BY <1>4 DEF TimesAgree
  <2>1. /\ r < Len(T) /\ r < Len(L) => T[Len(T) - r] = Smaller(L[Len(L) - r].age, MINUTE + 1)
        /\ r < Len(T) /\ ~(r < Len(L)) => T[Len(T) - r] = MINUTE + 1
        /\ ~(r < Len(T)) /\ r < Len(L) => L[Len(L) - r].age > MINUTE
    BY <1>0 DEF TimesAgree
  <2>2. ASSUME r < Len(U) PROVE Len(T) - r \in 1 .. Len(T) /\ U[Len(U) - r] = Smaller(T[Len(T) - r] + 1, MINUTE + 1)
    <3>1. Len(T) - r \in 1 .. Len(T)
      BY <1>0, <1>4, <2>2
    <3> QED BY <1>4, <3>1
  <2>3. r < Len(L) => Len(L) - r \in 1 .. Len(L)
    BY <1>0
  <2>4. r < Len(L) => L[Len(L) - r].age \in Nat
    BY <1>3, <2>3
  <2>5. ASSUME r < Len(U), r < Len(M) PROVE U[Len(U) - r] = Smaller(M[Len(M) - r].age, MINUTE + 1)
    <3>1. r < Len(L) /\ M[Len(M) - r].age = L[Len(L) - r].age + 1 /\ L[Len(L) - r].age \in Nat
      BY <1>12, <2>4, <2>5
    <3>2. T[Len(T) - r] = Smaller(L[Len(L) - r].age, MINUTE + 1)
      BY <1>4, <2>1, <2>5, <3>1
    <3> DEFINE a == L[Len(L) - r].age
    <3>3. U[Len(U) - r] = Smaller(Smaller(a, MINUTE + 1) + 1, MINUTE + 1) /\ M[Len(M) - r].age = a + 1 /\ a \in Nat
      BY <2>2, <2>5, <3>1, <3>2
    <3> HIDE DEF a
    <3>4. Smaller(Smaller(a, MINUTE + 1) + 1, MINUTE + 1) = Smaller(a + 1, MINUTE + 1)
      BY <3>3, RateNumbers DEF Smaller
    <3> QED BY <3>3, <3>4
  <2>6. ASSUME r < Len(U), ~(r < Len(M)) PROVE U[Len(U) - r] = MINUTE + 1
    <3>1. T[Len(T) - r] \in Nat /\ T[Len(T) - r] >= MINUTE
      <4>1. T[Len(T) - r] \in Nat
        BY <1>1, <2>2, <2>6, RateNumbers
      <4>2. CASE r < Len(L)
        <5>1. L[Len(L) - r].age + 1 >= HOUR /\ L[Len(L) - r].age \in Nat
          BY <1>12, <2>4, <2>6, <4>2
        <5>2. T[Len(T) - r] = Smaller(L[Len(L) - r].age, MINUTE + 1)
          BY <1>4, <2>1, <2>6, <4>2
        <5> QED BY <4>1, <5>1, <5>2, RateNumbers DEF Smaller
      <4>3. CASE ~(r < Len(L))
        BY <1>4, <2>1, <2>6, <4>1, <4>3, RateNumbers
      <4> QED BY <4>1, <4>2, <4>3
    <3>2. U[Len(U) - r] = Smaller(T[Len(T) - r] + 1, MINUTE + 1)
      BY <2>2, <2>6
    <3> DEFINE x == T[Len(T) - r]
    <3>3. x \in Nat /\ x >= MINUTE /\ U[Len(U) - r] = Smaller(x + 1, MINUTE + 1)
      BY <3>1, <3>2
    <3> HIDE DEF x
    <3> QED BY <3>3, RateNumbers DEF Smaller
  <2>7. ASSUME ~(r < Len(U)), r < Len(M) PROVE M[Len(M) - r].age > MINUTE
    <3>1. r < Len(L) /\ M[Len(M) - r].age = L[Len(L) - r].age + 1 /\ L[Len(L) - r].age \in Nat
      BY <1>12, <2>4, <2>7
    <3>2. CASE ~(r < Len(T))
      BY <2>1, <3>1, <3>2, RateNumbers
    <3>3. CASE r < Len(T)
      BY <1>4, <2>1, <2>7, <3>1, <3>3, RateNumbers, SMTT(30)
    <3> QED BY <3>2, <3>3
  <2> QED BY <2>5, <2>6, <2>7
<1>14. EventsAgree(F, M)
  <2> SUFFICES ASSUME NEW r \in Nat
               PROVE  /\ r < Len(M) => r < Len(F) /\ F[Len(F) - r] = M[Len(M) - r]
                      /\ ~(r < Len(M)) /\ r < Len(F) => F[Len(F) - r].age >= HOUR
    BY <1>5 DEF EventsAgree
  <2>1. /\ r < Len(L) => r < Len(E) /\ E[Len(E) - r] = L[Len(L) - r]
        /\ ~(r < Len(L)) /\ r < Len(E) => E[Len(E) - r].age >= HOUR
    BY <1>0 DEF EventsAgree
  <2>2. r < Len(E) => Len(E) - r \in 1 .. Len(E)
    BY <1>0
  <2>3. r < Len(E) => E[Len(E) - r].age \in Nat /\ F[Len(F) - r].age = Smaller(E[Len(E) - r].age + 1, Old)
                      /\ F[Len(F) - r].cost = E[Len(E) - r].cost /\ F[Len(F) - r] \in Event
    BY <1>3, <1>5, <2>2
  <2>4. ASSUME r < Len(M) PROVE r < Len(F) /\ F[Len(F) - r] = M[Len(M) - r]
    <3>1. r < Len(L) /\ Len(L) - r \in 1 .. Len(L) /\ M[Len(M) - r] = older[Len(L) - r]
          /\ M[Len(M) - r].age = L[Len(L) - r].age + 1 /\ M[Len(M) - r].age < HOUR
      BY <1>12, <2>4
    <3>2. r < Len(E) /\ r < Len(F)
      BY <1>5, <2>1, <3>1
    <3>3. F[Len(F) - r].age = M[Len(M) - r].age
      <4> DEFINE a == L[Len(L) - r].age
      <4>1. a \in Nat
        BY <1>3, <3>1
      <4>2. F[Len(F) - r].age = Smaller(a + 1, Old) /\ M[Len(M) - r].age = a + 1 /\ a + 1 < HOUR
        BY <2>1, <2>3, <3>1, <3>2
      <4> HIDE DEF a
      <4> QED BY <4>1, <4>2, RateNumbers DEF Smaller
    <3>4. F[Len(F) - r].cost = M[Len(M) - r].cost
      BY <1>6, <2>1, <2>3, <3>1, <3>2
    <3>5. F[Len(F) - r] \in Event /\ M[Len(M) - r] \in Event
      BY <1>6, <2>3, <3>1, <3>2
    <3> QED BY <3>2, <3>3, <3>4, <3>5 DEF Event
  <2>5. ASSUME ~(r < Len(M)), r < Len(F) PROVE F[Len(F) - r].age >= HOUR
    <3>1. r < Len(E) /\ E[Len(E) - r].age \in Nat /\ F[Len(F) - r].age = Smaller(E[Len(E) - r].age + 1, Old)
      BY <1>5, <2>3, <2>5
    <3>2. E[Len(E) - r].age + 1 >= HOUR
      <4>1. CASE r < Len(L)
        <5>1. L[Len(L) - r].age + 1 >= HOUR
          BY <1>12, <2>5, <4>1
        <5> QED BY <2>1, <4>1, <5>1
      <4>2. CASE ~(r < Len(L))
        <5>1. E[Len(E) - r].age >= HOUR
          BY <2>1, <3>1, <4>2
        <5> QED BY <3>1, <5>1, RateNumbers
      <4> QED BY <4>1, <4>2
    <3> DEFINE x == E[Len(E) - r].age
    <3>3. x \in Nat /\ x + 1 >= HOUR /\ F[Len(F) - r].age = Smaller(x + 1, Old)
      BY <3>1, <3>2
    <3> HIDE DEF x
    <3> QED BY <3>3, RateNumbers DEF Smaller
  <2> QED BY <2>4, <2>5
<1>15. Aging(M)
  <2>1. \A i, j \in 1 .. Len(L) : i < j => L[i].age >= L[j].age
    BY <1>0 DEF Aging
  <2>2. ASSUME NEW i \in 1 .. Len(M), NEW j \in 1 .. Len(M), i < j PROVE M[i].age >= M[j].age
    <3>1. d + i \in 1 .. Len(L) /\ d + j \in 1 .. Len(L) /\ d + i < d + j
      BY <1>9, <1>11, <2>2
    <3>2. L[d + i].age >= L[d + j].age
      BY <2>1, <3>1
    <3>3. M[i].age = L[d + i].age + 1 /\ M[j].age = L[d + j].age + 1
      BY <1>11
    <3>4. L[d + i].age \in Nat /\ L[d + j].age \in Nat
      BY <1>3, <3>1
    <3> DEFINE a == L[d + i].age
               b == L[d + j].age
    <3>5. a \in Nat /\ b \in Nat /\ a >= b /\ M[i].age = a + 1 /\ M[j].age = b + 1
      BY <3>2, <3>3, <3>4
    <3> HIDE DEF a, b
    <3>6. a + 1 >= b + 1
      BY <3>5
    <3> QED BY <3>5, <3>6
  <2> QED BY <1>8, <1>11, <2>2 DEF Aging
<1>16. \A r \in Nat : r < Len(M) /\ M[Len(M) - r].age < MINUTE => r < MaxPerMinute
  <2> SUFFICES ASSUME NEW r \in Nat, r < Len(M), M[Len(M) - r].age < MINUTE PROVE r < MaxPerMinute
    OBVIOUS
  <2>1. r < Len(L) /\ L[Len(L) - r].age + 1 < MINUTE /\ Len(L) - r \in 1 .. Len(L)
    BY <1>12
  <2>2. L[Len(L) - r].age < MINUTE
    BY <1>3, <2>1, RateNumbers
  <2> QED BY <1>0, <2>1, <2>2 DEF Kept
<1>17. Total(Modest(M)) <= MaxRecordsPerHour
  <2>1. Modest(L) \in Seq(Event) /\ Len(Modest(L)) = Len(L)
    BY <1>0, ModestEvents
  <2>2. Modest(M) \in Seq(Event) /\ Len(Modest(M)) = Len(M)
    BY <1>8, ModestEvents
  <2>3. ASSUME NEW i \in 1 .. Len(Modest(M)) PROVE Modest(M)[i].cost <= Modest(L)[d + i].cost
    <3>1. i \in 1 .. Len(M) /\ d + i \in 1 .. Len(L) /\ M[i].cost = L[d + i].cost
      BY <1>11, <2>2
    <3>2. Modest(M)[i].cost = IF M[i].cost <= MaxRecordsPerHour THEN M[i].cost ELSE 0
      BY <1>8, <3>1, ModestEvents
    <3>3. Modest(L)[d + i].cost = IF L[d + i].cost <= MaxRecordsPerHour THEN L[d + i].cost ELSE 0
      BY <1>0, <3>1, ModestEvents
    <3>4. L[d + i].cost \in Nat
      BY <1>3, <3>1
    <3> QED BY <3>1, <3>2, <3>3, <3>4
  <2>4. Total(Modest(M)) <= Total(Modest(L))
    <3>1. d \in Nat /\ Len(Modest(L)) = d + Len(Modest(M))
      BY <1>9, <2>1, <2>2
    <3> HIDE DEF U
    <3> QED BY <2>1, <2>2, <2>3, <3>1, TailCostsLess
  <2>5. Total(Modest(L)) \in Nat /\ Total(Modest(M)) \in Nat
    BY <2>1, <2>2, SumsAreSums
  <2>6. Total(Modest(L)) <= MaxRecordsPerHour
    BY <1>0 DEF Kept
  <2> QED BY <2>4, <2>5, <2>6, RateNumbers
<1>18. Accounted(U, F, M)
  BY <1>13, <1>14, <1>15, <1>16, <1>17 DEF Accounted, Kept
<1>19. U = TimesLater(T) /\ F = EventsLater(E) /\ M = LogLater(L)
  BY DEF U, F, M, older, P, TimesLater, EventsLater, LogLater
<1> QED BY <1>18, <1>19

(* A wait is over when each of its parts is.                                *)
LEMMA PartsOfAWait ==
  ASSUME NEW w, NEW T \in Seq(0 .. MINUTE + 1), NEW E \in Seq(Event), NEW o \in [Budgets -> Nat],
         Wait(w, T, E, o) <= 0
  PROVE  RequestWait(T) <= 0 /\ RecordWait(E, w.cost) <= 0
<1>1. RequestWait(T) \in Int /\ RecordWait(E, w.cost) \in Int
  BY WaitsAreNumbers
<1>2. ObservedWait(o) \in Int
  <2>1. o["requests"] \in Nat /\ o["records"] \in Nat
    BY DEF Budgets
  <2> QED BY <2>1, RateNumbers DEF ObservedWait, Larger, Smaller
<1> DEFINE x == RequestWait(T)
           y == RecordWait(E, w.cost)
           z == ObservedWait(o)
<1>3. x \in Int /\ y \in Int /\ z \in Int /\ Larger(Larger(x, y), z) <= 0
  BY <1>1, <1>2 DEF Wait
<1> HIDE DEF x, y, z
<1>4. x <= 0 /\ y <= 0
  BY <1>3 DEF Larger
<1> QED BY <1>4 DEF x, y

Waiters == Seq([caller : Callers, cost : Costs])

RateInv ==
  /\ queue \in Waiters
  /\ observed \in [Budgets -> Nat]
  /\ Accounted(requestTimes, recordEvents, log)

(* However many waiters are granted at once, each of them is accounted for. *)
LEMMA ProcessSafe ==
  ASSUME RateInv, NEW q \in Waiters, NEW o \in [Budgets -> Nat], NEW t, NEW u, Process(q, o, t, u)
  PROVE  RateInv'
<1> DEFINE times     == PrunedTimes(requestTimes)
           events    == PrunedEvents(recordEvents)
           new(n)    == [i \in 1 .. n |-> [age |-> 0, cost |-> q[i].cost]]
           Times(n)  == times \o [i \in 1 .. n |-> 0]
           Events(n) == events \o new(n)
           HeadWait(n) == Wait(q[n + 1], Times(n), Events(n), o)
<1>1. PICK n \in 0 .. Len(q) :
         /\ \A k \in 0 .. n - 1 : HeadWait(k) <= 0
         /\ queue' = SubSeq(q, n + 1, Len(q))
         /\ requestTimes' = IF q = <<>> THEN requestTimes ELSE Times(n)
         /\ recordEvents' = IF q = <<>> THEN recordEvents ELSE Events(n)
         /\ log' = log \o new(n)
         /\ observed' = o
  BY DEF Process
<1>2. Len(q) \in Nat /\ n \in Nat
  BY <1>1 DEF Waiters
<1>3. Accounted(requestTimes, recordEvents, log) /\ Accounted(times, events, log)
  BY PruneSafe DEF RateInv
<1>4. times \in Seq(0 .. MINUTE + 1) /\ events \in Seq(Event) /\ log \in Seq(Event)
  BY <1>3 DEF Accounted, TimesAgree, EventsAgree, Aging
<1>5. \A i \in 1 .. Len(q) : q[i].cost \in Costs
  <2>1. \A i \in 1 .. Len(q) : q[i] \in [caller : Callers, cost : Costs]
    <3> DEFINE W == [caller : Callers, cost : Costs]
    <3>1. q \in Seq(W)
      BY DEF Waiters
    <3> HIDE DEF W
    <3>2. \A i \in 1 .. Len(q) : q[i] \in W
      BY <3>1, ElementOfSeq
    <3> QED BY <3>2 DEF W
  <2> QED BY <2>1
<1> HIDE DEF times, events
(* What is there for no grant, and for one more. *)
<1>6. Times(0) = times /\ Events(0) = events /\ log \o new(0) = log
  <2>1. [i \in 1 .. 0 |-> 0] = <<>> /\ new(0) = <<>>
    OBVIOUS
  <2> HIDE DEF new
  <2> QED BY <1>4, <2>1, ConcatEmptySeq
<1>7. ASSUME NEW k \in Nat, k + 1 <= n
      PROVE  LET e == [age |-> 0, cost |-> q[k + 1].cost]
             IN /\ Times(k + 1) = Append(Times(k), 0)
                /\ Events(k + 1) = Append(Events(k), e)
                /\ log \o new(k + 1) = Append(log \o new(k), e)
  <2> DEFINE e == [age |-> 0, cost |-> q[k + 1].cost]
  <2>1. \A i \in 1 .. k + 1 : [age |-> 0, cost |-> q[i].cost] \in Event
    <3>1. \A i \in 1 .. k + 1 : q[i].cost \in Nat
      <4>1. \A i \in 1 .. k + 1 : i \in 1 .. Len(q)
        BY <1>1, <1>2, <1>7
      <4> QED BY <1>5, <4>1, RateNumbers
    <3> QED BY <3>1 DEF Event
  <2>2. new(k) \in Seq(Event) /\ new(k + 1) \in Seq(Event) /\ e \in Event
    <3>1. new(k) \in Seq(Event)
      BY <2>1, IsASeq
    <3>2. new(k + 1) \in Seq(Event)
      BY <2>1, IsASeq
    <3>3. e \in Event
      BY <2>1
    <3> QED BY <3>1, <3>2, <3>3
  <2>3. new(k + 1) = Append(new(k), e)
    BY <2>2
  <2>4. [i \in 1 .. k + 1 |-> 0] = Append([i \in 1 .. k |-> 0], 0)
        /\ [i \in 1 .. k |-> 0] \in Seq(Nat) /\ [i \in 1 .. k + 1 |-> 0] \in Seq(Nat)
    OBVIOUS
  <2>5. times \in Seq(Nat)
    BY <1>4, RateNumbers
  <2> HIDE DEF new, e
  <2>6. \A s \in Seq(Event), x \in Seq(Event), y \in Event : s \o Append(x, y) = Append(s \o x, y)
    OBVIOUS
  <2>7. \A s \in Seq(Nat), x \in Seq(Nat), y \in Nat : s \o Append(x, y) = Append(s \o x, y)
    OBVIOUS
  <2>8. Times(k + 1) = Append(Times(k), 0)
    BY <2>4, <2>5, <2>7
  <2>9. Events(k + 1) = Append(Events(k), e) /\ log \o new(k + 1) = Append(log \o new(k), e)
    <3>1. events \o Append(new(k), e) = Append(events \o new(k), e)
      BY <1>4, <2>2, <2>6
    <3>2. log \o Append(new(k), e) = Append(log \o new(k), e)
      BY <1>4, <2>2, <2>6
    <3> QED BY <2>3, <3>1, <3>2
  <2> QED BY <2>8, <2>9 DEF e
<1> DEFINE Bad == {k \in Nat : k <= n /\ ~Accounted(Times(k), Events(k), log \o new(k))}
<1>8. Accounted(Times(n), Events(n), log \o new(n))
  <2>1. 0 \notin Bad
    BY <1>3, <1>6
  <2>2. ASSUME NEW m \in Nat, m \notin Bad PROVE m + 1 \notin Bad
    <3> SUFFICES ASSUME m + 1 <= n PROVE Accounted(Times(m + 1), Events(m + 1), log \o new(m + 1))
      OBVIOUS
    <3> HIDE DEF new, Times, Events
    <3>1. Accounted(Times(m), Events(m), log \o new(m))
      BY <1>2, <2>2
    <3>2. HeadWait(m) <= 0
      <4>1. m \in 0 .. n - 1
        BY <1>2
      <4> QED BY <1>1, <4>1
    <3>3. Times(m) \in Seq(0 .. MINUTE + 1) /\ Events(m) \in Seq(Event)
      BY <3>1 DEF Accounted, TimesAgree, EventsAgree
    <3>4. RequestWait(Times(m)) <= 0 /\ RecordWait(Events(m), q[m + 1].cost) <= 0
      BY <3>2, <3>3, PartsOfAWait
    <3>5. q[m + 1].cost \in Costs
      <4>1. m + 1 \in 1 .. Len(q)
        BY <1>1, <1>2
      <4> QED BY <1>5, <4>1
    <3> DEFINE e == [age |-> 0, cost |-> q[m + 1].cost]
    <3>6. Accounted(Append(Times(m), 0), Append(Events(m), e), Append(log \o new(m), e))
      BY <3>1, <3>4, <3>5, GrantSafe
    <3>7. /\ Times(m + 1) = Append(Times(m), 0)
          /\ Events(m + 1) = Append(Events(m), e)
          /\ log \o new(m + 1) = Append(log \o new(m), e)
      BY <1>7
    <3> QED BY <3>6, <3>7
  <2>3. Bad \in SUBSET Nat
    OBVIOUS
  <2>4. Bad = {}
    <3> HIDE DEF Bad
    <3> QED BY <2>1, <2>2, <2>3, NoCounterexample
  <2> HIDE DEF Times, Events, new
  <2> QED BY <1>2, <2>4
<1>9. Accounted(requestTimes, recordEvents, log)'
  <2>1. CASE q = <<>>
    <3>1. n = 0
      BY <1>1, <2>1
    <3>2. requestTimes' = requestTimes /\ recordEvents' = recordEvents /\ log' = log
      BY <1>1, <1>6, <2>1, <3>1
    <3>3. Accounted(requestTimes', recordEvents', log')
      BY <1>3, <3>2
    <3> QED BY <3>3 DEF Accounted, TimesAgree, EventsAgree, Aging, Kept
  <2>2. CASE q # <<>>
    <3> HIDE DEF Times, Events, new
    <3>1. requestTimes' = Times(n) /\ recordEvents' = Events(n) /\ log' = log \o new(n)
      BY <1>1, <2>2
    <3>2. Accounted(requestTimes', recordEvents', log')
      BY <1>8, <3>1
    <3> QED BY <3>2 DEF Accounted, TimesAgree, EventsAgree, Aging, Kept
  <2> QED BY <2>1, <2>2
<1>10. (queue \in Waiters)'
  <2>1. SubSeq(q, n + 1, Len(q)) \in Waiters
    BY <1>1, <1>2, RestIsTail DEF Waiters
  <2> QED BY <1>1, <2>1 DEF Waiters
<1> QED BY <1>1, <1>9, <1>10 DEF RateInv

(* The windows and the history start empty, and agree.                      *)
LEMMA RateStarts == RateInit => RateInv
<1> SUFFICES ASSUME RateInit PROVE RateInv
  OBVIOUS
<1>1. queue \in Waiters /\ observed \in [Budgets -> Nat]
  BY DEF RateInit, Waiters
<1> DEFINE none == <<>>
<1>2. requestTimes = none /\ recordEvents = none /\ log = none /\ Len(none) = 0 /\ none \in Seq(Event)
      /\ none \in Seq(0 .. MINUTE + 1)
  BY DEF RateInit
<1> HIDE DEF none
<1>3. Total(Modest(none)) = 0
  <2>1. Modest(none) \in Seq(Event) /\ Len(Modest(none)) = 0
    BY <1>2, ModestEvents
  <2> QED BY <2>1, SumsAreSums
<1>4. TimesAgree(none, none) /\ EventsAgree(none, none) /\ Aging(none)
  BY <1>2 DEF TimesAgree, EventsAgree, Aging
<1>5. Kept(none)
  BY <1>2, <1>3, RateNumbers DEF Kept
<1> QED BY <1>1, <1>2, <1>4, <1>5 DEF RateInv, Accounted

(* Every step keeps the account.                                            *)
LEMMA RateSteps == RateInv /\ [RateNext]_rateVars => RateInv'
<1> SUFFICES ASSUME RateInv, [RateNext]_rateVars PROVE RateInv'
  OBVIOUS
<1>0. queue \in Waiters /\ observed \in [Budgets -> Nat] /\ Accounted(requestTimes, recordEvents, log)
  BY DEF RateInv
<1>1. ASSUME NEW c \in Callers, Acquire(c) PROVE RateInv'
  <2>1. PICK cost \in Costs : Process(Append(queue, [caller |-> c, cost |-> cost]), observed, timer, busy)
    BY <1>1 DEF Acquire
  <2>2. Append(queue, [caller |-> c, cost |-> cost]) \in Waiters
    <3> DEFINE W == [caller : Callers, cost : Costs]
               w == [caller |-> c, cost |-> cost]
    <3>1. queue \in Seq(W) /\ w \in W
      BY <1>0 DEF Waiters
    <3> HIDE DEF W, w
    <3>2. Append(queue, w) \in Seq(W)
      BY <3>1, AppendProperties
    <3> QED BY <3>2 DEF W, w, Waiters
  <2> QED BY <1>0, <2>1, <2>2, ProcessSafe
<1>2. ASSUME NEW c \in Callers, Abort(c) PROVE RateInv'
  <2>1. PICK i \in DOMAIN queue : Process(RemoveAt(queue, i), observed, timer, busy)
    BY <1>2 DEF Abort
  <2>2. RemoveAt(queue, i) \in Waiters
    <3> DEFINE W == [caller : Callers, cost : Costs]
    <3>1. queue \in Seq(W)
      BY <1>0 DEF Waiters
    <3> HIDE DEF W
    <3>2. i \in 1 .. Len(queue) /\ Len(queue) \in Nat
      BY <3>1
    <3>3. \A k \in 1 .. Len(queue) : queue[k] \in W
      BY <3>1, ElementOfSeq
    <3>4. SubSeq(queue, 1, i - 1) \in Seq(W)
      BY <3>2, <3>3, SubSeqProperties
    <3>5. SubSeq(queue, i + 1, Len(queue)) \in Seq(W)
      BY <3>2, <3>3, SubSeqProperties
    <3>6. SubSeq(queue, 1, i - 1) \o SubSeq(queue, i + 1, Len(queue)) \in Seq(W)
      BY <3>4, <3>5, ConcatProperties
    <3> QED BY <3>6 DEF W, Waiters, RemoveAt
  <2> QED BY <1>0, <2>1, <2>2, ProcessSafe
<1>3. ASSUME NEW c \in Callers, Answer(c) PROVE RateInv'
  <2>1. CASE \E b \in Budgets, reset \in 0 .. MaxReset :
               Process(queue, [observed EXCEPT ![b] = reset], timer, busy \ {c})
    <3>1. PICK b \in Budgets, reset \in 0 .. MaxReset :
             Process(queue, [observed EXCEPT ![b] = reset], timer, busy \ {c})
      BY <2>1
    <3>2. [observed EXCEPT ![b] = reset] \in [Budgets -> Nat]
      BY <1>0, RateNumbers
    <3> QED BY <1>0, <3>1, <3>2, ProcessSafe
  <2>2. CASE UNCHANGED <<queue, requestTimes, recordEvents, observed, timer, log>>
    BY <2>2 DEF RateInv, Accounted, TimesAgree, EventsAgree, Aging, Kept
  <2> QED BY <1>3, <2>1, <2>2 DEF Answer
<1>4. CASE Fire
  BY <1>0, <1>4, ProcessSafe DEF Fire
<1>5. CASE RateTick
  <2>1. Accounted(requestTimes', recordEvents', log')
    <3>1. /\ requestTimes' = TimesLater(requestTimes)
          /\ recordEvents' = EventsLater(recordEvents)
          /\ log' = LogLater(log)
      BY <1>5 DEF RateTick, TimesLater, EventsLater, LogLater
    <3>2. Accounted(TimesLater(requestTimes), EventsLater(recordEvents), LogLater(log))
      BY <1>0, TimePasses
    <3> QED BY <3>1, <3>2
  <2>2. (queue \in Waiters)' /\ (observed \in [Budgets -> Nat])'
    <3>1. queue' = queue /\ observed' = [b \in Budgets |-> Larger(observed[b] - 1, 0)]
      BY <1>5 DEF RateTick
    <3>2. \A b \in Budgets : Larger(observed[b] - 1, 0) \in Nat
      <4>1. \A b \in Budgets : observed[b] \in Nat
        BY <1>0
      <4> QED BY <4>1 DEF Larger
    <3> QED BY <1>0, <3>1, <3>2 DEF Waiters, Budgets
  <2> QED BY <2>1, <2>2 DEF RateInv, Accounted, TimesAgree, EventsAgree, Aging, Kept
<1>6. CASE UNCHANGED rateVars
  BY <1>6 DEF RateInv, Accounted, TimesAgree, EventsAgree, Aging, Kept, rateVars
<1> QED BY <1>1, <1>2, <1>3, <1>4, <1>5, <1>6 DEF RateNext

(* The account keeps the budgets.                                           *)
LEMMA AccountsKeepBudgets == RateInv => BudgetsKept
<1> SUFFICES ASSUME RateInv PROVE BudgetsKept
  OBVIOUS
<1> DEFINE young == {i \in DOMAIN log : log[i].age < MINUTE}
           n == Len(log)
           a == n - MaxPerMinute + 1
<1>1. /\ log \in Seq(Event) /\ n \in Nat /\ DOMAIN log = 1 .. n
      /\ Total(Modest(log)) <= MaxRecordsPerHour
      /\ \A r \in Nat : r < n /\ log[n - r].age < MINUTE => r < MaxPerMinute
  BY DEF RateInv, Accounted, Aging, Kept
<1>2. young \subseteq a .. n
  <2> SUFFICES ASSUME NEW i \in young PROVE i \in a .. n
    OBVIOUS
  <2>1. i \in 1 .. n /\ log[i].age < MINUTE
    BY <1>1
  <2>2. n - i \in Nat /\ n - i < n /\ n - (n - i) = i
    BY <1>1, <2>1
  <2>3. n - i < MaxPerMinute
    BY <1>1, <2>1, <2>2
  <2> QED BY <1>1, <2>1, <2>3, RateNumbers
<1>3. IsFiniteSet(a .. n) /\ Cardinality(a .. n) = MaxPerMinute
  <2>1. a \in Int /\ n \in Int /\ a <= n /\ n - a + 1 = MaxPerMinute
    BY <1>1, RateNumbers
  <2> HIDE DEF a, n
  <2> QED BY <2>1, FS_Interval
<1>4. Cardinality(young) <= MaxPerMinute
  <2> HIDE DEF young, a, n
  <2> QED BY <1>2, <1>3, FS_Subset
<1> QED BY <1>1, <1>4 DEF BudgetsKept

(* No minute ever sees more than MaxPerMinute grants, and no hour more than *)
(* MaxRecordsPerHour records, requests too large for any hour aside,        *)
(* however many callers there are, whatever they ask for, and whatever is   *)
(* aborted, answered or late while others wait (rate-limit/store.ts).       *)
THEOREM BudgetsHold == RateSpec => []BudgetsKept
<1>1. RateInit => RateInv
  BY RateStarts
<1>2. RateInv /\ [RateNext]_rateVars => RateInv'
  BY RateSteps
<1>3. RateInv => BudgetsKept
  BY AccountsKeepBudgets
<1> QED BY <1>1, <1>2, <1>3, PTL DEF RateSpec
==============================================================================
