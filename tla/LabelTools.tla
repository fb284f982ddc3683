----------------------------- MODULE LabelTools -----------------------------
(***************************************************************************)
(* The preview and apply tools for shipping labels of the MCP server:      *)
(* runLabelPreview and runLabelApply (tools/shipping-label-write.ts),      *)
(* consumeTypedPreview (tools/preview-apply-core.ts) and the reprint       *)
(* limiter (tools/label-reprint-limiter.ts). PreviewStore models the store *)
(* they share and LabelLedger the SDK's create; here they are what these   *)
(* tools see of them: a record taken at most once, and an order that an    *)
(* earlier create blocks or does not.                                      *)
(*                                                                         *)
(* Money is counted in tenths of a cent, so that rounding to cents shows.  *)
(***************************************************************************)
EXTENDS Integers, Sequences, SequencesExt, FiniteSets

CONSTANTS
  Orders, Sessions, ToolCalls,  \* ToolCalls: tool calls that can be under way at a time
  Nothing,                  \* no job, no cap, no amount, no estimate
  Caps,                     \* values NEWEGG_MCP_MAX_LABEL_AMOUNT takes, Nothing for unlimited
  Packages,                 \* packages of a label request
  Estimates,                \* estimates Newegg answers: a total per package, 0 when unreadable
  cooldown, maxPerHour, HOUR_MS,
  TTL,                      \* previewTtlSeconds, in ticks
  Durable,                  \* previews and ledger survive a restart
  MaxPreviews, MaxRestarts, MaxTime   \* bounds

ASSUME ToolsAssumption ==
  /\ Nothing \notin Orders \cup Sessions \cup Estimates
  /\ Caps \subseteq Nat \cup {Nothing} /\ Packages \in Nat \ {0}
  /\ Estimates \subseteq Seq(Nat)
  /\ cooldown \in Nat /\ maxPerHour \in Nat \ {0} /\ HOUR_MS \in Nat /\ TTL \in Nat
  /\ MaxPreviews \in Nat /\ MaxRestarts \in Nat /\ MaxTime \in Nat

VARIABLES
  now,
  cap, allowReprint,  \* the configuration of this process
  previews,           \* the records of the store, by preview id
  live,               \* ids that can still be consumed
  stage, job,            \* of a call
  byOrder, attempts,  \* the reprint limiter
  blocked,            \* orders an earlier create blocks
  planned,            \* history: the records as their previews stored them
  life,               \* history: restarts so far
  reserved,           \* history: the reprints the limiter admitted
  sent                \* history: the writes sent

store   == <<previews, live, planned>>
config  == <<cap, allowReprint, life>>
limiter == <<byOrder, attempts, reserved>>
toolVars    == <<now, store, config, stage, job, limiter, blocked, sent>>

LabelKinds  == {"create", "reprint"}
Ids    == 1 .. MaxPreviews
Record == [kind : LabelKinds, order : Orders, session : Sessions, cents : Nat \cup {Nothing},
           expiresAt : Nat, intact : BOOLEAN]
NoJob  == [kind |-> "create", order |-> Nothing, session |-> Nothing, id |-> 0, estimate |-> Nothing]
Never  == -(cooldown + HOUR_MS)

ToolsInit ==
  /\ now = 0
  /\ cap \in Caps /\ allowReprint \in BOOLEAN
  /\ previews = <<>> /\ live = {} /\ planned = <<>>
  /\ stage = [c \in ToolCalls |-> "idle"] /\ job = [c \in ToolCalls |-> NoJob]
  /\ byOrder = [o \in Orders |-> Never] /\ attempts = {}
  /\ blocked = {}
  /\ life = 0 /\ reserved = <<>> /\ sent = <<>>

-----------------------------------------------------------------------------
toCents(amount) == (amount + 5) \div 10

EstimateTotal(e) == FoldSeq(LAMBDA p, sum : p + sum, 0, e)

(* Mutant: a package without a readable rate counts as free. *)
AnyTotal(e) == Len(e) = Packages /\ EstimateTotal(e) > 0

(* quoteCreateCost finds a cost: the estimate has every package, each with *)
(* a positive total.                                                       *)
Readable(e) == Len(e) = Packages /\ \A i \in 1 .. Len(e) : e[i] > 0

(* overCap, negated. *)
Within(amount, limit) == toCents(amount) <= toCents(limit)

(* What a quote answers for a call: a readable estimate within the cap for *)
(* a create, leave to go on unmetered for a reprint the operator allows,   *)
(* and a problem otherwise.                                                *)
QuoteOk(k, e) ==
  \/ k = "create" /\ e # Nothing /\ Readable(e) /\ Within(EstimateTotal(e), cap)
  \/ k = "reprint" /\ allowReprint

(* ReprintLimiter.check. The array of attempts holds a time as often as it *)
(* was pushed, in no order that matters: times with a number of their own. *)
Recent == {a \in attempts : now - a.at < HOUR_MS}
Refused(o) == now - byOrder[o] < cooldown \/ Cardinality(Recent) >= maxPerHour

-----------------------------------------------------------------------------
Busy(c, where) == stage' = [stage EXCEPT ![c] = where]
End(c) == stage' = [stage EXCEPT ![c] = "idle"] /\ job' = [job EXCEPT ![c] = NoJob]

(* A preview tool is called and plans: it reads the order and the ledger.  *)
Preview(c) ==
  /\ stage[c] = "idle" /\ Len(previews) < MaxPreviews
  /\ \E k \in LabelKinds, o \in Orders, s \in Sessions :
       job' = [job EXCEPT ![c] = [NoJob EXCEPT !.kind = k, !.order = o, !.session = s]]
  /\ Busy(c, "planning")
  /\ UNCHANGED <<now, store, config, limiter, blocked, sent>>

(* The end of a preview: a plan nothing blocks is stored, with its cost in *)
(* cents when there is a cap, and the call is over.                        *)
Store(c, cents) ==
  LET j == job[c]
      new == [kind |-> j.kind, order |-> j.order, session |-> j.session, cents |-> cents,
              expiresAt |-> now + TTL, intact |-> TRUE]
  IN /\ IF Len(previews) < MaxPreviews /\ ~(j.kind = "reprint" /\ Refused(j.order))
        THEN /\ previews' = Append(previews, new) /\ planned' = Append(planned, new)
             /\ live' = live \cup {Len(previews) + 1}
        ELSE UNCHANGED store
     /\ End(c)

(* The plan is made. Blocked by the ledger, or by what the order read      *)
(* shows, it ends there; it is quoted only when there is a cap.            *)
Plan(c) ==
  LET j == job[c] IN
  /\ stage[c] = "planning"
  /\ \/ End(c) /\ UNCHANGED store
     \/ /\ ~(j.kind = "create" /\ j.order \in blocked)
        /\ IF cap = Nothing THEN Store(c, Nothing) ELSE Busy(c, "quoting") /\ UNCHANGED <<store, job>>
  /\ UNCHANGED <<now, config, limiter, blocked, sent>>

QuotePreview(c) ==
  LET j == job[c] IN
  /\ stage[c] = "quoting"
  /\ \E e \in Estimates \cup {Nothing} :
       IF QuoteOk(j.kind, e)
       THEN Store(c, IF j.kind = "create" THEN toCents(EstimateTotal(e)) ELSE Nothing)
       ELSE End(c) /\ UNCHANGED store
  /\ UNCHANGED <<now, config, limiter, blocked, sent>>

-----------------------------------------------------------------------------
(* consume: the record is spent whatever the tool then makes of it. *)
Spend(id, k) == live' = live \ {id}

(* Mutant: the stored record is not verified. *)
Unverified(id, k) == previews[id].kind = k

(* consumeTypedPreview: of this kind, and as the preview sealed it. *)
Accepted(id, k) == previews[id].kind = k /\ previews[id].intact

(* An apply tool is called with a preview id of its session that is still  *)
(* there: unknown, expired and used ids are refused and change nothing. A  *)
(* create goes on to the ledger, a reprint straight to the cap.            *)
Apply(c) ==
  /\ stage[c] = "idle"
  /\ \E id \in live, k \in LabelKinds :
       LET r == previews[id] IN
       /\ now <= r.expiresAt
       /\ Spend(id, k)
       /\ IF Accepted(id, k)
          THEN /\ job' = [job EXCEPT ![c] = [NoJob EXCEPT !.kind = k, !.order = r.order,
                                                          !.session = r.session, !.id = id]]
               /\ Busy(c, IF k = "create" THEN "preflight" ELSE "admitting")
          ELSE UNCHANGED <<stage, job>>
  /\ UNCHANGED <<now, previews, planned, config, limiter, blocked, sent>>

(* createPreflight: a blocked order makes no request. *)
Preflight(c) ==
  /\ stage[c] = "preflight"
  /\ \/ End(c)                                     \* blocked, or the ledger cannot be read
     \/ job[c].order \notin blocked /\ Busy(c, "pricing") /\ UNCHANGED job
  /\ UNCHANGED <<now, store, config, limiter, blocked, sent>>

(* The amount the reviewer saw, against the cap of this process. *)
ReviewedOk(id) ==
  LET cents == previews[id].cents IN cents = Nothing \/ cents <= toCents(cap)

(* Mutant: a preview that was quoted is not quoted again. *)
PriceOnce(c) ==
  LET j == job[c] IN
  /\ stage[c] = "pricing"
  /\ IF cap = Nothing \/ (ReviewedOk(j.id) /\ previews[j.id].cents # Nothing)
     THEN Busy(c, "sending") /\ UNCHANGED job
     ELSE End(c)
  /\ UNCHANGED <<now, store, config, limiter, blocked, sent>>

(* A create's cost: the stored amount first, then a fresh quote. *)
Price(c) ==
  LET j == job[c] IN
  /\ stage[c] = "pricing"
  /\ IF cap = Nothing THEN Busy(c, "sending") /\ UNCHANGED job
     ELSE \E e \in Estimates \cup {Nothing} :
            IF ReviewedOk(j.id) /\ QuoteOk("create", e)
            THEN Busy(c, "sending") /\ job' = [job EXCEPT ![c].estimate = e]
            ELSE End(c)
  /\ UNCHANGED <<now, store, config, limiter, blocked, sent>>

(* Mutant: each order has its own hourly count. *)
AdmitPerOrder(c) ==
  LET o == job[c].order IN
  /\ stage[c] = "admitting"
  /\ IF (cap # Nothing /\ ~QuoteOk("reprint", Nothing)) \/ now - byOrder[o] < cooldown
     THEN End(c) /\ UNCHANGED limiter
     ELSE /\ Busy(c, "sending") /\ UNCHANGED <<job, attempts>>
          /\ byOrder' = [byOrder EXCEPT ![o] = now]
          /\ reserved' = Append(reserved, [id |-> job[c].id, order |-> o, at |-> now, life |-> life])
  /\ UNCHANGED <<now, store, config, blocked, sent>>

(* A reprint under a cap needs the operator's leave; then reserve checks   *)
(* the limiter and records the attempt in one step.                        *)
Admit(c) ==
  LET o == job[c].order IN
  /\ stage[c] = "admitting"
  /\ IF (cap # Nothing /\ ~QuoteOk("reprint", Nothing)) \/ Refused(o)
     THEN End(c) /\ UNCHANGED limiter
     ELSE /\ Busy(c, "sending") /\ UNCHANGED job
          /\ byOrder' = [byOrder EXCEPT ![o] = now]
          /\ attempts' = Recent \cup {[n |-> Len(reserved) + 1, at |-> now]}
          /\ reserved' = Append(reserved, [id |-> job[c].id, order |-> o, at |-> now, life |-> life])
  /\ UNCHANGED <<now, store, config, blocked, sent>>

(* The SDK's write. It may end with nothing sent: its own plan or, for a   *)
(* create, its ledger refuses. A create that is sent blocks its order,     *)
(* until it is known to have failed.                                       *)
Send(c) ==
  LET j == job[c] IN
  /\ stage[c] = "sending"
  /\ End(c)
  /\ \/ UNCHANGED <<blocked, sent>>
     \/ /\ ~(j.kind = "create" /\ j.order \in blocked)
        /\ sent' = Append(sent, [id |-> j.id, kind |-> j.kind, order |-> j.order, session |-> j.session,
                                 estimate |-> j.estimate, cap |-> cap, allowed |-> allowReprint])
        /\ \E failed \in BOOLEAN :
             blocked' = IF j.kind = "create" /\ ~failed THEN blocked \cup {j.order} ELSE blocked
  /\ UNCHANGED <<now, store, config, limiter>>

-----------------------------------------------------------------------------
(* External: a store of the embedder returns a record with another order   *)
(* than was put.                                                           *)
Corrupt ==
  /\ \E id \in live, o \in Orders :
       /\ previews[id].intact
       /\ previews' = [previews EXCEPT ![id].order = o, ![id].intact = FALSE]
  /\ UNCHANGED <<now, live, planned, config, stage, job, limiter, blocked, sent>>

Tick ==
  /\ now < MaxTime
  /\ now' = now + 1
  /\ UNCHANGED <<store, config, stage, job, limiter, blocked, sent>>

(* The process restarts, perhaps with another cap. *)
Restart ==
  /\ life < MaxRestarts
  /\ life' = life + 1
  /\ cap' \in Caps /\ allowReprint' \in BOOLEAN
  /\ stage' = [c \in ToolCalls |-> "idle"] /\ job' = [c \in ToolCalls |-> NoJob]
  /\ byOrder' = [o \in Orders |-> Never] /\ attempts' = {}
  /\ live' = IF Durable THEN live ELSE {}
  /\ blocked' = IF Durable THEN blocked ELSE {}
  /\ UNCHANGED <<now, previews, planned, reserved, sent>>

Step(c) ==
  \/ Preview(c) \/ Plan(c) \/ QuotePreview(c)
  \/ Apply(c) \/ Preflight(c) \/ Price(c) \/ Admit(c) \/ Send(c)

ToolsNext == (\E c \in ToolCalls : Step(c)) \/ Corrupt \/ Tick \/ Restart

ToolsSpec == ToolsInit /\ [][ToolsNext]_toolVars

-----------------------------------------------------------------------------
(* While a cap is in force, a label is bought only when the amount the     *)
(* reviewer saw and a full, readable estimate taken since are both within  *)
(* it to the cent, and a reprint is sent only when the operator allows     *)
(* reprints: whatever changed between preview and apply                    *)
(* (shipping-label-write.ts:447-475).                                      *)
WithinCap ==
  \A i \in 1 .. Len(sent) : LET s == sent[i] IN
    s.cap # Nothing =>
      \/ /\ s.kind = "create" /\ s.estimate # Nothing
         /\ Len(s.estimate) = Packages /\ \A p \in 1 .. Packages : s.estimate[p] > 0
         /\ toCents(EstimateTotal(s.estimate)) <= toCents(s.cap)
         /\ planned[s.id].cents = Nothing \/ planned[s.id].cents <= toCents(s.cap)
      \/ s.kind = "reprint" /\ s.allowed

(* Every write carries out one preview, as it was reviewed and for the     *)
(* session that made it, and no preview is carried out twice, whether the  *)
(* write failed, was refused or the tools were mixed up                    *)
(* (preview-apply-core.ts:44-92).                                          *)
SentOnceAsReviewed ==
  \A i \in 1 .. Len(sent) : LET s == sent[i] IN
    /\ <<s.kind, s.order, s.session>> =
         <<planned[s.id].kind, planned[s.id].order, planned[s.id].session>>
    /\ \A k \in 1 .. Len(sent) : sent[k].id = s.id => k = i

(* In one process, over all sessions and concurrent applies, the reprints  *)
(* that go ahead keep the cooldown of their order, never exceed the hourly *)
(* count, and each reprint sent is one of them                             *)
(* (label-reprint-limiter.ts:1-12, 53-65).                                 *)
ReprintsSpaced ==
  LET n == Len(reserved) IN
  /\ \A i, k \in 1 .. n :
       i < k /\ reserved[i].life = reserved[k].life /\ reserved[i].order = reserved[k].order
         => reserved[k].at - reserved[i].at >= cooldown
  /\ \A k \in 1 .. n :
       Cardinality({i \in 1 .. k : /\ reserved[i].life = reserved[k].life
                                   /\ reserved[k].at - reserved[i].at < HOUR_MS}) <= maxPerHour
  /\ \A i \in 1 .. Len(sent) :
       sent[i].kind = "reprint" => \E k \in 1 .. n : reserved[k].id = sent[i].id

=============================================================================
