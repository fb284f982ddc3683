------------------------------ MODULE RmaWrites ------------------------------
(***************************************************************************)
(* What is read and checked before an RMA is submitted, edited, received   *)
(* or rejected and before a courtesy refund is issued: validation          *)
(* (rma/write-validate.ts), the reads of the RMA, the order and everything *)
(* on it (servicemgmt/write.ts), the checks (rma/write-checks.ts), and the *)
(* tools with their ceiling and their second look at the money             *)
(* (tools/service-write.ts).                                               *)
(*                                                                         *)
(* How one such write is sent, and several at once, is in DirectWrites.    *)
(* Here one caller makes one call after another; every read is a step of   *)
(* its own, Newegg's desk moves in between, and what it answers may leave  *)
(* fields out, stop short, not say how many there are, list what was not   *)
(* asked for, or not yet list a courtesy refund that is only queued.       *)
(***************************************************************************)
EXTENDS Integers, FiniteSetsExt, SequencesExt

CONSTANTS
  Desks,           \* what Newegg may hold at first: [order, rmas, courtesies]
  Plans,           \* the writes a caller may ask for
  RmaNumbers,      \* names of RMAs; those not in use are free
  RefundIds,       \* names of courtesy refunds, likewise
  NotRead,         \* a field the answer left out or nobody could read
  Absent,          \* no such order, no such RMA, no such limit
  PortalPrice,     \* what another client sets a refund per unit to
  MaxDeskMoves,    \* how often the desk moves by itself
  MaxServiceCalls, \* how many calls are made
  RMA_WRITE_MAX_ITEMS, maxItemsPerOperation, \* lines on one RMA: the SDK's and the server's limit
  maxRefundAmount  \* the server's ceiling, in cents

RmaStatuses == {"open", "received", "rejected", "voided", "closed", "processing"}
RmaTypes == {"replacement", "refund"}

(* The parts of each write that checks look at. *)
WriteFields ==
  [submit  |-> {"op", "type", "items", "autoReceive"},
   edit    |-> {"op", "rmaNumber", "type", "items"},
   process |-> {"op", "rmaNumber"},
   reject  |-> {"op", "rmaNumber", "reason", "carrier", "evidence"},
   refund  |-> {"op", "amount"}]
LineFields ==
  {"sellerPartNumber", "returnQuantity", "returnUnitPrice", "refundShippingPrice", "reason", "evidence"}

(* What Newegg and the callers make their RMAs, refunds and orders of. *)
Amounts == Nat \cup {NotRead}

AreLines(items) ==
  /\ items \in Seq({items[i] : i \in DOMAIN items})
  /\ \A i \in DOMAIN items :
       /\ items[i] = [f \in LineFields |-> items[i][f]] /\ items[i].returnQuantity \in Nat
       /\ items[i].returnUnitPrice \in Amounts /\ items[i].refundShippingPrice \in Amounts

IsRma(r) ==
  /\ DOMAIN r = {"orderNumber", "type", "status", "items", "hides"}
  /\ r.status \in RmaStatuses /\ r.type \in RmaTypes /\ AreLines(r.items)

RefundStatuses == {"queued", "failed", "open", "closed", "void"}

IsRefund(c) == DOMAIN c = {"refundAmount", "status", "hides"} /\ c.refundAmount \in Nat /\ c.status \in RefundStatuses

ASSUME ServiceAssumption ==
  /\ \A d \in Desks :
       /\ DOMAIN d.rmas \subseteq RmaNumbers /\ DOMAIN d.courtesies \subseteq RefundIds
       /\ \A n \in DOMAIN d.rmas : IsRma(d.rmas[n])
       /\ \A c \in DOMAIN d.courtesies : IsRefund(d.courtesies[c])
       /\ d.order # Absent => /\ d.order.total \in Amounts
                              /\ \A i \in DOMAIN d.order.items : d.order.items[i].orderedQty \in Amounts
  /\ \A p \in Plans :
       /\ p.op \in DOMAIN WriteFields /\ DOMAIN p = WriteFields[p.op]
       /\ p.op \in {"submit", "edit"} => p.type \in RmaTypes /\ AreLines(p.items)
       /\ p.op = "refund" => p.amount \in Int
  /\ NotRead \notin Int \cup {"o"} /\ Absent \notin RmaNumbers
  /\ RMA_WRITE_MAX_ITEMS \in Nat /\ maxItemsPerOperation \in Nat
  /\ IsFiniteSet(RmaNumbers) /\ IsFiniteSet(RefundIds)
  /\ PortalPrice \in Nat /\ maxRefundAmount \in Nat /\ MaxDeskMoves \in Nat /\ MaxServiceCalls \in Nat

VARIABLES
  rmaSite,      \* the client's marketplace
  order,        \* the order at Newegg
  rmas,         \* the RMAs at Newegg, on this order ("o") and on others
  courtesies,   \* the courtesy refunds on the order
  deskMoves,    \* changes at Newegg that are not ours, so far
  serviceCalls, \* calls made so far
  service,      \* the call under way
  plan,         \* the preview in the store
  lastWrite     \* the write that took effect last, and the desk after it

serviceVars == <<rmaSite, order, rmas, courtesies, deskMoves, serviceCalls, service, plan, lastWrite>>
desk == <<order, rmas, courtesies>>

NoService == [phase |-> "idle"]
NoPlan == [kind |-> "none"]

(* `cut`: a list is seen to be short; `missed`: the lists short unseen.    *)
NothingRead ==
  [rma |-> Absent, order |-> Absent, rmas |-> <<>>, courtesies |-> <<>>, cut |-> FALSE, missed |-> {}]

ServiceInit ==
  /\ rmaSite \in {"us", "b2b", "ca"}
  /\ \E d \in Desks : order = d.order /\ rmas = d.rmas /\ courtesies = d.courtesies
  /\ deskMoves = 0 /\ serviceCalls = 0 /\ service = NoService /\ plan = NoPlan
  /\ lastWrite = [op |-> "none"]

-----------------------------------------------------------------------------
(* Validation.                                                             *)

EvidenceReasons == {"incompatible", "noLongerNeeded", "orderedWrongItem", "unsatisfied"}

AcceptsEvidence == rmaSite # "b2b"

(* checkItems: prices on refunds and only there, evidence where the reason *)
(* calls for it and only where the marketplace takes it, no part twice.    *)
ValidItem(line, type) ==
  /\ IF type = "refund" THEN NotRead \notin {line.returnUnitPrice, line.refundShippingPrice}
                         ELSE {line.returnUnitPrice, line.refundShippingPrice} = {NotRead}
  /\ line.reason \in EvidenceReasons => "unopened" \in line.evidence
  /\ IF AcceptsEvidence THEN line.reason \in EvidenceReasons => {"imageUrls", "memo"} \subseteq line.evidence
                        ELSE {"imageUrls", "memo"} \cap line.evidence = {}

ValidItems(items, type) ==
  /\ Len(items) \in 1 .. RMA_WRITE_MAX_ITEMS /\ \A i \in DOMAIN items : ValidItem(items[i], type)
  /\ \A i, j \in DOMAIN items : items[i].sellerPartNumber = items[j].sellerPartNumber => i = j

RejectReasonsWithEvidence == {"itemMissing", "cpuPinDamage", "missingRetailBox", "missingUpcCode",
  "tamperedSerialNumber", "missingAccessories", "consumableItem", "motherboardSocketPinDamage"}

RejectReasons ==
  RejectReasonsWithEvidence \cup {"physicalDamage", "wrongItemReturned"}
    \cup (IF rmaSite = "ca" THEN {"customerRequest", "missingSerialNumber", "software"}
          ELSE {"qaSentWrongItem", "unlockedCellphone", "usedItemReturnedAsNew"})

ValidPlan(p) ==
  /\ p.op \in {"submit", "edit"} => ValidItems(p.items, p.type)
  /\ p.op = "submit" => (p.autoReceive => p.type = "refund")
  /\ p.op = "reject" => /\ p.reason \in RejectReasons
                        /\ p.reason \in RejectReasonsWithEvidence => {"imageUrls", "memo"} \subseteq p.evidence
                        /\ (p.carrier = "other") = ("otherCarrier" \in p.evidence)
  /\ p.op = "refund" => p.amount > 0

-----------------------------------------------------------------------------
(* What a read shows.  The desk's `hides` names the field that its answers *)
(* leave out.                                                              *)

When(condition, word) == IF condition THEN {word} ELSE {}

(* parseRmaItem *)
SeenLine(line, hides) ==
  [line EXCEPT !.sellerPartNumber = IF hides = "part" THEN NotRead ELSE @,
               !.returnQuantity = IF hides = "quantity" THEN NotRead ELSE @,
               !.returnUnitPrice = IF hides = "price" THEN NotRead ELSE @,
               !.refundShippingPrice = IF hides = "shipping" THEN NotRead ELSE @]

(* parseRma *)
Seen(n) ==
  LET r == rmas[n] IN
  [rmaNumber   |-> n,
   type        |-> IF r.hides = "type" THEN "unknown" ELSE r.type,
   status      |-> IF r.hides = "status" THEN "unknown" ELSE r.status,
   orderNumber |-> IF r.hides = "order" THEN NotRead ELSE r.orderNumber,
   items       |-> IF r.hides = "lines" THEN <<>>
                   ELSE [i \in DOMAIN r.items |->
                          IF i = 1 THEN SeenLine(r.items[i], r.hides) ELSE r.items[i]]]

(* parseCourtesyRefund *)
SeenRefund(id) ==
  [status       |-> courtesies[id].status,
   refundAmount |-> IF courtesies[id].hides THEN NotRead ELSE courtesies[id].refundAmount]

-----------------------------------------------------------------------------
(* The checks.  `read` is what the reads of this plan returned; `own` is   *)
(* the RMA that is edited, whose lines do not count.                       *)

OrZero(x) == IF x = NotRead THEN 0 ELSE x

IsActiveRma(r) == r.status \notin {"rejected", "voided"}

LineRefundCents(line) ==
  OrZero(line.returnUnitPrice) * OrZero(line.returnQuantity) + OrZero(line.refundShippingPrice)

ItemsCents(items) == SumFunction([i \in DOMAIN items |-> LineRefundCents(items[i])])

RmaRefundCents(r) == IF r.type = "refund" THEN ItemsCents(r.items) ELSE 0

Others(read, own) == {n \in DOMAIN read.rmas : IsActiveRma(read.rmas[n]) /\ n # own}

StandingRefunds(read) == {c \in DOMAIN read.courtesies : read.courtesies[c].status # "void"}

PriorRefundCents(read, own) ==
  SumFunction([n \in Others(read, own) |-> RmaRefundCents(read.rmas[n])])
    + SumFunction([c \in StandingRefunds(read) |-> OrZero(read.courtesies[c].refundAmount)])

\* A mutated form: what cannot be read counts as nothing.
UnreadableIsNothing(read, own) == FALSE

UnreconcilablePriorRefunds(read, own) ==
  \/ \E n \in Others(read, own) :
       LET r == read.rmas[n] IN
       /\ r.type = "refund"
       /\ r.items = <<>> \/ \E i \in DOMAIN r.items :
                              NotRead \in {r.items[i].returnUnitPrice, r.items[i].returnQuantity}
  \/ \E c \in StandingRefunds(read) : read.courtesies[c].refundAmount = NotRead

(* checkOrderEligibility *)
OrderBlockers(o) ==
  IF o = Absent THEN {"no such order"}
  ELSE When(o.status = "voided", "voided") \cup When(o.status \in {"unshipped", "paymentPending"}, "not invoiced")
         \cup When(o.salesChannel = "replacement", "replacement order")

(* checkRefundBalance: its returns are the order of these alternatives. *)
BalanceBlockers(cents, read, own) ==
  IF read.order.total = NotRead THEN {"total unknown"}
  ELSE IF cents > read.order.total THEN {"above the total"}
  ELSE IF UnreconcilablePriorRefunds(read, own) THEN {"prior refunds unknown"}
  ELSE When(cents > read.order.total - PriorRefundCents(read, own), "above what is left")

LinesOf(part, items) == {i \in DOMAIN items : items[i].sellerPartNumber = part}

PartQuantity(part, items) == SumFunction([i \in LinesOf(part, items) |-> OrZero(items[i].returnQuantity)])

AlreadyReturned(part, read, own) ==
  SumFunction([n \in Others(read, own) |-> PartQuantity(part, read.rmas[n].items)])

(* checkRmaItems, one line *)
LineBlockers(line, type, read, own) ==
  LET part == line.sellerPartNumber IN
  IF part \notin DOMAIN read.order.items THEN {"not on the order"}
  ELSE LET item == read.order.items[part] IN
       When(item.cancelled, "cancelled")
         \cup (IF item.orderedQty = NotRead THEN {}
               ELSE When(line.returnQuantity > item.orderedQty - AlreadyReturned(part, read, own), "above returnable"))
         \cup (IF type # "refund" THEN {}
               ELSE IF item.unitPrice = NotRead THEN {"unit price unknown"}
               ELSE When(line.returnUnitPrice > item.unitPrice, "above the unit price"))

LinesBlockers(p, read, own) == UNION {LineBlockers(p.items[i], p.type, read, own) : i \in DOMAIN p.items}

ShippingBlockers(items, o) ==
  IF o.shippingAmount = NotRead THEN {}
  ELSE When(SumFunction([i \in DOMAIN items |-> OrZero(items[i].refundShippingPrice)]) > o.shippingAmount,
            "above the shipping charge")

(* checkRmaItems, the lines together *)
ItemBlockers(p, read, own) ==
  IF read.order = Absent THEN {}
  ELSE LinesBlockers(p, read, own)
       \cup (IF p.type # "refund" THEN {}
             ELSE ShippingBlockers(p.items, read.order) \cup BalanceBlockers(ItemsCents(p.items), read, own))

(* checkRmaState: processing and unknown only warn. *)
StateBlockers(r) ==
  IF r = Absent THEN {"no such RMA"} ELSE When(r.status \notin {"open", "processing", "unknown"}, "not open")

(* loadOrderContext *)
CutBlockers(read) == When(read.cut, "not all was read")

SubmitBlockers(p, read) ==
  CutBlockers(read) \cup OrderBlockers(read.order) \cup ItemBlockers(p, read, Absent)
    \cup When(p.autoReceive /\ read.order # Absent /\ read.order.fulfillment = "newegg", "auto-receive")

EditBlockers(p, read) ==
  StateBlockers(read.rma)
    \cup (IF read.rma = Absent THEN {}
          ELSE When(read.rma.type # p.type, "another type")
                 \cup (IF read.rma.orderNumber = NotRead THEN {"order unknown"}
                       ELSE CutBlockers(read) \cup When(read.order = Absent, "no such order")
                              \cup ItemBlockers(p, read, p.rmaNumber)))

ProcessBlockers(read) ==
  StateBlockers(read.rma) \cup When(read.rma # Absent /\ read.rma.type = "unknown", "type unknown")

RefundBlockers(p, read) ==
  CutBlockers(read) \cup OrderBlockers(read.order)
    \cup (IF read.order = Absent THEN {} ELSE BalanceBlockers(p.amount, read, Absent))

PlanBlockers(p, read) ==
  IF p.op = "submit" THEN SubmitBlockers(p, read)
  ELSE IF p.op = "edit" THEN EditBlockers(p, read)
  ELSE IF p.op = "process" THEN ProcessBlockers(read)
  ELSE IF p.op = "reject" THEN StateBlockers(read.rma)
  ELSE RefundBlockers(p, read)

(* The money a plan says it moves: one amount, or none. *)
RefundTotal(p, read) ==
  IF p.op = "refund" THEN {p.amount}
  ELSE IF p.op = "process" THEN
    IF read.rma # Absent /\ read.rma.type = "refund" THEN {RmaRefundCents(read.rma)} ELSE {}
  ELSE IF p.op = "reject" \/ p.type = "replacement" THEN {}
  ELSE {IF read.order = Absent THEN 0 ELSE ItemsCents(p.items)}

-----------------------------------------------------------------------------
(* The reads, one after the other.  A stage is what they are for.          *)

FirstRead(p) == IF p.op \in {"submit", "refund"} THEN "order" ELSE "lookup"

Stage(stage, p, tool, asOf, previewed) ==
  [phase |-> FirstRead(p), stage |-> stage, plan |-> p, read |-> NothingRead,
   tool |-> tool, asOf |-> asOf, previewed |-> previewed]

(* The tools' input schemas: no receipt in the same call, fewer lines. *)
ToolTakes(p) ==
  /\ p.op = "submit" => ~p.autoReceive
  /\ p.op \in {"submit", "edit"} => Len(p.items) <= maxItemsPerOperation

(* What a tool has looked at once more before it sends. *)
Rechecked == {"process"}

(* The SDK's own preview methods read and judge like a tool's and change   *)
(* nothing; a tool's preview files what it found.                          *)
CallService(p, tool) ==
  /\ service.phase = "idle" /\ serviceCalls < MaxServiceCalls /\ ValidPlan(p)
  /\ tool => ToolTakes(p)
  /\ serviceCalls' = serviceCalls + 1
  /\ service' = Stage(IF tool THEN "preview" ELSE "send", p, tool, deskMoves, {})
  /\ UNCHANGED <<rmaSite, desk, deskMoves, plan, lastWrite>>

(* runServiceApply: the record is consumed, and only a receipt, whose      *)
(* money is whatever the RMA holds by now, is looked at again first.       *)
ApplyPlan ==
  /\ service.phase = "idle" /\ plan # NoPlan
  /\ plan' = NoPlan
  /\ service' = Stage(IF plan.input.op \in Rechecked THEN "recheck" ELSE "send", plan.input,
                      TRUE, deskMoves, plan.refundCents)
  /\ UNCHANGED <<rmaSite, desk, deskMoves, serviceCalls, lastWrite>>

NextRead(phase, read) ==
  service' = [service EXCEPT !.phase = phase, !.read = read]

(* RmaApiImpl.tryGet: a search for the number, of which the answer that    *)
(* carries it is taken; the search may list another RMA in its place.      *)
LookUpRma ==
  /\ service.phase = "lookup"
  /\ \E found \in {Absent} \cup (IF service.plan.rmaNumber \in DOMAIN rmas THEN {Seen(service.plan.rmaNumber)} ELSE {}) :
       NextRead(IF service.plan.op = "edit" /\ found # Absent /\ found.orderNumber # NotRead THEN "order" ELSE "judge",
                [service.read EXCEPT !.rma = found])
  /\ UNCHANGED <<rmaSite, desk, deskMoves, serviceCalls, plan, lastWrite>>

(* An RMA of another order is edited against that order, which is none of  *)
(* this seller's here. *)
ReadOrder ==
  /\ service.phase = "order"
  /\ LET found == IF service.plan.op = "edit" /\ service.read.rma.orderNumber # "o" THEN Absent ELSE order IN
     NextRead(IF found = Absent THEN "judge" ELSE "rmas", [service.read EXCEPT !.order = found])
  /\ UNCHANGED <<rmaSite, desk, deskMoves, serviceCalls, plan, lastWrite>>

(* RmaApiImpl.list by order number: the search may list RMAs of other      *)
(* orders, which are dropped, and a page may hold fewer than there are.    *)
(* That is seen only if the answer counts them: a count nobody can read is *)
(* taken for 0 (parsePageInfo).                                            *)
ReadRmas ==
  /\ service.phase = "rmas"
  /\ \E loose, counted \in BOOLEAN :
     LET listed == {n \in DOMAIN rmas : rmas[n].orderNumber = "o" \/ loose} IN
     \E rows \in {listed} \cup {listed \ {n} : n \in listed} :
       NextRead("refunds",
         [service.read EXCEPT
            !.rmas = [n \in {m \in rows : Seen(m).orderNumber \in {NotRead, "o"}} |-> Seen(n)],
            !.cut = counted /\ rows # listed,
            !.missed = When(~counted /\ \E n \in listed \ rows : rmas[n].orderNumber = "o", "rmas")])
  /\ UNCHANGED <<rmaSite, desk, deskMoves, serviceCalls, plan, lastWrite>>

(* RefundsApiImpl.list lists refunds, not requests: of a request that is   *)
(* queued, or has failed, there is none.                                   *)
ReadRefunds ==
  /\ service.phase = "refunds"
  /\ \E counted \in BOOLEAN :
     LET listed == {c \in DOMAIN courtesies : courtesies[c].status \notin {"queued", "failed"}} IN
     \E rows \in {listed} \cup {listed \ {c} : c \in listed} :
       NextRead("judge",
         [service.read EXCEPT
            !.courtesies = [c \in rows |-> SeenRefund(c)],
            !.cut = @ \/ (counted /\ rows # listed),
            !.missed = @ \cup When(\/ ~counted /\ rows # listed
                                   \/ \E c \in DOMAIN courtesies : courtesies[c].status = "queued", "refunds")])
  /\ UNCHANGED <<rmaSite, desk, deskMoves, serviceCalls, plan, lastWrite>>

Judged == service.phase = "judge"
Found == PlanBlockers(service.plan, service.read)
Money == RefundTotal(service.plan, service.read)

(* A read that fails ends the call, and so does a blocker: at apply the    *)
(* preview is gone. *)
GiveUp ==
  /\ service.phase # "idle" /\ (Judged => Found # {})
  /\ service' = NoService
  /\ UNCHANGED <<rmaSite, desk, deskMoves, serviceCalls, plan, lastWrite>>

-----------------------------------------------------------------------------
(* The verdict of each stage.                                              *)

(* runServicePreview: the ceiling, and no refund that reads as nothing. *)
CeilingBlockers(money) ==
  UNION {When(cents > maxRefundAmount, "above the ceiling") \cup When(cents <= 0, "not readable") : cents \in money}

FileServicePlan ==
  /\ Judged /\ service.stage = "preview"
  /\ plan' = IF Found \cup CeilingBlockers(Money) = {}
             THEN [kind |-> service.plan.op, input |-> service.plan, refundCents |-> Money] ELSE plan
  /\ service' = NoService
  /\ UNCHANGED <<rmaSite, desk, deskMoves, serviceCalls, lastWrite>>

\* A mutated form: the second look only asks whether the RMA may still be received.
MoneyMayDiffer(now, previewed) == TRUE

SameMoney(now, previewed) == now = previewed

(* runServiceApply's recheck; then the SDK plans once more. *)
Recheck ==
  /\ Judged /\ service.stage = "recheck"
  /\ service' = IF /\ Found = {} /\ SameMoney(Money, service.previewed)
                   /\ \A cents \in Money : cents <= maxRefundAmount
                THEN Stage("send", service.plan, TRUE, service.asOf, service.previewed)
                ELSE NoService
  /\ UNCHANGED <<rmaSite, desk, deskMoves, serviceCalls, plan, lastWrite>>

(* Newegg's side: only an open RMA changes (SE028).                        *)
Accepts(p) ==
  /\ p.op \in {"edit", "process", "reject"} => p.rmaNumber \in DOMAIN rmas /\ rmas[p.rmaNumber].status = "open"
  /\ p.op = "submit" => RmaNumbers # DOMAIN rmas
  /\ p.op = "refund" => RefundIds # DOMAIN courtesies

NewRma(p) ==
  [orderNumber |-> "o", type |-> p.type, items |-> p.items, hides |-> "nothing",
   status |-> IF p.autoReceive THEN "received" ELSE "open"]

NewRefund(amount, status) == [refundAmount |-> amount, status |-> status, hides |-> FALSE]

Added(held, name, new) == [n \in DOMAIN held \cup {name} |-> IF n = name THEN new ELSE held[n]]

(* A courtesy refund is only queued (RefundsApi.issue).                    *)
Effect(p) ==
  /\ order' = order
  /\ \/ /\ p.op = "submit"
        /\ \E n \in RmaNumbers \ DOMAIN rmas : rmas' = Added(rmas, n, NewRma(p))
     \/ p.op = "edit" /\ rmas' = [rmas EXCEPT ![p.rmaNumber].items = p.items]
     \/ p.op = "process" /\ rmas' = [rmas EXCEPT ![p.rmaNumber].status = "received"]
     \/ p.op = "reject" /\ rmas' = [rmas EXCEPT ![p.rmaNumber].status = "rejected"]
     \/ p.op = "refund" /\ UNCHANGED rmas
  /\ IF p.op # "refund" THEN UNCHANGED courtesies
     ELSE \E c \in RefundIds \ DOMAIN courtesies :
            courtesies' = Added(courtesies, c, NewRefund(p.amount, "queued"))

(* The money that really moves. *)
Released(p) ==
  IF p.op = "process" THEN RmaRefundCents(rmas[p.rmaNumber])
  ELSE IF p.op = "refund" THEN p.amount
  ELSE IF p.op = "reject" \/ p.type # "refund" THEN 0 ELSE ItemsCents(p.items)

(* The write is sent once and takes effect, whatever becomes of the answer *)
(* (an answer that does not name the RMA or the request counts as none) ...*)
SendService ==
  /\ Judged /\ service.stage = "send" /\ Found = {} /\ Accepts(service.plan)
  /\ Effect(service.plan)
  /\ lastWrite' = [op |-> service.plan.op, plan |-> service.plan, tool |-> service.tool,
                   fresh |-> service.asOf = deskMoves, previewed |-> service.previewed,
                   released |-> Released(service.plan), missed |-> service.read.missed,
                   rmas |-> rmas', courtesies |-> courtesies',
                   hidden |-> {rmas[n].hides : n \in {m \in DOMAIN rmas : IsActiveRma(rmas[m])}}]
  /\ service' = NoService
  /\ UNCHANGED <<rmaSite, deskMoves, serviceCalls, plan>>

(* ... or it does not: refused, or lost on the way. *)
SendInVain ==
  /\ Judged /\ service.stage = "send" /\ Found = {}
  /\ service' = NoService
  /\ UNCHANGED <<rmaSite, desk, deskMoves, serviceCalls, plan, lastWrite>>

-----------------------------------------------------------------------------
(* Newegg, the customer and the seller's other clients.                    *)

Repriced(items) ==
  [i \in DOMAIN items |-> IF i = 1 THEN [items[i] EXCEPT !.returnUnitPrice = PortalPrice] ELSE items[i]]

DeskMoves ==
  /\ deskMoves < MaxDeskMoves /\ service.phase \in {"idle", "judge", "rmas", "order", "lookup"}
  /\ deskMoves' = deskMoves + 1
  /\ \/ \E n \in DOMAIN rmas :
          /\ rmas[n].status = "open"
          /\ \/ \E s \in {"received", "voided"} : rmas' = [rmas EXCEPT ![n].status = s]
             \/ rmas[n].type = "refund" /\ rmas' = [rmas EXCEPT ![n].items = Repriced(@)]
          /\ UNCHANGED courtesies
     \/ \E c \in RefundIds \ DOMAIN courtesies :
          /\ courtesies' = Added(courtesies, c, NewRefund(PortalPrice, "open"))
          /\ UNCHANGED rmas
  /\ UNCHANGED <<rmaSite, order, serviceCalls, service, plan, lastWrite>>

(* Newegg works through the queue: a request becomes a refund or fails.    *)
QueueMoves ==
  /\ \E c \in DOMAIN courtesies, s \in {"open", "failed"} :
       /\ courtesies[c].status = "queued" /\ courtesies' = [courtesies EXCEPT ![c].status = s]
  /\ UNCHANGED <<rmaSite, order, rmas, deskMoves, serviceCalls, service, plan, lastWrite>>

ServiceNext ==
  \/ \E p \in Plans, tool \in BOOLEAN : CallService(p, tool)
  \/ ApplyPlan \/ LookUpRma \/ ReadOrder \/ ReadRmas \/ ReadRefunds \/ GiveUp
  \/ FileServicePlan \/ Recheck \/ SendService \/ SendInVain \/ DeskMoves \/ QueueMoves

ServiceSpec == ServiceInit /\ [][ServiceNext]_serviceVars

-----------------------------------------------------------------------------
(* Safety.                                                                 *)

OnTheOrder == {n \in DOMAIN lastWrite.rmas : lastWrite.rmas[n].orderNumber = "o" /\ IsActiveRma(lastWrite.rmas[n])}

Returned(part) == SumFunction([n \in OnTheOrder |-> PartQuantity(part, lastWrite.rmas[n].items)])

Refunded ==
  SumFunction([n \in OnTheOrder |-> RmaRefundCents(lastWrite.rmas[n])])
    + SumFunction([c \in {d \in DOMAIN lastWrite.courtesies : lastWrite.courtesies[d].status \notin {"void", "failed"}} |->
                     lastWrite.courtesies[c].refundAmount])

(* A write that adds to what an order returns and refunds leaves both      *)
(* within what was ordered and paid, counting everything Newegg holds,     *)
(* queued refunds too, and also what its answers hid, cut off or mixed     *)
(* with other orders: unless the desk moved after the first read.          *)
(* Excepted is what the checks take on trust.  The money: a list that was  *)
(* short without a count, a courtesy refund still queued when the refunds  *)
(* were read, and RMAs that hide their type or a shipping refund.  The     *)
(* quantities: a list of RMAs that was short without a count, and RMAs     *)
(* that hide their lines, a part number or a quantity.                     *)
SentWithinOrder ==
  (lastWrite.op \in {"submit", "edit", "refund"} /\ lastWrite.fresh) =>
    /\ (lastWrite.op = "refund" \/ lastWrite.plan.type = "refund")
         /\ lastWrite.missed = {} /\ lastWrite.hidden \cap {"type", "shipping"} = {} => Refunded <= order.total
    /\ /\ lastWrite.op # "refund" /\ "rmas" \notin lastWrite.missed
       /\ lastWrite.hidden \cap {"quantity", "lines", "part"} = {}
       => \A i \in DOMAIN lastWrite.plan.items :
           LET part == lastWrite.plan.items[i].sellerPartNumber IN
           order.items[part].orderedQty # NotRead => Returned(part) <= order.items[part].orderedQty

(* Money that a tool moves is the money its preview showed and within the  *)
(* server's ceiling (service-write.ts:192-259). A receipt releases what    *)
(* the RMA holds by then: there the desk is not to move from the start of  *)
(* the apply, though the second look finds some of its moves, and no       *)
(* active RMA is to hide a field.                                          *)
ReleasesAsPreviewed ==
  (lastWrite.op # "none" /\ lastWrite.tool /\ lastWrite.released > 0) =>
    \/ lastWrite.op = "process" /\ (~lastWrite.fresh \/ lastWrite.hidden # {"nothing"})
    \/ lastWrite.previewed = {lastWrite.released} /\ lastWrite.released <= maxRefundAmount
=============================================================================
