---------------------------- MODULE PriceChanges ----------------------------
(***************************************************************************)
(* Selling prices and volume discounts: validation and deduplication       *)
(* (pricing/validate.ts), the assessment of every change against the       *)
(* current price (pricing/api.ts), the server's limit on a change          *)
(* (tools/pricing-guards.ts), the sealed preview (tools/preview-hash.ts,   *)
(* tools/preview-apply-core.ts), the second assessment just before the     *)
(* prices are sent (tools/pricing-apply.ts); and the normalisation of      *)
(* discount tiers, which a preview's output goes through again.            *)
(*                                                                         *)
(* How one price write ends is in DirectWrites, the store's bookkeeping in *)
(* PreviewStore. Here the store may hand back a record it has changed, the *)
(* server may have been restarted, and prices move at Newegg meanwhile.    *)
(***************************************************************************)
EXTENDS Integers, FiniteSets, SequencesExt, Places

CONSTANTS
  PriceUpdates,     \* what a caller may list: item, country, currency, price in cents
  PriceLists,       \* lists of them
  Unset,            \* an optional field left out, or a price Newegg does not report
  Shelves,          \* Newegg's prices: rows <<item, country>> to selling, msrp, currency
  PortalPrices,     \* prices the seller may set elsewhere meanwhile
  MaxMoves,         \* how often
  Owners,           \* sessions of the server
  maxPriceChangePercent,
  DiscountLists,    \* lists of discounts: number, sku, tiers in tenths of a cent
  Uppercase,        \* toUpperCase on the identifiers of discounts
  VOLUME_DISCOUNT_FEED_MAX_RECORDS

ASSUME PriceAssumption ==
  /\ Unset \notin Int
  /\ \A u \in PriceUpdates :
       /\ DOMAIN u = {"item", "country", "currency", "price"} /\ u.price \in Nat \ {0}
  /\ \A us \in PriceLists :
       us # <<>> /\ DOMAIN us = 1 .. Len(us) /\ Len(us) \in Nat /\ \A i \in DOMAIN us : us[i] \in PriceUpdates
  /\ \A s \in Shelves : \A r \in DOMAIN s :
       DOMAIN s[r] = {"selling", "msrp", "currency"} /\ {s[r].selling, s[r].msrp} \subseteq Nat \cup {Unset}
  /\ \A ds \in DiscountLists :
       /\ DOMAIN ds = 1 .. Len(ds) /\ Len(ds) \in Nat
       /\ \A i \in DOMAIN ds :
            /\ DOMAIN ds[i].tiers = 1 .. Len(ds[i].tiers) /\ Len(ds[i].tiers) \in Nat
            /\ \A t \in DOMAIN ds[i].tiers : {ds[i].tiers[t].quantity, ds[i].tiers[t].price} \subseteq Int
  /\ PortalPrices \subseteq Nat /\ MaxMoves \in Nat /\ maxPriceChangePercent \in Nat
  /\ VOLUME_DISCOUNT_FEED_MAX_RECORDS \in Nat \ {0}

VARIABLES
  site,       \* the client's marketplace; b2b is like ca
  shelf,      \* the prices at Newegg
  moves,      \* changes made elsewhere so far
  processKey, \* the key this process seals with
  pcall,      \* the call that is followed
  filed,      \* the preview record in the store
  given,      \* what the preview was when it was issued, and to whom
  tooLate,    \* the preview's lifetime is over
  looked,     \* looked[p]: the entries pass p (1 preview, 2 apply) has read
  sentPrices, \* the updates sent to Newegg
  discount,   \* a volume-discount call
  priceRead   \* the answer of the last getMany

priceVars == <<site, shelf, moves, processKey, pcall, filed, given, tooLate, looked, sentPrices,
               discount, priceRead>>

NoCall == [phase |-> "idle"]
NoFile == [kind |-> "none"]
NoDiscount == [phase |-> "idle"]

PriceInit ==
  /\ site \in {"us", "ca"} /\ shelf \in Shelves /\ moves = 0 /\ processKey = 1
  /\ pcall = NoCall /\ filed = NoFile /\ given = NoFile /\ tooLate = FALSE
  /\ looked = [p \in {1, 2} |-> <<>>] /\ sentPrices = {} /\ discount = NoDiscount
  /\ priceRead = [done |-> FALSE]

-----------------------------------------------------------------------------
(* Validation and assessment.                                              *)

Row(u) == <<u.item, u.country>>

(* validatePriceUpdates: country and currency are required for the US and  *)
(* refused elsewhere; everything is refused when one update is bad.        *)
ValidPrices(us) ==
  \A i \in DOMAIN us : IF site = "us" THEN Unset \notin {us[i].country, us[i].currency}
                                         ELSE {us[i].country, us[i].currency} = {Unset}

(* A new object, with the fields that are known and its index. *)
Numbered(us, j) ==
  [item |-> us[j].item, country |-> us[j].country, currency |-> us[j].currency,
   price |-> us[j].price, inputIndex |-> j - 1]

(* dedupePriceUpdates: the last update of a row, in the place of the first,*)
(* with its index in the caller's array.                                   *)
DedupedPrices(us) ==
  LET kept == KeptPlaces([i \in DOMAIN us |-> Row(us[i])]) IN [k \in DOMAIN kept |-> Numbered(us, kept[k])]

(* The change in hundredths of a percent, rounded like Math.round; unknown *)
(* without a current price.                                                *)
ChangePercent(new, current) ==
  IF current = Unset \/ current = 0 THEN Unset
  ELSE (20000 * (new - current) + current) \div (2 * current)

(* #assess: what blocks an update, given the entry that was read.          *)
Blockers(u, entry) ==
  IF DOMAIN entry = {} THEN {"unreadable"}
  ELSE {b \in {"currency", "msrp"} :
         \/ /\ b = "currency" /\ u.currency # Unset /\ entry.currency # u.currency
         \/ /\ b = "msrp" /\ entry.msrp # Unset /\ entry.msrp > 0 /\ u.price > entry.msrp}

(* enforceChangeLimit: fails closed when the change is unknown, and leaves *)
(* a change that is blocked already its own reason.                        *)
LimitBlockers(u, entry) ==
  LET percent == IF DOMAIN entry = {} THEN Unset ELSE ChangePercent(u.price, entry.selling) IN
  IF percent = Unset THEN (IF Blockers(u, entry) = {} THEN {"unknown"} ELSE {})
  ELSE IF percent > 100 * maxPriceChangePercent \/ percent < -100 * maxPriceChangePercent THEN {"limit"}
  ELSE {}

AllBlockers(u, entry) == Blockers(u, entry) \cup LimitBlockers(u, entry)

PreviewedPrice(entry) == IF DOMAIN entry = {} THEN Unset ELSE entry.selling

-----------------------------------------------------------------------------
(* Reading.                                                                *)

(* parsePrice: the rows a response lists. *)
Rows(item) == {r \in DOMAIN shelf : r[1] = item}

(* #read: the rows of an item, on the US marketplace those of the given    *)
(* countries when there are any.                                           *)
RowsOf(item, countries) ==
  {r \in Rows(item) : site = "us" /\ countries # {} => r[2] \in countries}

(* get and getMany: an identifier listed twice is read once; an unknown    *)
(* item is missing, another error of one read is that item's failure, and  *)
(* one that concerns all reads (credentials, budget, abort) is thrown.     *)
GetPrices(items, countries) ==
  /\ ~priceRead.done
  /\ \/ \E failed \in SUBSET ToSet(items) :
          LET missing == {i \in ToSet(items) \ failed : Rows(i) = {}} IN
          priceRead' = [done |-> TRUE, failures |-> failed, missingIdentifiers |-> missing,
                        items |-> [i \in ToSet(items) \ (failed \cup missing) |->
                          [r \in RowsOf(i, countries) |-> shelf[r]]]]
     \/ priceRead' = [done |-> TRUE, failures |-> {"thrown"}]
  /\ UNCHANGED <<site, shelf, moves, processKey, pcall, filed, given, tooLate, looked, sentPrices, discount>>

-----------------------------------------------------------------------------
(* The preview tool.                                                       *)

PreviewPrices(us, o) ==
  /\ pcall.phase = "idle" /\ filed = NoFile /\ given = NoFile
  /\ pcall' = IF ValidPrices(us)
              THEN [phase |-> "assessing", owner |-> o, list |-> us, updates |-> DedupedPrices(us), pass |-> 1]
              ELSE [phase |-> "refused"]
  /\ looked' = [looked EXCEPT ![1] = <<>>]
  /\ UNCHANGED <<site, shelf, moves, processKey, filed, given, tooLate, sentPrices, discount, priceRead>>

Noted(read, k, entry) == [j \in DOMAIN read \cup {k} |-> IF j = k THEN entry ELSE read[j]]

(* #readEntry of one update, in any order: the row, no row (or an error of *)
(* this read alone), or an error that ends the call.                       *)
ReadEntry(k) ==
  LET p == pcall.pass IN
  /\ pcall.phase = "assessing" /\ k \in DOMAIN pcall.updates \ DOMAIN looked[p]
  /\ \/ /\ Row(pcall.updates[k]) \in DOMAIN shelf
        /\ looked' = [looked EXCEPT ![p] = Noted(@, k, shelf[Row(pcall.updates[k])])]
        /\ UNCHANGED pcall
     \/ /\ looked' = [looked EXCEPT ![p] = Noted(@, k, <<>>)]
        /\ UNCHANGED pcall
     \/ /\ pcall' = [phase |-> "refused"] /\ UNCHANGED looked
  /\ UNCHANGED <<site, shelf, moves, processKey, filed, given, tooLate, sentPrices, discount, priceRead>>

(* Mutant: the seal leaves out the session and the expiry. *)
SealOfPayload(key, owner, until, kind, updates, prices) ==
  [key |-> key, kind |-> kind, updates |-> updates, prices |-> prices]

(* hashPricePreview under sealFor: an ideal MAC is its key and its input.  *)
(* A record that lacks a price for an update is sealed with null there.    *)
Seal(key, owner, until, kind, updates, prices) ==
  [key |-> key, owner |-> owner, until |-> until, kind |-> kind, updates |-> updates,
   prices |-> [k \in DOMAIN updates |-> IF k \in DOMAIN prices THEN prices[k] ELSE Unset]]

(* Mutant: the previewed prices of all changes, not of the eligible ones. *)
PricesOfAll(eligible) == [k \in DOMAIN pcall.updates |-> PreviewedPrice(looked[1][k])]

PreviewedPrices(eligible) ==
  [k \in DOMAIN eligible |->
    PreviewedPrice(looked[1][CHOOSE j \in DOMAIN pcall.updates : pcall.updates[j] = eligible[k]])]

(* Blocked updates are reported and not stored.                            *)
EligibleUpdates ==
  AtPlaces(pcall.updates, {k \in DOMAIN pcall.updates : AllBlockers(pcall.updates[k], looked[1][k]) = {}})

FilePreview ==
  /\ pcall.phase = "assessing" /\ pcall.pass = 1 /\ DOMAIN looked[1] = DOMAIN pcall.updates
  /\ LET eligible == EligibleUpdates
         prices   == PreviewedPrices(eligible)
         hash     == Seal(processKey, pcall.owner, "ttl", "priceUpdate", eligible, prices)
     IN IF eligible = <<>>
        THEN UNCHANGED <<filed, given>>
        ELSE /\ filed' = [kind |-> "priceUpdate", owner |-> pcall.owner, until |-> "ttl",
                          updates |-> eligible, prices |-> prices, hash |-> hash]
             /\ given' = [kind |-> "priceUpdate", owner |-> pcall.owner, list |-> pcall.list,
                          entries |-> [k \in DOMAIN eligible |->
                            looked[1][CHOOSE j \in DOMAIN pcall.updates : pcall.updates[j] = eligible[k]]]]
  /\ pcall' = NoCall
  /\ UNCHANGED <<site, shelf, moves, processKey, tooLate, looked, sentPrices, discount, priceRead>>

-----------------------------------------------------------------------------
(* The apply tool.                                                         *)

(* previewHashMatches of what the store handed back.                       *)
SealHolds(r) == r.hash = Seal(processKey, r.owner, r.until, r.kind, r.updates, r.prices)

(* consumeTypedPreview, then the second assessment. The preview is gone in *)
(* every case; a record another tool made has another kind.                *)
ApplyPrices(o, kind) ==
  /\ pcall.phase = "idle" /\ filed # NoFile
  /\ filed' = NoFile
  /\ pcall' = IF /\ ~(tooLate /\ filed.until = "ttl") /\ filed.owner = o
                 /\ filed.kind = kind /\ SealHolds(filed) /\ kind = "priceUpdate"
              THEN [phase |-> "assessing", owner |-> o, pass |-> 2, record |-> filed,
                    updates |-> DedupedPrices(filed.updates), late |-> tooLate]
              ELSE [phase |-> "refused"]
  /\ UNCHANGED <<site, shelf, moves, processKey, given, tooLate, looked, sentPrices, discount, priceRead>>

(* What stops an apply: a blocker, or a price other than the previewed one *)
(* (in whole cents; two unknown prices are the same).                      *)
Problem(k) ==
  \/ AllBlockers(pcall.updates[k], looked[2][k]) # {}
  \/ (IF k \in DOMAIN pcall.record.prices THEN pcall.record.prices[k] ELSE Unset)
       # PreviewedPrice(looked[2][k])

DecideApply ==
  /\ pcall.phase = "assessing" /\ pcall.pass = 2 /\ DOMAIN looked[2] = DOMAIN pcall.updates
  /\ pcall' = IF Len(pcall.updates) # Len(pcall.record.updates) \/ \E k \in DOMAIN pcall.updates : Problem(k)
              THEN [phase |-> "refused"]
              ELSE [pcall EXCEPT !.phase = "sending"]
  /\ UNCHANGED <<site, shelf, moves, processKey, filed, given, tooLate, looked, sentPrices, discount, priceRead>>

(* update: one request for each, applied by Newegg or not; an item that is *)
(* not active keeps its price.                                             *)
SendPrice(k) ==
  /\ pcall.phase = "sending" /\ k \in DOMAIN pcall.updates
  /\ ~ \E s \in sentPrices : s.place = k
  /\ sentPrices' = sentPrices \cup
       {[place |-> k, row |-> Row(pcall.updates[k]), price |-> pcall.updates[k].price,
         owner |-> pcall.owner, late |-> pcall.late]}
  /\ \/ /\ Row(pcall.updates[k]) \in DOMAIN shelf
        /\ shelf' = [shelf EXCEPT ![Row(pcall.updates[k])].selling = pcall.updates[k].price]
     \/ UNCHANGED shelf
  /\ UNCHANGED <<site, moves, processKey, pcall, filed, given, tooLate, looked, discount, priceRead>>

PricesSent ==
  /\ pcall.phase = "sending" /\ {s.place : s \in sentPrices} = DOMAIN pcall.updates
  /\ pcall' = [phase |-> "done"]
  /\ UNCHANGED <<site, shelf, moves, processKey, filed, given, tooLate, looked, sentPrices, discount, priceRead>>

-----------------------------------------------------------------------------
(* What happens meanwhile.                                                 *)

(* A price moves at Newegg: the Seller Portal, another client.             *)
PriceMoves(r, p) ==
  /\ moves < MaxMoves /\ r \in DOMAIN shelf /\ shelf[r].selling # p
  /\ shelf' = [shelf EXCEPT ![r].selling = p] /\ moves' = moves + 1
  /\ UNCHANGED <<site, processKey, pcall, filed, given, tooLate, looked, sentPrices, discount, priceRead>>

(* A persistent or shared store hands back a record with a field changed,  *)
(* but no store can recompute the hash.                                    *)
StoreAlters ==
  /\ pcall.phase = "idle" /\ filed # NoFile /\ SealHolds(filed)
  /\ \/ \E o \in Owners : filed' = [filed EXCEPT !.owner = o]
     \/ filed' = [filed EXCEPT !.until = "longer"]
     \/ filed' = [filed EXCEPT !.kind = "inventoryUpdate"]
     \/ \E p \in PortalPrices :
          \/ filed' = [filed EXCEPT !.prices = [@ EXCEPT ![1] = p]]
          \/ filed' = [filed EXCEPT !.updates = [@ EXCEPT ![1].price = p]]
     \/ filed' = [filed EXCEPT !.prices = <<>>]
  /\ UNCHANGED <<site, shelf, moves, processKey, pcall, given, tooLate, looked, sentPrices, discount, priceRead>>

(* A restart of a server without a configured key: the seals of the new    *)
(* process have another random one.                                        *)
RestartServer ==
  /\ pcall.phase = "idle" /\ processKey = 1 /\ processKey' = 2
  /\ UNCHANGED <<site, shelf, moves, pcall, filed, given, tooLate, looked, sentPrices, discount, priceRead>>

LifetimeEnds ==
  /\ filed # NoFile /\ ~tooLate /\ tooLate' = TRUE
  /\ UNCHANGED <<site, shelf, moves, processKey, pcall, filed, given, looked, sentPrices, discount, priceRead>>

-----------------------------------------------------------------------------
(* Volume discounts. Prices are in tenths of a cent as the caller gives    *)
(* them, and in whole cents once they are rounded.                         *)

RoundToCent(p) == 10 * ((p + 5) \div 10)

DiscountKeys(d) == {<<f, Uppercase[d[f]]>> : f \in {g \in {"number", "sku"} : d[g] # Unset}}

(* Mutant: the tiers are compared before they are rounded. *)
DescendingUnrounded(higher, lower) == lower.price < higher.price

Descending(higher, lower) == RoundToCent(lower.price) < RoundToCent(higher.price)

(* updatesSchema and the checks across tiers and items.                    *)
ValidDiscounts(ds) ==
  /\ ds # <<>>
  /\ \A i \in DOMAIN ds :
       /\ DiscountKeys(ds[i]) # {} /\ Len(ds[i].tiers) \in 1 .. 3
       /\ \A t \in DOMAIN ds[i].tiers :
            /\ ds[i].tiers[t].quantity >= 2 /\ RoundToCent(ds[i].tiers[t].price) > 0
            /\ t > 1 => /\ ds[i].tiers[t - 1].quantity < ds[i].tiers[t].quantity
                        /\ Descending(ds[i].tiers[t - 1], ds[i].tiers[t])
       /\ \A j \in DOMAIN ds \ {i} : DiscountKeys(ds[i]) \cap DiscountKeys(ds[j]) = {}

(* stripNormalizedFields and normalizeVolumeDiscountUpdates: what an       *)
(* earlier preview added is dropped and derived anew.                      *)
NormalizedDiscounts(ds) ==
  [i \in DOMAIN ds |->
    [number |-> ds[i].number, sku |-> ds[i].sku, inputIndex |-> i - 1,
     tiers |-> [t \in DOMAIN ds[i].tiers |->
       [priority |-> t, quantity |-> ds[i].tiers[t].quantity,
        price |-> RoundToCent(ds[i].tiers[t].price), freeShipping |-> ds[i].tiers[t].freeShipping]]]]

(* chunk and buildVolumeDiscountEnvelope: the money of a tier in the feed. *)
Envelopes(items) ==
  LET n == VOLUME_DISCOUNT_FEED_MAX_RECORDS
      line(d) == [number |-> d.number, sku |-> d.sku,
                  tiers |-> [t \in DOMAIN d.tiers |-> [d.tiers[t] EXCEPT !.price = RoundToCent(@)]]]
  IN [c \in 1 .. (Len(items) + n - 1) \div n |->
       [k \in 1 .. (IF c * n <= Len(items) THEN n ELSE Len(items) - (c - 1) * n) |->
         line(items[(c - 1) * n + k])]]

DiscountWriteSupported == site = "ca"

PreviewDiscount(ds) ==
  /\ discount.phase = "idle"
  /\ discount' = IF DiscountWriteSupported /\ ValidDiscounts(ds)
                 THEN [phase |-> "previewed", items |-> NormalizedDiscounts(ds),
                       envelopes |-> Envelopes(NormalizedDiscounts(ds)), submitted |-> <<>>, assigned |-> {}]
                 ELSE [phase |-> "refused"]
  /\ UNCHANGED <<site, shelf, moves, processKey, pcall, filed, given, tooLate, looked, sentPrices, priceRead>>

ApplyDiscount ==
  /\ discount.phase = "previewed"
  /\ discount' = [discount EXCEPT !.phase = IF ValidDiscounts(discount.items) THEN "submitting" ELSE "failed"]
  /\ UNCHANGED <<site, shelf, moves, processKey, pcall, filed, given, tooLate, looked, sentPrices, priceRead>>

(* One chunk is submitted through the feed ledger, or submission stops.    *)
SubmitDiscountChunk ==
  LET items  == NormalizedDiscounts(discount.items)
      chunks == Envelopes(items)
      c      == Len(discount.submitted) + 1
      n      == VOLUME_DISCOUNT_FEED_MAX_RECORDS
  IN
  /\ discount.phase = "submitting"
  /\ \/ /\ discount' = [discount EXCEPT !.submitted = Append(@, chunks[c]),
             !.assigned = @ \cup {<<items[(c - 1) * n + k].inputIndex, c>> : k \in DOMAIN chunks[c]},
             !.phase = IF c = Len(chunks) THEN "applied" ELSE @]
     \/ discount' = [discount EXCEPT !.phase = "stopped"]
  /\ UNCHANGED <<site, shelf, moves, processKey, pcall, filed, given, tooLate, looked, sentPrices, priceRead>>

PriceNext ==
  \/ \E us \in PriceLists, o \in Owners : PreviewPrices(us, o)
  \/ \E k \in 1 .. 3 : ReadEntry(k) \/ SendPrice(k)
  \/ FilePreview \/ DecideApply \/ PricesSent
  \/ \E o \in Owners, kind \in {"priceUpdate", "inventoryUpdate"} : ApplyPrices(o, kind)
  \/ \E r \in DOMAIN shelf, p \in PortalPrices : PriceMoves(r, p)
  \/ StoreAlters \/ RestartServer \/ LifetimeEnds

PriceReadNext ==
  \E us \in PriceLists : GetPrices([i \in DOMAIN us |-> us[i].item], {us[1].country} \ {Unset})

DiscountNext ==
  \/ \E ds \in DiscountLists : PreviewDiscount(ds)
  \/ ApplyDiscount \/ SubmitDiscountChunk

PriceSpec == PriceInit /\ [][PriceNext \/ PriceReadNext \/ DiscountNext]_priceVars

-----------------------------------------------------------------------------
(* Properties.                                                             *)

(* Whatever the store did and however prices moved, a price that is sent   *)
(* is the caller's last one for that row, the row showed the same known    *)
(* price when it was previewed and when it was applied, and the change     *)
(* from it keeps to the server's limit (half a hundredth of a percent of   *)
(* rounding aside) and to the MSRP read at both times. And only the        *)
(* session that was shown a preview can have it applied, within its        *)
(* lifetime, also after a store has refiled the record or extended its     *)
(* life (tools/pricing.ts, tools/apply-common.ts).                         *)
AppliedAsReviewed ==
  \A s \in sentPrices :
    LET before == given.entries[s.place]
        now    == looked[2][s.place]
        wanted == given.list[CHOOSE i \in DOMAIN given.list :
                    /\ Row(given.list[i]) = s.row
                    /\ \A j \in DOMAIN given.list : Row(given.list[j]) = s.row => j <= i]
        off    == IF s.price > before.selling THEN s.price - before.selling ELSE before.selling - s.price
    IN /\ s.price = wanted.price
       /\ before.selling # Unset /\ before.selling = now.selling
       /\ 20000 * off <= (200 * maxPriceChangePercent + 1) * before.selling
       /\ \A e \in {before, now} : e.msrp # Unset /\ e.msrp > 0 => s.price <= e.msrp
       /\ s.owner = given.owner /\ ~s.late

(* What a discount preview showed is what the apply submits, chunk by      *)
(* chunk and item by item: the second normalisation refuses nothing the    *)
(* first accepted and changes nothing.                                     *)
DiscountAsPreviewed ==
  discount.phase \notin {"idle", "refused"} =>
    /\ discount.phase # "failed"
    /\ IsPrefix(discount.submitted, discount.envelopes)
    /\ discount.phase = "applied" =>
         /\ discount.submitted = discount.envelopes
         /\ {a[1] : a \in discount.assigned} = 0 .. Len(discount.items) - 1
=============================================================================
