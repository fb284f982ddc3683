------------------------------- MODULE MCDomain -------------------------------
(***************************************************************************)
(* The modules of one call or one start, side by side: each behaviour      *)
(* follows one of them, chosen in the initial state, and leaves the others *)
(* where they are. They share no state, so that this loses nothing.        *)
(***************************************************************************)
EXTENDS Redaction, Startup, SecretStrength, HttpGuard, MCFeedLedger, MCInventoryBatch,
        PriceChanges, RmaWrites, Disclosure, TLC

CONSTANTS Unread, NoOrder

VARIABLE part   \* the module that is followed

-----------------------------------------------------------------------------
(* Redaction: a userinfo with a reserved character, spelled in pieces.     *)
MCPieces ==
  {<<"w", ":", "/", "/", "p">>, <<"@", "N">>, <<"%@", "N">>, <<" ">>, <<"w", ":">>, <<",">>, <<"/">>, <<"@", "h">>}

(* SecretStrength: runs that go up by one and down by two; what `openssl    *)
(* rand -hex 16` prints is no pattern.                                     *)
MCSteps  == {1, -2}
MCBlocks == {SubSeq(Drawn, 1, b) : b \in {1, 5, 12, 13}}

ASSUME DrawsAreAccepted == \A from \in 1 .. 33 : ~Weak(SubSeq(Drawn, from, from + 31))

(* PriceChanges: up to three updates, one blocked or superseded.           *)
Offer(i, c, y, p) == [item |-> i, country |-> c, currency |-> y, price |-> p]

MCPriceUpdates ==
  {Offer("a", "USA", "USD", 110), Offer("a", "USA", "USD", 100), Offer("b", "USA", "USD", 151), Offer("a", "CAN", "USD", 90),
   Offer("a", Unset, Unset, 110), Offer("b", Unset, Unset, 150)}

MCPriceLists ==
  {<<Offer("a", "USA", "USD", 110), Offer("b", "USA", "USD", 151), Offer("a", "USA", "USD", 100)>>,
   <<Offer("b", "USA", "USD", 151), Offer("a", "USA", "USD", 110)>>,
   <<Offer("a", "CAN", "USD", 90), Offer("a", "USA", "USD", 110)>>,
   <<Offer("b", Unset, Unset, 150), Offer("a", Unset, Unset, 110)>>}

ShelfEntry(s, m, c) == [selling |-> s, msrp |-> m, currency |-> c]

MCShelf ==
  (<<"a", "USA">> :> ShelfEntry(100, 200, "USD")) @@ (<<"b", "USA">> :> ShelfEntry(100, Unset, "USD"))
    @@ (<<"a", "CAN">> :> ShelfEntry(90, 0, "CAD")) @@ (<<"a", Unset>> :> ShelfEntry(100, 105, "CAD"))
    @@ (<<"b", Unset>> :> ShelfEntry(100, Unset, "CAD"))

MCShelves ==
  {MCShelf,
   (<<"a", "USA">> :> ShelfEntry(Unset, 200, "USD")) @@ (<<"a", Unset>> :> ShelfEntry(100, Unset, "CAD"))
     @@ (<<"b", Unset>> :> ShelfEntry(80, 149, "CAD"))}

(* Discounts: prices on both sides of a cent, identifiers that meet.       *)
Tier(q, p) == [quantity |-> q, price |-> p, freeShipping |-> FALSE]
Discount(n, s, ts) == [number |-> n, sku |-> s, tiers |-> ts]

MCTiers ==
  {<<Tier(2, p)>> : p \in {4, 5}}
    \cup {<<Tier(2, p), Tier(q, r)>> : p \in {104, 106}, q \in {2, 3}, r \in {96, 104, 105}}

MCDiscounts ==
  {<<Discount(Unset, "k", ts), Discount(n, s, <<Tier(2, 50)>>)>> :
     ts \in MCTiers, n \in {Unset, "N"}, s \in {Unset, "k", "K", "j"}}
  \cup {<<Discount(n, "k", <<Tier(2, 50)>>), Discount(o, "j", <<Tier(2, 50)>>), Discount("m", Unset, <<Tier(2, 50)>>)>> :
          n \in {"N"}, o \in {"n", Unset}}

MCUppercase == [i \in {"k", "K", "j", "N", "n", "m", Unset} |-> CASE i = "k" -> "K" [] i = "n" -> "N" [] OTHER -> i]

(* RmaWrites: an order of two lines, one cancelled, with an RMA of which   *)
(* one field cannot be read, a courtesy refund, or neither.                *)
Line(p, qty, unit, ship) ==
  [sellerPartNumber |-> p, returnQuantity |-> qty, returnUnitPrice |-> unit,
   refundShippingPrice |-> ship, reason |-> "defective", evidence |-> {}]

MCOrder ==
  [status |-> "shipped", salesChannel |-> "newegg", fulfillment |-> "newegg", total |-> 10, shippingAmount |-> 2,
   items |-> [p \in {"a", "b"} |-> [orderedQty |-> 2, unitPrice |-> 4, cancelled |-> p = "b"]]]

MCRma(hides) ==
  [orderNumber |-> "o", type |-> "refund", status |-> "open", hides |-> hides, items |-> <<Line("a", 1, 3, 1)>>]

MCOther ==
  [orderNumber |-> "x", type |-> "replacement", status |-> "open", hides |-> "nothing", items |-> <<Line("a", 2, Unread, Unread)>>]

MCDesks ==
  {[order |-> MCOrder, rmas |-> ("r1" :> MCRma(h)) @@ ("r2" :> MCOther), courtesies |-> <<>>] :
     h \in {"nothing", "quantity", "price", "lines", "part", "shipping", "type", "order", "status"}}
  \cup {[order |-> MCOrder, rmas |-> <<>>, courtesies |-> ("c1" :> [refundAmount |-> 6, status |-> "open", hides |-> h])] :
          h \in BOOLEAN}
  \cup {[order |-> MCOrder, rmas |-> <<>>, courtesies |-> ("c1" :> [refundAmount |-> 6, status |-> "queued", hides |-> FALSE])]}
  \cup {[order |-> o, rmas |-> <<>>, courtesies |-> <<>>] :
          o \in {NoOrder, [MCOrder EXCEPT !.status = "voided"], [MCOrder EXCEPT !.total = Unread],
                 [MCOrder EXCEPT !.items["a"].unitPrice = Unread]}}

MCEvidence ==
  [Line("a", 1, Unread, Unread) EXCEPT !.reason = "unsatisfied", !.evidence = {"unopened", "memo", "imageUrls"}]

MCPlans ==
  {[op |-> "submit", type |-> "refund", items |-> <<Line("a", 1, 4, 1)>>, autoReceive |-> ar] : ar \in BOOLEAN}
  \cup {[op |-> "submit", type |-> "replacement", items |-> <<Line("a", 2, Unread, Unread)>>, autoReceive |-> FALSE],
        [op |-> "submit", type |-> "refund", items |-> <<Line("a", 1, 1, 0), Line("b", 1, 1, 0)>>, autoReceive |-> FALSE],
        [op |-> "edit", rmaNumber |-> "r1", type |-> "refund", items |-> <<Line("a", 2, 4, 0)>>],
        [op |-> "edit", rmaNumber |-> "r2", type |-> "replacement", items |-> <<MCEvidence>>],
        [op |-> "process", rmaNumber |-> "r1"],
        [op |-> "reject", rmaNumber |-> "r1", reason |-> "itemMissing", carrier |-> "ups", evidence |-> {"memo", "imageUrls"}],
        [op |-> "reject", rmaNumber |-> "r1", reason |-> "software", carrier |-> "ups", evidence |-> {}],
        [op |-> "refund", amount |-> 4], [op |-> "refund", amount |-> 9]}

-----------------------------------------------------------------------------
MCParts ==
  {"redaction", "startup", "secret", "guard", "feeds", "inventory", "prices", "priceReads", "discounts", "service", "disclosure"}

(* A module that is not followed starts in one state, whatever it is.      *)
MCInit ==
  /\ part \in MCParts
  /\ RedactionInit /\ StartupInit /\ SecretInit /\ GuardInit /\ FeedInit
  /\ InventoryInit /\ PriceInit /\ ServiceInit /\ DisclosureInit
  /\ part # "inventory" => market = "us"
  /\ part \notin {"prices", "priceReads", "discounts"} => site = "us"
  /\ part \notin {"prices", "priceReads"} => shelf = MCShelf
  /\ part # "service" => rmaSite = "us" /\ order = NoOrder
  /\ part = "service" /\ rmaSite # "us" => \E n \in DOMAIN rmas : n = "r1" /\ rmas[n].hides = "nothing"
  /\ part # "disclosure" => readSite = "us"

Follow(p, Step) == part = p /\ part' = p /\ Step

MCNext ==
  \/ /\ Follow("redaction", RedactionNext)
     /\ UNCHANGED <<startupVars, secretVars, guardVars, feedVars,
                    inventoryVars, priceVars, serviceVars, disclosureVars>>
  \/ /\ Follow("startup", StartupNext)
     /\ UNCHANGED <<redactionVars, secretVars, guardVars, feedVars,
                    inventoryVars, priceVars, serviceVars, disclosureVars>>
  \/ /\ Follow("secret", SecretNext)
     /\ UNCHANGED <<redactionVars, startupVars, guardVars, feedVars,
                    inventoryVars, priceVars, serviceVars, disclosureVars>>
  \/ /\ Follow("guard", GuardNext)
     /\ UNCHANGED <<redactionVars, startupVars, secretVars, feedVars,
                    inventoryVars, priceVars, serviceVars, disclosureVars>>
  \/ /\ Follow("feeds", FeedNext)
     /\ UNCHANGED <<redactionVars, startupVars, secretVars, guardVars,
                    inventoryVars, priceVars, serviceVars, disclosureVars>>
  \/ /\ Follow("inventory", InventoryNext)
     /\ UNCHANGED <<redactionVars, startupVars, secretVars, guardVars, feedVars,
                    priceVars, serviceVars, disclosureVars>>
  \/ /\ Follow("prices", PriceNext) \/ Follow("priceReads", PriceReadNext) \/ Follow("discounts", DiscountNext)
     /\ UNCHANGED <<redactionVars, startupVars, secretVars, guardVars, feedVars,
                    inventoryVars, serviceVars, disclosureVars>>
  \/ /\ Follow("service", ServiceNext)
     /\ UNCHANGED <<redactionVars, startupVars, secretVars, guardVars, feedVars,
                    inventoryVars, priceVars, disclosureVars>>
  \/ /\ Follow("disclosure", DisclosureNext)
     /\ UNCHANGED <<redactionVars, startupVars, secretVars, guardVars, feedVars,
                    inventoryVars, priceVars, serviceVars>>

MCSpec == MCInit /\ [][MCNext]_<<part, redactionVars, startupVars, secretVars, guardVars, feedVars,
                                 inventoryVars, priceVars, serviceVars, disclosureVars>>

=============================================================================
