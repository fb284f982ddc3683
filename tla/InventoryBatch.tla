--------------------------- MODULE InventoryBatch ---------------------------
(***************************************************************************)
(* A batch of inventory updates on its way through the SDK: validation,    *)
(* deduplication, the choice between direct requests and feeds            *)
(* (inventory/strategy.ts), the direct requests with their workers, the    *)
(* feed chunks with their assignments, waiting and folding (inventory/     *)
(* api.ts, feeds/api.ts), and the preview and apply tools of the MCP       *)
(* server in front of it. One call is followed from its preview on.        *)
(*                                                                         *)
(* Retries and late applications of one request are in DirectWrites, the   *)
(* ledger of a chunk in FeedLedger, the store of previews in PreviewStore; *)
(* here a request ends once, applied or not.                               *)
(***************************************************************************)
EXTENDS Integers, FiniteSets, SequencesExt, Places

CONSTANTS
  Updates,            \* the updates a caller may list
  MaxUpdates,         \* how many of them
  None,               \* an optional field left out
  Catalogue,          \* the seller's items at Newegg: their number, sellerPartNumber, upc
  maxQuantity, autoFeedThreshold, DEFAULT_DIRECT_CONCURRENCY,
  INVENTORY_FEED_MAX_RECORDS, GET_BATCH_INVENTORY_MAX_VALUES,
  allowZeroQuantity, allowedWarehouses    \* limits of the server

ASSUME InventoryAssumption ==
  /\ \A u \in Updates :
       /\ DOMAIN u = {"type", "value", "condition", "warehouse", "quantity"}
       /\ u.type \in {"sellerPartNumber", "neweggItemNumber", "upc"} /\ u.quantity \in Nat
  /\ {MaxUpdates, maxQuantity, autoFeedThreshold} \subseteq Nat
  /\ {DEFAULT_DIRECT_CONCURRENCY, INVENTORY_FEED_MAX_RECORDS,
      GET_BATCH_INVENTORY_MAX_VALUES} \subseteq Nat \ {0}
  /\ allowZeroQuantity \in BOOLEAN

VARIABLES
  market,     \* the client's marketplace; b2b is like ca
  icall,      \* the call that is followed
  ipreview,   \* the preview it was made from
  stock,      \* what Newegg holds, where something was written
  ignored,    \* where it disregarded a write it accepted: the item is deactivated
  written,    \* <<destination, quantity>> of every write that left
  inFlight,   \* direct tasks whose answer is out
  jobs,       \* feeds at Newegg
  iread       \* the batch read that was made: asked, returned, missing

inventoryVars == <<market, icall, ipreview, stock, ignored, written, inFlight, jobs, iread>>

Idle == [phase |-> "idle"]
NoPreview == [resolved |-> "none"]
NoRead == [done |-> FALSE]

InventoryInit ==
  /\ market \in {"us", "ca"}
  /\ icall = Idle /\ ipreview = NoPreview /\ iread = NoRead
  /\ stock = <<>> /\ ignored = {} /\ written = {} /\ inFlight = {} /\ jobs = <<>>

-----------------------------------------------------------------------------
(* Validation, deduplication and strategy.                                 *)

(* validateInventoryUpdates: everything is refused when one update is bad. *)
ValidUpdates(us) ==
  \A i \in DOMAIN us : us[i].quantity <= maxQuantity /\ (market = "us" => us[i].warehouse # None)

(* The updates with their index in the caller's array; an index they came  *)
(* with is dropped.                                                        *)
Normalized(us) ==
  [i \in DOMAIN us |-> [type |-> us[i].type, value |-> us[i].value, condition |-> us[i].condition,
                        warehouse |-> us[i].warehouse, quantity |-> us[i].quantity,
                        inputIndex |-> i - 1]]

DedupKey(u) == <<u.type, u.value, u.warehouse>>

(* dedupeUpdates: the last update of a key, in the place of the first.     *)
Deduped(us) ==
  LET kept == KeptPlaces([i \in DOMAIN us |-> DedupKey(us[i])]) IN [k \in DOMAIN kept |-> us[kept[k]]]

(* Its report: every index it left out. *)
Dropped(us, kept) == {us[i].inputIndex : i \in DOMAIN us} \ {kept[k].inputIndex : k \in DOMAIN kept}

IsSellerPartNumber(u) == u.type = "sellerPartNumber"
FeedChunkCount(n) == (n + INVENTORY_FEED_MAX_RECORDS - 1) \div INVENTORY_FEED_MAX_RECORDS

(* decideStrategy: a list up to the threshold, and whatever has no seller  *)
(* part number, goes directly, the rest in feeds.                          *)
Decision(kept, strategy) ==
  LET fed   == {k \in DOMAIN kept : IsSellerPartNumber(kept[k])}
      other == DOMAIN kept \ fed
      plan(r, d, f) == [updates |-> kept, resolved |-> r, direct |-> d, feed |-> f,
                        plannedFeedCount |-> FeedChunkCount(Len(f))]
  IN IF strategy = "feed" /\ other # {} THEN plan("refused", <<>>, <<>>)
     ELSE IF strategy = "feed" THEN plan("feed", <<>>, kept)
     ELSE IF strategy = "direct" \/ Len(kept) <= autoFeedThreshold THEN plan("direct", kept, <<>>)
     ELSE plan(IF fed = {} THEN "direct" ELSE IF other = {} THEN "feed" ELSE "mixed",
               AtPlaces(kept, other), AtPlaces(kept, fed))

(* What previewUpdate and #executeUpdate plan for the same updates. *)
Planned(us, strategy) == Decision(Deduped(Normalized(us)), strategy)

-----------------------------------------------------------------------------
(* Requests.                                                               *)

(* chunk of util.ts: pieces of at most n. *)
Cut(s, n) ==
  [c \in 1 .. (Len(s) + n - 1) \div n |->
    [k \in 1 .. (IF c * n < Len(s) THEN n ELSE Len(s) - (c - 1) * n) |-> s[(c - 1) * n + k]]]

FeedChunks(us) == Cut(us, INVENTORY_FEED_MAX_RECORDS)

(* Where a quantity is kept: the US requests name condition and warehouse, *)
(* those of B2B and Canada, and their feeds, know the item alone.          *)
Destination(u) ==
  IF market = "us" THEN <<u.type, u.value, IF u.type = "upc" THEN u.condition ELSE None, u.warehouse>>
                   ELSE <<u.type, u.value>>

(* #runDirect: on the US marketplace the updates of one item share a       *)
(* request with an entry for each warehouse.                               *)
DirectTasks(us) ==
  LET keys  == [i \in DOMAIN us |-> <<us[i].type, us[i].value, IF us[i].type = "upc" THEN us[i].condition ELSE None>>]
      first == FirstPlaces(keys)
  IN IF market = "us"
     THEN [t \in 1 .. Cardinality(first) |->
            AtPlaces(us, {i \in DOMAIN us : keys[i] = keys[InOrder(first)[t]]})]
     ELSE [t \in DOMAIN us |-> <<us[t]>>]

(* directUpdateRequest: every entry for the US, the first one elsewhere. *)
DirectRequest(members) ==
  [k \in 1 .. (IF market = "us" THEN Len(members) ELSE 1) |->
    <<Destination(members[k]), members[k].quantity>>]

FeedLines(us) == [k \in DOMAIN us |-> <<Destination(us[k]), us[k].quantity>>]

(* Newegg after the lines of a request or feed were taken in their order:  *)
(* the last for a destination stands.                                      *)
Stored(lines) ==
  LET places == [k \in DOMAIN lines |-> lines[k][1]] IN
  [d \in DOMAIN stock \cup Range(places) |->
    IF d \in Range(places) THEN lines[LastPlace(places, d)][2] ELSE stock[d]]

(* Mutant: an item is assigned by its place in the chunk. *)
AssignmentsInChunk(us) ==
  LET chunks == FeedChunks(us) IN
  {[inputIndex |-> k - 1, chunk |-> c] : c \in DOMAIN chunks, k \in 1 .. INVENTORY_FEED_MAX_RECORDS}
    \cap [inputIndex : 0 .. Len(us) - 1, chunk : DOMAIN chunks]

(* itemAssignments of submitInventoryFeed: the updates are numbered anew,  *)
(* in the list the feed was given.                                         *)
Assignments(us) ==
  LET chunks == FeedChunks(Normalized(us)) IN
  UNION {{[inputIndex |-> chunks[c][k].inputIndex, chunk |-> c] : k \in DOMAIN chunks[c]}
         : c \in DOMAIN chunks}

(* The items #runFeed finds for a job again. *)
ItemsOf(us, c) == {us[a.inputIndex + 1] : a \in {b \in Assignments(us) : b.chunk = c}}

-----------------------------------------------------------------------------
(* The results of a feed.                                                  *)

(* recordStatus: an error message fails the record, any other warns.       *)
RecordStatus(messages) ==
  IF "Error" \in messages THEN "failed" ELSE IF messages # {} THEN "warning" ELSE "unknown"

(* Mutant: a record without a warehouse is about no item. *)
AboutItsWarehouse(r, u) == u.value = r.sellerPartNumber /\ (market = "us" => u.warehouse = r.warehouse)

(* Whether a record is about an item; it may come without a warehouse.     *)
About(r, u) ==
  /\ u.value = r.sellerPartNumber
  /\ market = "us" /\ r.warehouse # None => u.warehouse = r.warehouse

(* #foldFeedResult: succeeded, unless a record says something else; the    *)
(* last one counts.                                                        *)
FoldedResult(u, records) ==
  LET about == [k \in DOMAIN records |-> About(records[k], u)]
  IN IF TRUE \notin Range(about) THEN "succeeded" ELSE RecordStatus(records[LastPlace(about, TRUE)].messages)

Outcome(u, status) == [inputIndex |-> u.inputIndex, destination |-> Destination(u),
                       quantity |-> u.quantity, status |-> status]

-----------------------------------------------------------------------------
(* The batch read.                                                         *)

(* getMany: the identifiers grouped by type and cut into requests.         *)
ReadRequests(ids) ==
  LET of(t) == SelectSeq(ids, LAMBDA i : i.type = t)
      cut(s) == Cut(s, GET_BATCH_INVENTORY_MAX_VALUES)
  IN cut(of("neweggItemNumber")) \o cut(of("sellerPartNumber")) \o cut(of("upc"))

IsNamedBy(item, id) ==
  CASE id.type = "neweggItemNumber" -> item.number = id.value
    [] id.type = "sellerPartNumber" -> item.sellerPartNumber = id.value
    [] id.type = "upc"              -> item.upc = id.value

(* parseUsItem, parseFlatItem: an answer has a number and a seller part    *)
(* number; neither of them fills in the upc.                               *)
ParsedItem(item) == [number |-> item.number, sellerPartNumber |-> item.sellerPartNumber, upc |-> None]

(* itemMatchesIdentifier. *)
ItemMatchesIdentifier(item, id) ==
  \/ id.type = "neweggItemNumber" /\ item.number = id.value
  \/ id.type = "sellerPartNumber" /\ item.sellerPartNumber = id.value
  \/ /\ id.type = "upc"
     /\ IF item.upc # None THEN item.upc = id.value ELSE id.value \in {item.number, item.sellerPartNumber}

(* What a read of the identifiers reports. *)
ReadBack(ids) ==
  LET requests == ReadRequests(ids)
      returned == {item \in Catalogue : \E q \in DOMAIN requests, k \in 1 .. GET_BATCH_INVENTORY_MAX_VALUES :
                                          k \in DOMAIN requests[q] /\ IsNamedBy(item, requests[q][k])}
  IN [done |-> TRUE, ids |-> ToSet(ids), returned |-> returned,
      missing |-> {id \in ToSet(ids) : ~\E item \in returned : ItemMatchesIdentifier(ParsedItem(item), id)}]

DistinctIdentifiers(us) ==
  LET id(i) == [type |-> us[i].type, value |-> us[i].value]
      first(i) == \A j \in 1 .. i - 1 : id(j) # id(i)
      order == SelectSeq([i \in DOMAIN us |-> i], first)
  IN [k \in DOMAIN order |-> id(order[k])]

-----------------------------------------------------------------------------
(* The tools and the calls.                                                *)

(* The tool's own policies, before the SDK is asked.                       *)
PolicyAllows(us) ==
  \A i \in DOMAIN us :
    /\ allowZeroQuantity \/ us[i].quantity > 0
    /\ allowedWarehouses = {} \/ us[i].warehouse \in allowedWarehouses \cup {None}

(* newegg_inventory_preview_update: what is kept is the deduplicated list  *)
(* and the strategy that was asked for, what is shown is the plan. With    *)
(* includeCurrentInventory the items are read first, and a read that fails *)
(* is the end of it.                                                       *)
PreviewInventory(us, strategy) ==
  /\ icall = Idle /\ ipreview = NoPreview
  /\ LET plan == Planned(us, strategy) IN
     /\ PolicyAllows(us) /\ ValidUpdates(us) /\ plan.resolved # "refused"
     /\ ipreview' = [resolved |-> plan.resolved, plannedFeedCount |-> plan.plannedFeedCount,
                     strategy |-> strategy, updates |-> plan.updates]
     /\ \/ iread' = ReadBack(DistinctIdentifiers(plan.updates))
        \/ UNCHANGED iread
  /\ UNCHANGED <<market, icall, stock, ignored, written, inFlight, jobs>>

(* #executeUpdate up to its first request: everything is validated and     *)
(* planned before anything is sent.                                        *)
ExecuteUpdate(us, strategy, via, wait, workers) ==
  LET plan == Planned(us, strategy) IN
  IF ~ValidUpdates(us) \/ plan.resolved = "refused"
  THEN icall' = [phase |-> "thrown", via |-> via]
  ELSE icall' = [phase |-> "direct", via |-> via, wait |-> wait, workers |-> workers,
                 count |-> Len(us), resolved |-> plan.resolved,
                 dropped |-> Dropped(Normalized(us), plan.updates),
                 tasks |-> DirectTasks(plan.direct), next |-> 1,
                 feed |-> plan.feed, outcomes |-> {}]

(* Mutant: the strategy is chosen anew when the preview is applied. *)
ApplyAnew ==
  /\ icall = Idle /\ ipreview # NoPreview
  /\ ExecuteUpdate(ipreview.updates, "auto", "tool", FALSE, DEFAULT_DIRECT_CONCURRENCY)
  /\ UNCHANGED <<market, ipreview, stock, ignored, written, inFlight, jobs, iread>>

(* newegg_inventory_apply_update: what was stored, as it was stored.       *)
ApplyInventory ==
  /\ icall = Idle /\ ipreview # NoPreview
  /\ ExecuteUpdate(ipreview.updates, ipreview.strategy, "tool", FALSE, DEFAULT_DIRECT_CONCURRENCY)
  /\ UNCHANGED <<market, ipreview, stock, ignored, written, inFlight, jobs, iread>>

(* updateMany, called by a program; updateItem is one update, directly.    *)
UpdateMany(us, strategy, wait) ==
  /\ icall = Idle /\ ipreview = NoPreview
  /\ \/ ExecuteUpdate(us, strategy, "sdk", wait, DEFAULT_DIRECT_CONCURRENCY)
     \/ /\ Len(us) = 1 /\ strategy = "direct"
        /\ ExecuteUpdate(us, strategy, "sdk", FALSE, 1)
  /\ UNCHANGED <<market, ipreview, stock, ignored, written, inFlight, jobs, iread>>

(* A batch read by a program.                                              *)
GetMany(ids) ==
  /\ icall = Idle /\ ipreview = NoPreview /\ iread = NoRead
  /\ iread' = ReadBack(ids)
  /\ UNCHANGED <<market, icall, ipreview, stock, ignored, written, inFlight, jobs>>

(* A worker of mapWithConcurrency takes the next task and sends it.        *)
SendDirect ==
  /\ icall.phase = "direct" /\ icall.next <= Len(icall.tasks)
  /\ Cardinality(inFlight) < icall.workers
  /\ inFlight' = inFlight \cup {icall.next}
  /\ written' = written \cup Range(DirectRequest(icall.tasks[icall.next]))
  /\ icall' = [icall EXCEPT !.next = @ + 1]
  /\ UNCHANGED <<market, ipreview, stock, ignored, jobs, iread>>

(* Its request comes to an end: applied and confirmed, or failed, applied  *)
(* or not, or, for an item that is deactivated, confirmed and disregarded. *)
(* All its updates share the outcome.                                      *)
DirectEnds(t) ==
  /\ icall.phase = "direct" /\ t \in inFlight
  /\ inFlight' = inFlight \ {t}
  /\ \E status \in {"succeeded", "failed"} :
       /\ \/ stock' = Stored(DirectRequest(icall.tasks[t])) /\ UNCHANGED ignored
          \/ status = "failed" /\ UNCHANGED <<stock, ignored>>
          \/ /\ status = "succeeded" /\ UNCHANGED stock
             /\ ignored' = ignored \cup {l[1] : l \in Range(DirectRequest(icall.tasks[t]))}
       /\ icall' = [icall EXCEPT !.outcomes =
            @ \cup {Outcome(u, status) : u \in Range(icall.tasks[t])}]
  /\ UNCHANGED <<market, ipreview, written, jobs, iread>>

(* The caller's abort is the one failure that is not an outcome.           *)
AbortUpdate ==
  /\ icall.phase = "direct" /\ inFlight # {}
  /\ icall' = [phase |-> "thrown", via |-> icall.via] /\ inFlight' = {}
  /\ UNCHANGED <<market, ipreview, stock, ignored, written, jobs, iread>>

DirectIsDone == icall.phase = "direct" /\ icall.next > Len(icall.tasks) /\ inFlight = {}

(* submitInventoryFeed, one chunk: it is taken, or the call throws with    *)
(* whatever was sent before. After the last one every item is submitted.   *)
SubmitChunk ==
  /\ DirectIsDone /\ Len(jobs) < Len(FeedChunks(icall.feed))
  /\ LET lines == FeedLines(FeedChunks(icall.feed)[Len(jobs) + 1])
         all   == Len(jobs) + 1 = Len(FeedChunks(icall.feed))
         items == {icall.feed[a.inputIndex + 1] : a \in Assignments(icall.feed)}
     IN /\ written' = written \cup Range(lines)
        /\ \/ /\ jobs' = Append(jobs, [status |-> "SUBMITTED", lines |-> lines, records |-> <<>>])
              /\ icall' = IF ~all THEN icall
                          ELSE [icall EXCEPT
                            !.outcomes = @ \cup {Outcome(u, "submitted") : u \in items},
                            !.next = 1, !.tasks = <<>>,
                            !.phase = IF icall.wait THEN "wait" ELSE "done"]
           \/ /\ icall' = [phase |-> "thrown", via |-> icall.via]
              /\ UNCHANGED jobs
  /\ UNCHANGED <<market, ipreview, stock, ignored, inFlight, iread>>

(* Newegg works through a feed, or drops it. A line that fails, or warns,  *)
(* has a record, which names the item and may leave the warehouse out. The *)
(* lines of the items off, which are deactivated, are disregarded.         *)
ProcessFeed(j) ==
  /\ jobs[j].status = "SUBMITTED"
  /\ LET lines == jobs[j].lines IN
     \/ \E said \in [DOMAIN lines -> {{}, {"Error"}, {"Note"}}] :
          \E named \in BOOLEAN, off \in SUBSET {lines[k][1][2] : k \in DOMAIN lines} :
            LET taken == {k \in DOMAIN lines : "Error" \notin said[k]}
                live  == {k \in taken : lines[k][1][2] \notin off}
                record(k) == [sellerPartNumber |-> lines[k][1][2], messages |-> said[k],
                              warehouse |-> IF named /\ market = "us" THEN lines[k][1][4] ELSE None]
            IN /\ stock' = Stored(AtPlaces(lines, live))
               /\ ignored' = ignored \cup {lines[k][1] : k \in taken \ live}
               /\ jobs' = [jobs EXCEPT ![j] =
                    [status |-> "FINISHED", lines |-> lines,
                     records |-> AtPlaces([k \in DOMAIN lines |-> record(k)], {k \in DOMAIN lines : said[k] # {}})]]
     \/ /\ jobs' = [jobs EXCEPT ![j].status = "CANCELLED"]
        /\ UNCHANGED <<stock, ignored>>
  /\ UNCHANGED <<market, icall, ipreview, written, inFlight, iread>>

(* getStatus: a job the answer does not list is of unknown status.         *)
SeenStatus(c) == {jobs[c].status, "UNKNOWN"}

(* getResult, where the answer holds a report.                             *)
FeedResult(c) == jobs[c].records

(* waitForResult for the next job, and what #runFeed makes of it: the      *)
(* result is folded, a cancelled feed has failed, and one that is not done *)
(* in time stays submitted. A status or result that cannot be read throws. *)
WaitForResult ==
  /\ icall.phase = "wait"
  /\ LET c     == icall.next
         items == ItemsOf(icall.feed, c)
     IN \E seen \in SeenStatus(c) :
          LET status(u) == IF seen = "FINISHED" THEN FoldedResult(u, FeedResult(c))
                           ELSE IF seen = "CANCELLED" THEN "failed" ELSE "submitted"
              untouched == {o \in icall.outcomes : ~\E u \in items : u.inputIndex = o.inputIndex}
          IN \/ icall' = [icall EXCEPT !.outcomes = untouched \cup {Outcome(u, status(u)) : u \in items},
                                       !.next = c + 1, !.phase = IF c = Len(jobs) THEN "done" ELSE "wait"]
             \/ icall' = [phase |-> "thrown", via |-> icall.via]
  /\ UNCHANGED <<market, ipreview, stock, ignored, written, inFlight, jobs, iread>>

(* The call returns when nothing went to a feed. *)
Answer ==
  /\ DirectIsDone /\ icall.feed = <<>>
  /\ icall' = [icall EXCEPT !.phase = "done"]
  /\ UNCHANGED <<market, ipreview, stock, ignored, written, inFlight, jobs, iread>>

Lists == UNION {[1 .. n -> Updates] : n \in 1 .. MaxUpdates}

InventoryNext ==
  \/ icall = Idle /\ \E us \in Lists, strategy \in {"direct", "feed", "auto"} :
       \/ PreviewInventory(us, strategy)
       \/ \E wait \in BOOLEAN : UpdateMany(us, strategy, wait)
  \/ icall = Idle /\ \E us \in Lists : GetMany(DistinctIdentifiers(us))
  \/ ApplyInventory \/ SendDirect \/ AbortUpdate \/ SubmitChunk \/ WaitForResult \/ Answer
  \/ \E t \in inFlight : DirectEnds(t)
  \/ \E j \in DOMAIN jobs : ProcessFeed(j)

InventorySpec == InventoryInit /\ [][InventoryNext]_inventoryVars

-----------------------------------------------------------------------------
Finished == icall.phase = "done"

(* No two updates left a destination with two quantities.                  *)
Settled(d) == Cardinality({l \in written : l[1] = d}) = 1

(* A feed's report on an item where a line failed and a later one, which   *)
(* does not say of which warehouse, warned.                                *)
WarnedOver(records, item) ==
  \E k, l \in DOMAIN records :
    /\ k < l /\ {records[k].sellerPartNumber, records[l].sellerPartNumber} = {item}
    /\ "Error" \in records[k].messages /\ "Note" \in records[l].messages
    /\ records[l].warehouse = None

(* Such a report of one of the call's feeds on the US marketplace.         *)
ReadsAlike(d) ==
  market = "us" /\ \E j \in DOMAIN jobs : jobs[j].status = "FINISHED" /\ WarnedOver(jobs[j].records, d[2])

(* What the last part of the next property excepts.                        *)
Unexcused(o) ==
  /\ Settled(o.destination) /\ o.destination \notin ignored
  /\ ~(o.status = "warning" /\ ReadsAlike(o.destination))

(* Every update of a batch is accounted for, exactly once, in the index of *)
(* the list the call was given: it was dropped for a later one, or it has  *)
(* one outcome, however deduplication, grouping, chunks and jobs renumber  *)
(* it on its way ("Nothing is silently dropped, ever", ADR 0003;           *)
(* inventory/api.ts:506, inventory/strategy.ts:24). And an update that is  *)
(* reported succeeded is what Newegg holds: no record of a failed line,    *)
(* whatever it names, is read as another item's or as none, and no request *)
(* stands for the wrong updates (inventory/api.ts:427, 569). Three cases   *)
(* are excepted. Of a destination two quantities were sent to nothing is   *)
(* said: on B2B and in Canada, updates that differ in the ignored          *)
(* warehouse do that, against docs/inventory-strategies.md:74. An item     *)
(* that is deactivated is reported succeeded and not changed               *)
(* (types/inventory.ts:162). And #foldFeedResult lets the last record      *)
(* count: one that warns of an item without naming the warehouse makes a   *)
(* warning of the failure of another of its warehouses, reported before it *)
(* (inventory/api.ts:577-593); "succeeded" stays true then.                *)
UpdatesAnsweredTruly ==
  Finished =>
    LET told == {o.inputIndex : o \in icall.outcomes} IN
    /\ Cardinality(told) = Cardinality(icall.outcomes)
    /\ told \cap icall.dropped = {}
    /\ told \cup icall.dropped = 0 .. icall.count - 1
    /\ \A o \in icall.outcomes :
         o.status \in {"succeeded", "warning"} /\ Unexcused(o)
           => o.destination \in DOMAIN stock /\ stock[o.destination] = o.quantity

(* Applying a preview does what was shown: the same strategy, as many      *)
(* feeds, the same quantities for the same destinations, and no quantity   *)
(* of zero where the server forbids it, although the list is validated,    *)
(* deduplicated and planned a second time (tools/inventory-apply.ts:48).   *)
PlanIsExecuted ==
  Finished /\ icall.via = "tool" =>
    /\ icall.resolved = ipreview.resolved
    /\ Len(jobs) = ipreview.plannedFeedCount
    /\ written = {<<Destination(u), u.quantity>> : u \in Range(ipreview.updates)}
    /\ \A l \in written : allowZeroQuantity \/ l[2] > 0

(* missingIdentifiers: "Requested but not returned by Newegg"              *)
(* (types/inventory.ts:63). An item asked for by its UPC and returned is   *)
(* reported missing, because no parser fills the upc in.                   *)
MissingWasNotReturned ==
  iread.done => \A id \in iread.missing : ~\E item \in iread.returned : IsNamedBy(item, id)
=============================================================================
