# Verification of the Newegg marketplace SDK and MCP server

This directory holds TLA+ specifications of `packages/sdk` and
`packages/mcp-server`, TLC configurations that check them on small instances,
and TLAPS proofs of the results that matter most. Source paths below are
relative to `packages/`; `M` stands for `mcp-server/src`, `S` for `sdk/src`.

The program is a TypeScript SDK for Newegg's seller API and an MCP server that
exposes it to agents. Three things in it are hard. What is kept across an
`await`, across processes or across a restart, because it guards against
spending money twice: the label ledger, the operation store it lives in, the
feed ledger, the previews, the rate limiter, the HTTP sessions. What a write
goes through between the list a caller makes and the requests Newegg gets:
validation, deduplication, reads, a preview, a second look, retries, and an
outcome for every item. And what must not get out or in: credentials in a log,
personal data in a tool result, a request without a token, a configuration
that means something else than it says.

## Inventory

| Part | State | Operations | What is hard | Module |
|---|---|---|---|---|
| Label create ledger (`S/shippinglabel/ledger.ts`, `api.ts`, `send.ts`) | a record per order in a store shared by processes, a cache per process | preview, create, acknowledge, operator's clear | compare-and-set against other processes, lost answers, a crash between the purchase and its record, cache against store | `LabelLedger` |
| File operation store (`M/server/file-operation-store.ts`, `operation-store.ts`) | the store file, a lock file, a queue per process | get, put, compareAndPut, remove, release of a lock left behind | two processes, crashes between lock, write and rename, failing file operations | `FileStore`, `AtomicStore` |
| Feed ledger (`S/feeds/submit-core.ts`, `api.ts`, `S/operation-store`) | a record per chunk payload | submit a feed in chunks with retries | ambiguous outcomes, aborts, restarts | `FeedLedger` |
| Rate limiter (`S/rate-limit/store.ts`) | per bucket: request times, record events, server hints, a queue, one timer | acquire, observe, abort | two sliding windows at their limits, a lost wake-up, fairness | `RateLimitStore` |
| Preview store (`M/preview-store/index.ts`) | a map of previews | put, get, consume, sweep, evict | single use, expiry, tombstones, caps shared by sessions | `PreviewStore` |
| Label tools (`M/tools/shipping-label-write.ts`, `preview-apply-core.ts`, `label-reprint-limiter.ts`) | the reprint limiter of the process | preview and apply of create and reprint | cap and rate that move between preview and apply, concurrent applies | `LabelTools` |
| HTTP sessions (`M/server/http.ts`) | the session map, counters, timers | initialize, call, stream, delete, sweep, close | cap across an await, sweep against slow requests, shutdown | `HttpSessions` |
| HTTP admission (`M/server/http.ts`, `M/auth`) | a table of failed attempts | host, origin and token checks, the delay of a wrong token | the order of the checks; a record that is slept on after the table forgot it | `HttpGuard` |
| HTTP client (`S/client`) | none besides the limiter | one attempt, retries, redirects, error mapping | what may be retried; unsent against unknown outcome; an abort at every await | `DirectWrites`, `ReportLifecycle` |
| Inventory (`S/inventory`, `M/tools/inventory*`) | none across calls | one update, batches, by feed; batch reads | every update gets its own true outcome through four renumberings | `InventoryBatch` |
| Pricing and volume discounts (`S/pricing`, `S/volume-discounts`, `M/tools/pricing*`) | none across calls | preview, apply | a price that moves, a record a store changed, normalising twice | `PriceChanges`, `DirectWrites` |
| RMA, refunds, service writes (`S/rma`, `S/refunds`, `S/servicemgmt`, `M/tools/service-write.ts`) | none across calls | submit, edit, receive, reject, courtesy refund | money and quantities summed over answers that leave fields out or stop short | `RmaWrites`, `DirectWrites` |
| Orders (`S/orders`) | none across calls | paging, status writes | writes that are not idempotent | `DirectWrites`, `Disclosure` |
| Reports (`S/reports`, `S/reportmgmt`, `M/tools/reports`) | a job at Newegg | submit, poll, collect pages, download by FTP, status | deadlines, late answers, a dialogue with a server that may answer anything | `ReportLifecycle`, `FtpDownload` |
| Read tools (`M/tools/orders.ts`, `rma.ts`, `reports`) | none | reads | personal data through every way a record can take; a cut that is not told | `Disclosure` |
| Errors, redaction, logging (`S/errors`, `M/tools/log-redact.ts`) | none | mask a text, copy a cause | one pass that undoes or hides what another needs; cyclic and large graphs | `Redaction` |
| Configuration and start (`M/config`, `M/cli.ts`, `M/server/build.ts`, `S/client/config.ts`) | none | read, judge, start, open a session | three layers that judge one configuration | `Startup`, `SecretStrength` |
| Other domains (`S/ads`, `sbn`, `catalog`, `reference`, `storefront`, `service`), scripts | none | one request, one parsed answer | wire formats | none |

How the parts meet: an apply tool consumes a record of the preview store,
asks the ledger and the cap, and calls the SDK; the SDK's create writes the
ledger through the operation store before it sends, and every request waits
for the rate limiter. In HTTP mode every session has its own MCP server and its
own view of the one preview store; operation store, limiter and SDK client are
shared. All callbacks of one process run on one thread, so a step of a model
is a stretch of code between two awaits; processes interleave at file
operations.

## Modules

What is kept:

* `AtomicStore` is the abstract specification of an operation store: a call
  takes effect at one moment between its invocation and its answer, as in
  `InMemoryOperationStore`, or fails with or without effect.
* `FileStore` is `FileOperationStore`: queue, lock creation and content, read,
  temporary file, rename, lock removal, each of which can fail or be the last
  thing a process does, and `releaseStoreLock`. `IsAtomic` states that it
  implements `AtomicStore`: the store file maps to the abstract contents, and
  a call has taken effect once its rename is done.
* `LabelLedger` is one order's record: the plan of a create (fresh read,
  blocker, acknowledgement), the claim, the compare-and-set with its retries,
  the rollback when it fails, the send with its unsent, refused and unknown
  outcomes, the settling write, crashes, and the operator's clear. A call has
  a program counter that names the await it is at.
* `FeedLedger` is `submitLedgeredFeedChunk` for calls of several chunks. A call
  can be aborted at any await, by a controller (an `AbortError`, the record
  stays as it is) or by an `AbortSignal.timeout` (a `TimeoutError`, which in
  flight makes the chunk `failed`).
* `RateLimitStore` is one bucket of `InMemoryRateLimitStore`, with the budgets,
  the queue and the timer. Time is a counter; `MINUTE` and `HOUR` are small.
* `PreviewStore` is `InMemoryPreviewStore` behind the views of the sessions.
* `HttpSessions` is the session map of `startHttpServer`, and `HttpGuard` what
  a request passes before it gets there.

What is written:

* `LabelTools` is `runLabelPreview` and `runLabelApply` with the cap, the seal
  and the reprint limiter; the preview store and the ledger appear as what
  these tools see of them. Money is counted in tenths of a cent so that
  `toCents` rounds as the code does.
* `DirectWrites` is a write without a ledger: the reads and the balance check
  of a service write, the wait for the limiter, `executeOnce`, the two retry
  rules (absolute assignments are retried like reads, the rest only when
  provably unsent), the price read-back, and what each API tells its caller.
* `InventoryBatch` follows one batch from its preview: `normalizeUpdates`,
  deduplication, `resolveStrategy`, the direct requests and their workers, the
  feed chunks, `feedAssignments`, the wait, and the folding of a feed's report
  into one outcome per update; and the batch reads with their missing items.
  Newegg may report a direct update of a deactivated item as done and ignore
  it, and may warn of one line after it failed another of the same item.
* `PriceChanges` is a list of price updates through validation, assessment
  against the current prices, the limit on a change, the sealed preview and
  the second assessment, while prices move and a store hands back altered
  records; and the tiers of a volume discount, which are normalised twice.
  `Places` is the filtering of a list by the places that are kept, and the
  keeping of one place for every key, as the inventory updates do it too.
* `RmaWrites` is one service write after another: what is read of the order,
  its RMAs and its courtesy refunds, the checks over it, the tools' ceiling
  and second look, and a desk at Newegg that changes in between. A list may be
  short and tell no count, or tell one that shows it; an RMA may hide any one
  field the checks read; a courtesy refund is a request in a queue first
  (`QueueMoves`).

What is read and shown:

* `FtpDownload` is one passive FTP or explicit FTPS download: the control
  dialogue, the data connection, the guard that races it.
  `ReportLifecycle` EXTENDS it with the report around it: submit, poll under a
  deadline, pages, file, the status tool that goes on with a pending report.
* `Disclosure` says which groups of fields of a record reach the assistant,
  by which tool, and what is said when an answer is cut.
* `Redaction` is `redactUrl`, `redactQueryStrings` and the copying of causes.
  Texts are sequences of tokens: a delimiter is a token, its encoding a mark.
  A cause is a graph of objects, and its copy the set of what can be found in
  it, so that nothing depends on how deep it is. An object that cannot be
  copied is printed with what it holds, down to `PRINT_DEPTH` levels, a Map
  among it with `=>` between a key and its value.
* `Startup` is the way from environment and command line to a session of a
  running server and on to its end, by one signal or by the same one twice;
  `SecretStrength` is the judgement of an operator's secret. A
  secret is a sequence of character codes up to 127; `toLowerCase` has rules of
  its own for the letters beyond.

Each `MC` module gives the constants of its specification the values that are
not written in the `.cfg`. `MCWrites` and `MCDomain` put several modules beside
each other: they share no state, so each behaviour follows one of them, chosen
in the initial state (`part`); what one says of another it says through its
own steps, such as the preview that `LabelTools` takes at most once. A
definition whose comment begins with `Mutant:` is a plausible bug of the
definition after it and is used by no action: exchanged for that definition it
must make a property fail.

## Runs

Runs list the properties that are hard to get right. Type invariants and
inductive strengthenings were checked with them while they were written and
are proved (see Proofs); runs do not repeat them.

| Run | Shows |
|---|---|
| `ledger_safe` | in a deployment that keeps to the rules no second label is bought silently |
| `ledger_any` | records tell the truth in every deployment, and every call ends |
| `ledger_ack_inflight`, `feed_http500`, `ftp_late`, `missing_returned` | findings, below |
| `filestore_safe` | the store implements `AtomicStore`, a release spares a living owner, calls end |
| `rate_safe` | both budgets hold in every window, nobody starves |
| `http_safe` | session cap, sweep, and a shutdown that waits for nothing but a client that stalls |
| `writes_safe` | `LabelTools`: nothing above the cap, every write is one reviewed preview, reprint limits. `PreviewStore`: true answers, fair eviction. `DirectWrites`: a write that is not idempotent is applied once, denials are true, a verified price stands, refunds keep to the total |
| `reports_safe` | what is not marked as cut off is complete, the login waits for TLS, every run of a report tool ends |
| `domain_safe` | `Redaction`: URLs and causes come out clean. `Startup`, `SecretStrength`: the configuration means what it says. `HttpGuard`: who is let in, that the delays add up and how many are judged at once. `FeedLedger`: no payload fed twice, failures are definite. `InventoryBatch`: one true outcome per update; a preview is what is applied. `PriceChanges`: prices and discounts as reviewed. `RmaWrites`: within the order, released as previewed. `Disclosure`: personal data held back, cuts told |

### Bounds

| Module | Instance | Why it is enough |
|---|---|---|
| `LabelLedger` | 3 calls, 2 processes | two race in one process while a third comes from another |
| `FileStore` | 2 servers, 3 calls of 4 kinds on 2 keys, one crash, one operator | a queued call, a contender, a lock left behind |
| `FeedLedger` | 3 calls, 2 payloads, 2 attempts, `Sequential`, `Durable`, aborts of both kinds and crashes | calls that share a chunk but not all |
| `RateLimitStore` | 2 callers, costs below, at and above the budget, windows of 2 and 3 ticks | a head that waits and one behind it that would fit |
| `HttpSessions` | 3 requests, one place | two initializes race; a session serves two requests |
| `LabelTools` | 2 orders, 2 calls, 2 previews, 2 estimates around the cap and 2 unreadable ones, a restart, cooldown longer than the hour | either limit can be the one that refuses |
| `PreviewStore` | 3 sessions, 3 previews, a store of 2, 2 per session | both caps bind; the evicted one can be anyone's |
| `DirectWrites` | 2 calls in the mixes that meet and one that does not, 2 attempts, a total with room for one refund | an earlier and a later try, a neighbour |
| `ReportLifecycle` | files of 2 and 3 bytes against a limit, 0, 3, 5 rows, a budget of a few ticks, 2 tries | below, at and above a page and the limit |
| `Redaction` | 8 pieces, texts to 7 tokens, graphs of 2 objects of 4 kinds | a password with each delimiter, two candidates in one run, a cycle, a Map inside what is printed |
| `Startup` | 3 variables off the plainest environment, 2 sessions | any pair of interacting variables with the one that enables them |
| `SecretStrength` | lengths at the required one and one below, four lanes that start at `!` or `z` and step by 1 or -2, blocks of 1, 5, 12, 13, rotations of one drawn secret | each pattern at the length where entropy alone would accept it; 13 is the longest block the estimate is sure to refuse |
| `HttpGuard` | 4 callers, 2 addresses, 2 sleepers per record, one address tracked | a record is dropped while it is slept on, and made again; an address reaches the limit on its own and across two records |
| `InventoryBatch` | 4 updates, 3 in a list, 2 workers, 2 records in a feed, 1 identifier in a read | duplicates within a list, a list over the threshold, 2 chunks |
| `PriceChanges` | 4 lists, 2 shelves, one move, whole cents, tiers in tenths of a cent | change, supersede, block; a rounding at the limit |
| `RmaWrites` | 16 desks, 11 plans, one move, one earlier call; outside the US the desk with a readable RMA | each field that can be missing, hidden or cut off; the reasons that only one site takes |
| `Disclosure` | pages of 2, limits 1, 3, 4, reports to 5 rows, 2 reads | limits that cut a page, end on one, exceed the report |

Clocks, restarts, retries and previews are capped by constants named `Max...`
or `Last...`; histories (`reply`, `sent`, `uses` and so on) are read by
properties only. `CHECK_DEADLOCK FALSE` is set where the system really comes
to rest, because all its calls are done or a clock is at its bound.

### Fairness

Weak fairness is assumed of what the event loop and the kernel run by
themselves: a started call takes its next step, a promise settles (requests to
Newegg have time-outs), a due timer fires, the clock moves. Nothing is assumed of
callers, operators, clients or crashes. In `HttpSessions` a client need not
send its body, take its answer or leave its stream: `SessionsFairness` is that
of the making of a server, the sweep, the clock and `close()`. In `FtpDownload` the server need not answer, it
is the guard's timer that ends a download. A restart of a crashed process is
not assumed: the liveness properties allow for a call whose process died. The
modules without a liveness property assume nothing.

### Findings

* `ledger_ack_inflight`: `settle` (`S/shippinglabel/ledger.ts:168`) puts its
  outcome without comparing, so an attempt that was acknowledged while it was
  still running can replace the record of the newer attempt.
* `feed_http500`: HTTP 500 is recorded as a definite failure
  (`S/feeds/submit-core.ts:19`), the comment at line 40 lists all of 5xx as
  ambiguous.
* `ftp_late`: a socket is known to the guard only once it has connected
  (`S/reportmgmt/ftp.ts:424`), so that a download whose budget ran out during
  the connect logs in and transfers behind its caller's back.
* `missing_returned`: an item asked for by its UPC is reported missing though
  Newegg returned it (`S/inventory/api.ts:62`).

### What the properties leave room for

Each of these is a place where the code does less than a reader may expect;
the properties are stated so that they say what it does guarantee.

* Labels. An abort during the backoff of a request that was provably not sent
  leaves the record unmarked (`S/shippinglabel/send.ts:85`). `reprint` of the
  SDK reads the order after the limiter admitted it, so reprints that are sent
  may be closer together than the admissions `ReprintsSpaced` speaks of.
* Store. Two operators who release at a time can take a living server's lock
  (`M/server/file-operation-store.ts:316` against `:358`); runs and proofs have
  one.
* Feeds. Overlapping submissions of one payload both send; a 2xx with an
  unreadable body counts as a failure (`submit-core.ts:188`); a failed TLS
  handshake is not recognised as unsent (`S/client/transport.ts:32`). They show
  under `Sequential = FALSE`, `"unreadable"` and `"tls"` in `Faults`. An
  `AbortSignal.timeout` of the caller's that fires in flight rejects with a
  `TimeoutError`, which `isAbortError` (`S/util.ts:33`) does not know
  and `S/client/transport.ts:61` passes on as it is: the chunk is recorded as `failed`
  (`submit-core.ts:103`), where ADR 0004 counts a timeout after the send as
  ambiguous, and the payload can be fed again. `NoDoubleFeed` and
  `FailureIsDefinitive` except the payload such a call was sending
  (`Disowned`).
* HTTP. `readBody` (`M/server/http.ts:150`) has no timer, and a server that is
  closing checks its connections no longer. A client that stalls in its body, or
  does not take its answer, keeps `close()` waiting; `ShutdownEnds` says that
  nothing else does. A second signal of the same kind ends the process then
  (`M/cli.ts:274`). An address that the table of failures had no room for
  starts over with no request pending (`M/server/http.ts:383`); the limit of
  `AdmissionIsSound` is for addresses that were never dropped.
* Prices. An update is `failed` by its last try alone (`S/pricing/api.ts:575`),
  an earlier one may have been applied, where `S/types/pricing.ts:172` reads
  "Newegg rejected it, or it provably never left". A late request can undo a
  newer absolute update; `VerifiedStands` speaks of updates that do not overlap.
* Orders and refunds. Order writes take an HTTP 500 for a rejection
  (`S/orders/api.ts:62`); `DenialIsTrue` excepts it. An abort in flight is a
  bare `AbortError`, and `AbortSignal.timeout` is not recognised as an abort.
  Refunds that overlap can exceed a total, and so can one that follows a refund
  still in Newegg's queue; `WithinBalance` speaks of those that do not overlap
  and leave nothing in flight or queued.
* RMAs. The checks take some things on trust, and `SentWithinOrder` excepts
  them, each by name. A page without a readable `TotalCount` has a count of 0
  (`S/servicemgmt/shared.ts:110`), so that a short list is not noticed
  (`S/servicemgmt/write.ts:171`, `:176`): `missed`. A courtesy refund that is
  issued is only queued (`S/types/rma.ts:331`) and not in the list the next
  check reads: `missed` too. An earlier RMA whose type cannot be read counts as
  no refund, an unreadable shipping refund only warns: `hidden` of the money. A
  line without a readable quantity or part number
  (`S/rma/parse.ts:94`, `S/servicemgmt/write-checks.ts:246`) does not count
  against what is returned: `hidden` of the quantities. The ceiling lets a
  refund pass whose total is only partly readable. `ReleasesAsPreviewed` speaks
  of receipts with no move of the desk since the apply began and no active RMA
  that hides a field.
* Inventory. Outside the US two updates that differ in the ignored warehouse
  are two quantities for one destination (`S/inventory/strategy.ts:13`, against
  `docs/inventory-strategies.md:73`). A direct update of a deactivated item is
  reported as succeeded and changes nothing (`S/types/inventory.ts:162`). On
  the US marketplace a warning that names no warehouse overwrites the failure
  of another line of its item that came before it
  (`S/inventory/api.ts:577`), and the outcome is a warning. These three are
  excepted by `UpdatesAnsweredTruly` (`Unexcused`). Outcomes of an apply carry the index in the previewed list.
* Reports. The budget of `types/reports.ts:83` covers the polling only.
  `readEnvelope` takes a missing page count for one page; `Disclosure` assumes
  that such a report has one. A plain FTP transfer whose size is unknown and
  which is cut looks complete.
* Start. Under HTTP the SDK judges its configuration when a session opens, so
  a server can start that will serve nobody.
* Secrets. A block is free until it comes again, so what the estimate makes of
  a block that is repeated grows with it: ten different characters in one of 14
  are enough to be accepted (`M/config/token-strength.ts:150`).
  `PatternsAreRefused` speaks of blocks of at most 13.
* Redaction. `UrlsRedacted` speaks of texts with one listed URL. A Map inside
  an object that is printed shows its entries as `name => value`, which no mask
  knows (`S/errors/redact.ts:557`), against the comment at 1095;
  `CausesComeOutClean` excepts such entries. Masking is
  not idempotent on some malformed texts, and `redactLogFields` returns what
  lies six levels deep as it is.

## Proofs

Every theorem is about the specification for all values of its constants that
meet the named `ASSUME`s of the module, which TLC evaluates on each instance.
Each follows the same argument: an invariant that the initial states satisfy,
that every action keeps (one lemma per action) and that implies the property.

* `LabelLedgerProofs`. For any calls, processes, stores and clocks:
  `TypeCorrect`; `RecordsInvariant`, `OutcomesAreTrue`, `SettledStaysSettled`:
  every record, wherever it is, names a call that has claimed and tells the
  truth about its outcome. The invariant has to speak of the copies in caches
  and in flight because any of them may be written to the store later. For a
  deployment that is durable, has compare-and-set, acknowledges only attempts
  that have ended and settles within the window: `LedgerInvariant`, which adds
  that the store's record is never older than a call past its claim believes,
  that a call between its claim and its settling write owns the record, and
  that a purchase that counts is named by the store; and `NoDoublePurchase`.
* `FileStoreProofs`. `StoreInv`: the lock on disk is that of the living process
  of any call at work, whose turn in that process's queue it is; what such a
  call read is what the file still holds when it writes; a lock the operator
  has judged belongs to a process that is dead. From it `WritersExclude`, `ReleaseIsSafe` and
  `StoreIsAtomic`, the refinement: the initial states map to initial states
  and every step to a step of `AtomicStore` or to none. All three assume
  `OneOperator` (`docs/research/newegg-api-contracts.md`: one run at a time).
* `WriteProofs`, what is sent without a ledger. `DirectWrites`: `WriteInv` says for each place of a write that is not
  idempotent what its requests have done: nothing before and between flights,
  at most one effect once in flight. `OnceStep` is its core. `WriteTypes`,
  `NoSecondWrite`, `DenialsAreTrue`: neither the limiter nor an answer of
  Newegg is assumed. `ApartInv` speaks of calls that do not overlap: one at
  most is not at rest, a refund that may still take effect fits in what is
  left, and nothing has replaced the last update's price. From it
  `BalanceKept` and `VerifiedIsTrue`. `InventoryBatch`: `InventoryInv` follows
  the indexes of the caller's list. One that was not dropped is in one direct
  task or in the feed, an outcome is that of an update whose request has
  ended, and in the end there is one for each (`UpdatesAreAnswered`). For the
  second half of that theorem a finished feed holds every line that its report
  does not fail, for any item the report could be asked about, but for a
  warning that overwrote a failure: a record may leave the warehouse out, so
  `FoldIs` argues from the reports the model lets Newegg write. `PreviewsAreExecuted`: the stored list has no key twice, so it
  survives a second deduplication (`DedupedAgain`), and lists that ask for the
  same are planned alike (`PlannedAlike`).
* `MemoryProofs`, what one process keeps in memory. `PreviewStore`:
  `PreviewTyped`, `PreviewsAreSingleUse` (the entries agree with what happened,
  and an id that was never handed out was never used) and `EvictionIsFair`.
  `RateLimitStore`: `BudgetsHold`. The code counts the requests of the last
  minute and sums the records of the last hour, when it grants; the property
  is about every window that ever ended. The invariant says of each grant that
  the window that ends with it is within the budget, and the sums over such
  windows are compared by the lemmas of `Induction`. `LabelTools`: `ToolsInv`,
  a call past `consume` holds a preview that is spent, that no other call holds
  and that was never written, as it was reviewed, and what it is about to send
  has passed the cap of this process (`ToolsInvariant`, `CapIsKept`,
  `ReviewIsKept`); and `ReprintsAreSpaced`: the limiter has a record of every
  admission that a later one could be too close to, and of every order and hour
  what it has is what was sent.
* `HttpProofs`. `SessInv`: the two counters are the numbers of what they count,
  and a session is born once (`SessionsTyped`, `CapHolds`, `BusyIsSpared`).
  `AdmissionHolds`: what reaches the sessions passed every check, a
  record's pending count is the number of its sleepers, also of a record the
  table forgot while it was slept on and made again, and the sleepers of an
  address that was never dropped are all on the record the table has of it.
  `SecretStrength`: `PatternsAreAlwaysRefused`, for secrets of any length, at
  any start. A secret has no more bits than its cheapest reading. Of runs that
  are interleaved that is the one with as many lanes: each lane is one piece
  (`RunIsCheap`), of 16 bits at most, and four of them stay below 80
  (`RunsAreWeak`). Of a block that is repeated it is the one as it stands: from
  the 14th character on everything repeats what is a block before it, so that
  the rest is one piece (`RestIsCheap`). Before the rest come at most twelve
  characters of at most log2 13 bits, in pieces that cost no more than their
  characters, and one piece that may end in it; in all 76.4 bits
  (`BlocksAreWeak`). A keyboard row is a block of at most ten (`RowsAreBlocks`).
* `ReportProofs`. `FtpInv`: past the handshake an FTPS connection is secure,
  and only a secure one carries what follows (`FtpTyped`, `LoginIsProtected`).
  `ReportTyped` and `ReportIsWhole`: the pages that were collected are the
  first ones of the report and the bytes received the first ones of the file,
  so that whatever ends a run either has all or says that it has not.
  `Redaction`, for any number of objects and any limits: `CausesAreClean`, by
  induction over the depth that is left. A call on an object deeper than its
  path is answered from the answers on its fields, so that what it answers
  leads to nothing secret. An object is kept itself only when both its fields
  were, and then the sets that show its fields harmless show it harmless too
  (`HarmlessWhole`). Conversely what is harmless leads to harmless fields
  (`HarmlessFields`), so that nothing changes but through a cut. `MemosChangeNothing`, for any text: whatever a candidate
  remembers is what the start of its run would measure, and a later place of
  the run has the same end (`OneRunOneEnd`) and, unless it is past what was
  found, the same answer (`FirstAgain`, `LastAgain`); so the pass with and the
  pass without a memory go step by step alike (`StepsFollow`). It is the second
  half of `UrlsRedacted`.
* `DomainProofs`, what follows one call or one start.
  * `FeedLedger`. `FeedInv`: calls at work share no payload, and a record is
    `submitting` while a request of its payload may be out. From it
    `FeedTyped`, and under `ADR` (the two rules of ADR 0004, and none of the
    two faults above) `NoSilentDoubleFeed` and `FeedFailuresAreTrue`, whose
    exception for a timed-out signal is that of the properties.
  * `Startup`. `KeysAreTheMarkets`, `SessionsAreAsConfigured`, for any
    environment, flags and order of starts.
  * `Disclosure`. `PersonalDataStays`, `TruncationIsAlwaysTold`, for pages,
    limits and reports of any size.
  * `PriceChanges`. `PricesGoAsReviewed`: the invariant follows the hash of the
    filed record, which no store can make up, from the preview to the apply. A
    record that matches its own hash is the one that was filed, whatever was
    done to it in between; its list has no row twice, so that deduplicating it
    again leaves every update at its place, beside its previewed price.
    `DiscountsGoAsPreviewed`: rounding to a cent twice is rounding once, so a
    normalised list is a fixed point of normalisation, and what is valid stays
    so.
  * `RmaWrites`. `ReleasesMatchPreviews`: a call past its second look carries
    the money its preview showed. `WritesStayWithinOrder`: as long as the desk
    has not moved, the sums the checks formed over what was readable bound the
    sums over what is there, and the effect of the write adds its own; a part
    that cannot be read is one the checks refuse, or one the property excepts.
* `Induction`. The library's induction theorems take an operator as a
  parameter, which the installed provers cannot instantiate. `LeastNumber`
  states the same of sets: a set of numbers that is not empty has a least
  element (from `WFMin`), so that a set without a first element and without a
  next one is empty (`NoCounterexample`). With a set of counterexamples in the
  place of the predicate, it serves for induction over data. From it come
  what the other modules need of sums over finite sets, which the community
  modules define by recursion: `SumUnfolds`, `SumWithout`, `SumsCompare`; and
  of filtered lists (`Places`): `InOrderIs`, `AllInOrder`, the first, last and
  kept places of a key; and the number of pieces a list is cut into.

Model-checked only:

* everything about liveness (`CallsEnd` of the store and of the ledger,
  `NoStarvation`, `AbandonedIsClosed`, `ShutdownEnds`, `RunEnds`): fairness and
  `ENABLED` are beyond the proof system's backends;
* the first half of `UrlsRedacted`: what four passes leave of each listed
  spelling is an evaluation of concrete texts, and TLC evaluates all of them.
  A proof would have to repeat it case by case;
* that what `Drawn` stands for is accepted, which is the evaluation of one
  secret (`DrawsAreAccepted` in `MCDomain`); the theorem has it from the loop of
  `generateSecretToken`, which draws again.

## Not modelled

The wire formats: request bodies, the parsers of answers, CSV and XLS
grammars, dates and currencies, argument schemas, except where a property is
about what they lose. The read-only domains (ads, SBN, catalog, reference,
storefront, service status), which make one request and parse one answer; their
retries are those of the client. Patterns for keys, tokens and mail addresses
in the redaction. Numeric ranges of the configuration. File permissions, the
lost-file check and the cleanup of temporary files of the store. The MCP
transport library. The repository's scripts. `components` in `PROJECT.json`
says for every part what is left out.

One hazard has no property: direct updates are made before a feed is
submitted, and a submission that throws loses their outcomes
(`S/inventory/api.ts:365`). The code does so by design of its interface, and
no document promises otherwise.

## What could come next

The order of dates in `S/reports/validate.ts:50`, which reads a bare date as
UTC midnight and a date with a time as Pacific; the quoting rules of the CSV
reader; a `RateLimitStore` with several buckets behind several sessions.
