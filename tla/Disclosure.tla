------------------------------ MODULE Disclosure ------------------------------
(***************************************************************************)
(* What the read tools put before the assistant: orders, additional order  *)
(* information, RMAs, courtesy refunds and reports, on their way from      *)
(* Newegg's record through the SDK's parsers (orders/parse, rma/parse.ts,  *)
(* refunds/parse.ts, reports/parse.ts) and the tools' field-by-field       *)
(* mappings (tools/orders.ts, tools/rma.ts, tools/reports).                *)
(*                                                                         *)
(* A record is the set of the groups of fields that are filled in.         *)
(* "unknown" is a field Newegg adds one day. A report is a job that may    *)
(* outlive the call that asked for it; whoever asks for it again names its *)
(* type a second time, and may name the wrong one.                         *)
(***************************************************************************)
EXTENDS Integers, FiniteSets

CONSTANTS
  PAGE_SIZE,               \* rows on one page of a report, at Newegg and in the tools
  Limits,                  \* row limits a caller may set
  MaxReportRows,           \* rows the largest report has
  ID_NUMBER_VISIBLE_CHARS, \* characters of an ID number left to see
  MaxIdLength,             \* length of the longest ID number
  MaxReads                 \* tool calls made

ASSUME DisclosureAssumption ==
  /\ PAGE_SIZE \in Nat \ {0} /\ Limits \subseteq Nat \ {0} /\ MaxReportRows \in Nat
  /\ ID_NUMBER_VISIBLE_CHARS \in Nat /\ MaxIdLength \in Nat /\ MaxReads \in Nat

VARIABLES
  readSite,   \* the client's marketplace
  job,        \* the report job at Newegg
  reads,      \* tool calls made so far
  shown,      \* everything the assistant has seen: [tool, type, field]
  identity,   \* the last ID document shown
  lastAnswer  \* the last answer of a report tool

disclosureVars == <<readSite, job, reads, shown, identity, lastAnswer>>

NoJob == [state |-> "none"]
NoAnswer == [kind |-> "none"]
NoIdentity == [length |-> 0, visible |-> 0, images |-> FALSE, asked |-> FALSE, held |-> FALSE, withheld |-> FALSE]

DisclosureInit ==
  /\ readSite \in {"us", "ca"} /\ job = NoJob /\ reads = 0
  /\ shown = {} /\ identity = NoIdentity /\ lastAnswer = NoAnswer

Least(a, b) == IF a < b THEN a ELSE b

Most(a, b) == IF a < b THEN b ELSE a

Ceiling(a, b) == (a + b - 1) \div b

-----------------------------------------------------------------------------
(* Records and parsers: what of a Newegg record reaches the SDK's types.   *)

OrderFields ==
  {"numbers", "status", "dates", "channel", "currency", "customer", "shipping", "amounts",
   "items", "packages", "tracking", "packageMemo"}

ParseOrder(wire) == wire \cap OrderFields

ParseOrderStatus(wire) == wire \cap {"numbers", "status", "channel"}

RmaFields ==
  {"numbers", "status", "dates", "amounts", "processedBy", "shipMethod", "labelCost", "tracking",
   "issueUser", "note", "customer", "items", "itemAmounts", "itemMemo"}

ParseRma(wire) == wire \cap RmaFields

(* The RMA report nests the amounts of a line under RefundInfo.            *)
FlattenRmaLine(wire) == IF "refundInfo" \in wire THEN wire \cup {"itemAmounts"} ELSE wire

RefundFields ==
  {"numbers", "amounts", "reason", "status", "issuedByNewegg", "dates", "noteToCustomer", "users"}

ParseCourtesyRefund(wire) == wire \cap RefundFields

ParseRefundRequest(wire) == wire \cap (RefundFields \cup {"request", "processMemo"})

ParseAdditionalInfo(wire) == wire \cap {"numbers", "idType", "recipients", "designations", "reserved"}

SummaryFields == {"settlement", "amounts", "memo"}

SummaryRow(wire) ==
  LET unmapped == wire \ SummaryFields IN (wire \cap SummaryFields) \cup unmapped

TransactionRow(wire) == wire \cap {"numbers", "settlement", "amounts", "memo"}

(* A column of a file nobody knows goes into `extra`.                      *)
Extras(wire, known) == wire \ known

InventoryColumns == {"identifiers", "warehouse", "quantity", "prices", "memo"}

InventoryRow(wire) == (wire \cap InventoryColumns) \cup Extras(wire, InventoryColumns)

PriceColumns == {"identifiers", "country", "prices", "memo"}

PriceRow(wire) == (wire \cap PriceColumns) \cup Extras(wire, PriceColumns)

ItemColumns ==
  {"identifiers", "status", "title", "category", "bullets", "measures", "images", "dates", "varieties"}

ItemRow(wire) == (wire \cap ItemColumns) \cup Extras(wire, ItemColumns)

-----------------------------------------------------------------------------
(* The tools' mappings.                                                    *)

SerializeOrder(order) == order \cap OrderFields

(* The row of the Order List report: no customer block, tracking or memo.  *)
SerializeOrderRow(order) ==
  order \cap {"numbers", "status", "dates", "channel", "shipping", "amounts", "items", "packages"}

SerializeRma(rma) ==
  rma \cap {"numbers", "status", "dates", "amounts", "processedBy", "shipMethod", "labelCost", "items", "itemAmounts"}

SerializeRefund(refund) ==
  refund \cap {"numbers", "amounts", "reason", "status", "issuedByNewegg", "dates"}

SerializeRequestStatus(request) ==
  (request \cap {"request", "processMemo"}) \cup SerializeRefund(request)

SerializeItemRow(row) ==
  row \cap {"identifiers", "status", "title", "category", "dates", "varieties"}

IdentityRow(row) == row

(* A mutated form: the mask leaves the last characters of any number.      *)
MaskTail(length) == Least(length, ID_NUMBER_VISIBLE_CHARS)

(* How many characters of an ID number of this length are left to see.     *)
MaskIdNumber(length) == IF length <= ID_NUMBER_VISIBLE_CHARS THEN 0 ELSE ID_NUMBER_VISIBLE_CHARS

-----------------------------------------------------------------------------
(* Reads of single records and pages.                                      *)

CallTool ==
  /\ reads < MaxReads
  /\ reads' = reads + 1

Sees(tool, type, fields) == shown' = shown \cup {[tool |-> tool, type |-> type, field |-> f] : f \in fields}

(* A read that fails shows an error; it is described by Redaction.         *)
ReadFails == CallTool /\ UNCHANGED <<readSite, job, shown, identity, lastAnswer>>

OrderRecords ==
  {[currency |-> c, wire |-> OrderFields \cup {"unknown"}] : c \in {"USD", "CAD", "none"}}

ExpectedCurrency == IF readSite = "ca" THEN "CAD" ELSE "USD"

(* Keys of another marketplace's account answer with that account's orders. *)
OrdersMatchMarketplace(page) ==
  page # {} => \E o \in page : o.currency \in {ExpectedCurrency, "none"}

OrdersList(page) ==
  /\ CallTool
  /\ OrdersMatchMarketplace(page)
  /\ Sees("orders_list", "order", UNION {SerializeOrder(ParseOrder(o.wire)) : o \in page})
  /\ UNCHANGED <<readSite, job, identity, lastAnswer>>

OrdersGet(page) ==
  /\ CallTool /\ OrdersMatchMarketplace(page)
  /\ IF page = {} THEN UNCHANGED shown
     ELSE \E o \in page : Sees("orders_get", "order", SerializeOrder(ParseOrder(o.wire)))
  /\ UNCHANGED <<readSite, job, identity, lastAnswer>>

OrdersGetStatus ==
  /\ CallTool
  /\ \E o \in OrderRecords : Sees("orders_get_status", "order", ParseOrderStatus(o.wire))
  /\ UNCHANGED <<readSite, job, identity, lastAnswer>>

(* The ID number is masked, its pictures are left out unless asked for.    *)
OrdersGetAdditionalInfo(length, hasImages, includeIdImages) ==
  /\ CallTool
  /\ readSite = "us"
  /\ identity' = [length |-> length, visible |-> MaskIdNumber(length), asked |-> includeIdImages, held |-> hasImages,
                  images |-> hasImages /\ includeIdImages, withheld |-> hasImages /\ ~includeIdImages]
  /\ Sees("orders_get_additional_info", "order",
          ParseAdditionalInfo({"numbers", "idType", "recipients", "designations", "reserved", "unknown"}))
  /\ UNCHANGED <<readSite, job, lastAnswer>>

RmaRecord == RmaFields \cup {"unknown"}

RmaList ==
  /\ CallTool
  /\ Sees("rma_list", "rma", SerializeRma(ParseRma(RmaRecord)))
  /\ UNCHANGED <<readSite, job, identity, lastAnswer>>

(* Only the RMA with the number asked for is taken from the answer.        *)
RmaGet(numbers, asked) ==
  /\ CallTool
  /\ IF asked \in numbers THEN Sees("rma_get", "rma", SerializeRma(ParseRma(RmaRecord))) ELSE UNCHANGED shown
  /\ UNCHANGED <<readSite, job, identity, lastAnswer>>

RefundList ==
  /\ CallTool
  /\ Sees("refund_list", "refund", SerializeRefund(ParseCourtesyRefund(RefundFields \cup {"unknown"})))
  /\ UNCHANGED <<readSite, job, identity, lastAnswer>>

RefundStatus ==
  /\ CallTool
  /\ Sees("refund_status", "refund",
          SerializeRequestStatus(ParseRefundRequest(RefundFields \cup {"request", "processMemo", "unknown"})))
  /\ UNCHANGED <<readSite, job, identity, lastAnswer>>

-----------------------------------------------------------------------------
(* Reports.                                                                *)

PagedReports == {"settlementSummary", "settlementTransactions", "orderList", "rmaList"}
FileReports == {"dailyInventory", "dailyPrice", "itemBasicInfo"}
ReportTypes == PagedReports \cup FileReports

(* The columns a report of each type has at Newegg.                        *)
ReportColumns(type) ==
  [orderList |-> OrderFields,
   rmaList |-> (RmaFields \ {"itemAmounts"}) \cup {"refundInfo"},
   settlementSummary |-> SummaryFields,
   settlementTransactions |-> SummaryFields \cup {"numbers"},
   dailyInventory |-> InventoryColumns,
   dailyPrice |-> PriceColumns,
   itemBasicInfo |-> ItemColumns][type]

ReportRow(type, wire) ==
  [orderList |-> ParseOrder(wire),
   rmaList |-> ParseRma(FlattenRmaLine(wire)),
   settlementSummary |-> SummaryRow(wire),
   settlementTransactions |-> TransactionRow(wire),
   dailyInventory |-> InventoryRow(wire),
   dailyPrice |-> PriceRow(wire),
   itemBasicInfo |-> ItemRow(wire)][type]

(* A mutated form: order rows are mapped like those of the money reports.  *)
SerializePlainly(type, row) ==
  IF type = "itemBasicInfo" THEN SerializeItemRow(row)
  ELSE IF type = "rmaList" THEN SerializeRma(row)
  ELSE IdentityRow(row)

SerializeRow(type, row) ==
  IF type = "orderList" THEN SerializeOrderRow(row)
  ELSE IF type = "itemBasicInfo" THEN SerializeItemRow(row)
  ELSE IF type = "rmaList" THEN SerializeRma(row)
  ELSE IdentityRow(row)

(* A mutated form: a page begun for the last rows is not fetched.          *)
WholePages(limit) == Most(1, limit \div PAGE_SIZE)

PagesWanted(limit) == Most(1, Ceiling(limit, PAGE_SIZE))

(* A page answered with another report's list under its key has no rows.   *)
RowsUnderKey(j, type) == IF j.type = type THEN j.rows ELSE 0

(* The pages of a report: all of them or as many as the caller wants. A    *)
(* page without PageInfo counts as the only one, with the rows it has.     *)
Collected(j, type, limit) ==
  LET pages == IF j.pageInfo THEN Least(Most(1, Ceiling(j.rows, PAGE_SIZE)), PagesWanted(limit)) ELSE 1
      rows == Least(RowsUnderKey(j, type), pages * PAGE_SIZE)
      total == IF j.pageInfo /\ j.rows > 0 THEN j.rows ELSE rows
  IN [rows |-> rows, total |-> Most(total, rows)]

(* The rows of a file: all are counted, as many kept as the caller wants.  *)
Downloaded(j, limit) == [rows |-> Least(j.rows, limit), total |-> j.rows]

(* The answer: the rows within the limit, and whether there are more.      *)
Output(got, type, limit) ==
  LET returned == Least(got.rows, limit)
  IN [kind |-> "rows", type |-> type, limit |-> limit, returned |-> returned,
      totalRows |-> got.total, truncated |-> returned < got.total]

Offered(type) == type = "dailyPrice" => readSite = "us"

(* A paged report has no file; a file report has no list of rows.          *)
CanBeReadAs(j, type) == Offered(type) /\ (type \in FileReports => j.type \in FileReports)

Delivers(tool, j, type, limit) ==
  LET got == IF type \in FileReports THEN Downloaded(j, limit) ELSE Collected(j, type, limit)
      fields == IF got.rows = 0 \/ limit = 0 THEN {} ELSE SerializeRow(type, ReportRow(type, j.columns))
  IN /\ lastAnswer' = Output(got, type, limit)
     /\ Sees(tool, type, fields)

(* A report tool: submit, then wait. The job may end while it waits or     *)
(* not; a job still under way is left pending, with its request.           *)
AskReport(type, rows, pageInfo, limit) ==
  /\ CallTool
  /\ job = NoJob /\ Offered(type)
  /\ pageInfo \/ rows <= PAGE_SIZE
  /\ LET j == [state |-> "finished", type |-> type, rows |-> rows, pageInfo |-> pageInfo,
               columns |-> ReportColumns(type) \cup {"unknown"}]
     IN \/ job' = j /\ Delivers("report", j, type, limit)
        \/ job' = [j EXCEPT !.state = "inProgress"] /\ lastAnswer' = [kind |-> "pending", type |-> type] /\ UNCHANGED shown
        \/ job' = [j EXCEPT !.state = "cancelled"] /\ lastAnswer' = [kind |-> "error"] /\ UNCHANGED shown
  /\ UNCHANGED <<readSite, identity>>

JobEnds ==
  /\ job.state = "inProgress"
  /\ \E s \in {"finished", "cancelled"} : job' = [job EXCEPT !.state = s]
  /\ UNCHANGED <<readSite, reads, shown, identity, lastAnswer>>

(* newegg_reports_status: the state of the job, or its rows, read as the   *)
(* type the caller names; Newegg may refuse to serve it as another.        *)
ReportsStatus(type, limit) ==
  /\ CallTool
  /\ job # NoJob
  /\ IF job.state # "finished" THEN lastAnswer' = [kind |-> "status", state |-> job.state] /\ UNCHANGED shown
     ELSE \/ CanBeReadAs(job, type) /\ Delivers("reports_status", job, type, limit)
          \/ job.type # type /\ lastAnswer' = [kind |-> "error"] /\ UNCHANGED shown
  /\ UNCHANGED <<readSite, job, identity>>

DisclosureNext ==
  \/ ReadFails \/ OrdersGetStatus \/ RmaList \/ RefundList \/ RefundStatus \/ JobEnds
  \/ \E page \in SUBSET OrderRecords : OrdersList(page) \/ OrdersGet(page)
  \/ \E length \in 0 .. MaxIdLength, has, asked \in BOOLEAN : OrdersGetAdditionalInfo(length, has, asked)
  \/ \E numbers \in SUBSET {"asked", "other"} : RmaGet(numbers, "asked")
  \/ \E type \in ReportTypes, limit \in Limits :
       \/ \E rows \in 0 .. MaxReportRows, pageInfo \in BOOLEAN : AskReport(type, rows, pageInfo, limit)
       \/ ReportsStatus(type, limit)

DisclosureSpec == DisclosureInit /\ [][DisclosureNext]_disclosureVars

-----------------------------------------------------------------------------
(* Properties.                                                             *)

OrderTools == {"orders_list", "orders_get"}

(* Who a buyer is, and what was written by hand, shows in the order tools  *)
(* alone, however a record reached the assistant: by its own tool, by a    *)
(* report, by a report asked for again under another type. A column nobody *)
(* has looked at shows in the money and stock reports alone. Of an ID      *)
(* number no more than the last characters show, and never all of it; its  *)
(* pictures show only when asked for, and else it is said that there are   *)
(* some. (docs/mcp-security.md:76-131; tools/rma.ts:8-14;                  *)
(* reports/status.ts; tools/orders.ts:495-541)                             *)
PersonalDataIsHeldBack ==
  /\ \A s \in shown :
       /\ s.field \in {"customer", "note", "itemMemo", "issueUser", "noteToCustomer", "users", "tracking", "packageMemo"}
            => s.tool \in OrderTools
       /\ s.field = "unknown"
            => s.type \in {"settlementSummary", "dailyInventory", "dailyPrice"}
  /\ identity.visible <= ID_NUMBER_VISIBLE_CHARS
  /\ identity.length > 0 => identity.visible < identity.length
  /\ identity.images => identity.asked
  /\ identity.held => identity.images \/ identity.withheld

(* A report's answer has as many rows as the caller allows and the report  *)
(* has, and says so when the report has more: across the pages the SDK     *)
(* fetches, the rows it keeps and the rows the tool returns.               *)
(* (reports/common.ts:82-125; reports/api.ts:266-303, 456-471)             *)
TruncationIsTold ==
  lastAnswer.kind = "rows" /\ lastAnswer.type = job.type =>
    /\ lastAnswer.returned = Least(job.rows, lastAnswer.limit)
    /\ lastAnswer.truncated <=> (lastAnswer.returned < job.rows)

=============================================================================
