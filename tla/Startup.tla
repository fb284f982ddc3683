------------------------------ MODULE Startup --------------------------------
(***************************************************************************)
(* From the command line and the environment to a running MCP server:      *)
(* cli.ts, config/index.ts, server/build.ts, server/operation-store.ts,    *)
(* the refusals of startHttpServer, and the SDK's own client/config.ts     *)
(* behind createNeweggClient. Three layers judge the same configuration,   *)
(* and under HTTP the last of them only when a session is opened.          *)
(*                                                                         *)
(* A variable is set to a spelling; a blank one is "" (unset and blank are *)
(* the same everywhere). A set of keys is told apart by the marketplace it *)
(* was issued for: the operator knows it, the server only what is          *)
(* declared. A strong or weak secret is one SecretStrength accepts or not. *)
(***************************************************************************)
EXTENDS Integers, FiniteSets

CONSTANTS
  MaxDeparture,   \* how many variables differ from the plainest environment
  Session         \* the sessions an HTTP server is asked for; stdio has one

ASSUME StartupAssumption == MaxDeparture \in Nat /\ Session # {}

VARIABLES
  env, args,
  phase,          \* idle, configured, checked, listening, closing, exited
  exitCode,
  config,         \* McpServerConfig, or NoConfig
  ledgerFile,     \* what the operation store file holds: usable or corrupt
  ledger,         \* the process-wide operation store: none, memory or file
  client          \* of a session: its client and tools, NoClient, or Refused

startupVars == <<env, args, phase, exitCode, config, ledgerFile, ledger, client>>

(* The spellings of each variable. The sets of keys are one variable each. *)
Spellings ==
  [NEWEGG_MARKETPLACE |-> {"", "us", "can", "mars"},
   US_KEYS |-> {"", "some", "all"}, CA_KEYS |-> {"", "some", "all"},
   LEGACY_KEYS |-> {"", "some", "us", "ca"},                   \* by who they were issued for
   NEWEGG_CREDENTIALS_MARKETPLACE |-> {"", "us", "ca", "mars"},
   NEWEGG_API_BASE_URL |-> {"", "newegg", "newegg/", "loopback/", "other/", "plain/", "words"},
   ALLOW_CUSTOM_BASE_URL |-> {"", "true", "TRUE"},
   ALLOW_WRITES |-> {"", "true", "TRUE", " true "},
   REPORT_FTPS |-> {"", "true", "1"}, FTPS_CERT_SHA256 |-> {"", "pin", "words"},
   FTPS_CA_FILE |-> {"", "pem", "other", "missing"},
   ALLOWED_MARKETPLACES |-> {"", "us", "can", "us,mars"},
   MAX_LABEL_AMOUNT |-> {"", "20", "OFF", "2e9", "0"},
   GUARD_HOURS |-> {"", "720", "721", "0", "2e9"},
   ALLOW_ZERO_QUANTITY |-> {"", "TRUE", "false", "no"},
   STORE_FILE |-> {"", "/ledger", "ledger"},
   HTTP_HOST |-> {"", "localhost", "0.0.0.0"},
   BEARER_TOKEN |-> {"", "strong", "weak"}, HMAC_KEY |-> {"", "strong", "weak"},
   ALLOWED_ORIGINS |-> {"", "https://a", "NULL", "*"}]

Var == DOMAIN Spellings
Plain == [v \in Var |-> IF v = "NEWEGG_MARKETPLACE" THEN "us" ELSE IF v = "US_KEYS" THEN "all" ELSE ""]
Departures(e) == {v \in Var : e[v] # Plain[v]}

Arg == {"http", "help", "generateToken", "clear", "release", "force", "unknown"}

NoConfig == [marketplace |-> "none"]
NoClient == [state |-> "none"]
Refused  == [state |-> "refused"]

StartupInit ==
  /\ env = Plain /\ args = {}
  /\ phase = "idle" /\ exitCode = 0 /\ config = NoConfig
  /\ ledgerFile = "usable" /\ ledger = "none"
  /\ client = [s \in Session |-> NoClient]

-----------------------------------------------------------------------------
Marketplaces == {"us", "b2b", "ca"}

(* normalizeMarketplace; "none" for a name it does not know. *)
Normalize(raw) == IF raw = "can" THEN "ca" ELSE IF raw \in Marketplaces THEN raw ELSE "none"

(* trim().toLowerCase(), of the spellings that need it. *)
Folded(raw) ==
  IF raw \in {"TRUE", " true "} THEN "true" ELSE IF raw = "OFF" THEN "off" ELSE IF raw = "NULL" THEN "null" ELSE raw

(* Only the exact literal opts in. *)
Gate(raw) == raw = "true"

(* boolEnv: the spellings it takes, blank standing for the fallback. *)
BoolOk(raw) == Folded(raw) \in {"", "true", "false"}
Bool(raw, fallback) == IF raw = "" THEN fallback ELSE Folded(raw) = "true"

(* Plain numbers; "2e9" and the like are numbers to Number() alone. *)
Plainly == [s \in {"0", "20", "720", "721"} |->
  IF s = "0" THEN 0 ELSE IF s = "20" THEN 20 ELSE IF s = "720" THEN 720 ELSE 721]

(* strictCountEnv: blank is the fallback, otherwise from 1 to max. *)
CountOk(raw, max) == raw = "" \/ (raw \in DOMAIN Plainly /\ Plainly[raw] \in 1 .. max)
Count(raw, fallback) == IF raw = "" THEN fallback ELSE Plainly[raw]

(* cappedNumberEnv: no cap only by name. strictNumberEnv has not even that. *)
NoCap == 100000
CapOk(raw) == raw = "" \/ Folded(raw) \in {"unlimited", "off"} \/ (raw \in DOMAIN Plainly /\ Plainly[raw] > 0)
(* Mutant: what is no number is no cap. *)
CapOrNothing(raw, fallback) ==
  IF raw = "" THEN NoCap ELSE IF raw \in DOMAIN Plainly THEN Plainly[raw] ELSE NoCap

Cap(raw, fallback) ==
  IF raw = "" THEN fallback ELSE IF Folded(raw) \in {"unlimited", "off"} THEN NoCap ELSE Plainly[raw]

(* The marketplaces of a comma-separated list, "none" among them for a bad one. *)
Listed(raw) == IF raw = "" THEN {} ELSE IF raw = "us,mars" THEN {"us", "none"} ELSE {Normalize(raw)}

UnsafeOrigin(raw) == Folded(raw) \in {"*", "null"}

(* envSchema: what each variable must satisfy on its own. *)
Valid(e) ==
  /\ Normalize(e.NEWEGG_MARKETPLACE) # "none"
  /\ e.NEWEGG_API_BASE_URL # "words"                           \* new URL() takes the others
  /\ e.FTPS_CERT_SHA256 # "words"
  /\ "none" \notin Listed(e.ALLOWED_MARKETPLACES)
  /\ CapOk(e.MAX_LABEL_AMOUNT) /\ CountOk(e.GUARD_HOURS, 720) /\ BoolOk(e.ALLOW_ZERO_QUANTITY)
  /\ e.STORE_FILE # "ledger"                                   \* not absolute
  /\ e.BEARER_TOKEN # "weak" /\ e.HMAC_KEY # "weak"
  /\ ~UnsafeOrigin(e.ALLOWED_ORIGINS)

Prefixed(e, market) == IF market = "us" THEN e.US_KEYS ELSE IF market = "ca" THEN e.CA_KEYS ELSE ""
Keys(issuedFor) == [issuedFor |-> issuedFor]
NoKeys == Keys("none")

(* Mutant: unlabelled keys are taken for the marketplace that is served. *)
AnyCredentials(e, market) ==
  IF Prefixed(e, market) = "all" THEN Keys(market)
  ELSE IF e.LEGACY_KEYS \in Marketplaces THEN Keys(e.LEGACY_KEYS) ELSE NoKeys

(* resolveCredentials: a set that is started wins and must be complete; the *)
(* unprefixed keys need a declaration that agrees; never another's set.    *)
ResolveCredentials(e, market) ==
  LET declared == e.NEWEGG_CREDENTIALS_MARKETPLACE IN
  IF Prefixed(e, market) # ""
  THEN IF Prefixed(e, market) = "all" /\ (declared = "" \/ Normalize(declared) = market)
       THEN Keys(market) ELSE NoKeys
  ELSE IF e.LEGACY_KEYS \in Marketplaces /\ Normalize(declared) = market
       THEN Keys(e.LEGACY_KEYS) ELSE NoKeys

(* readReportFtpsCa and the two rules on what it goes with. *)
FtpsOk(e) ==
  /\ e.FTPS_CA_FILE \in {"", "pem"}
  /\ (e.FTPS_CA_FILE # "" \/ e.FTPS_CERT_SHA256 # "") => Gate(e.REPORT_FTPS)
  /\ e.FTPS_CERT_SHA256 # "" => e.FTPS_CA_FILE # ""

(* loadMcpConfigFromEnv: the configuration, or NoConfig when it throws. *)
LoadConfig(e) ==
  LET market == Normalize(e.NEWEGG_MARKETPLACE)
      keys   == IF market = "none" THEN NoKeys ELSE ResolveCredentials(e, market)
  IN IF ~Valid(e) \/ keys = NoKeys \/ ~FtpsOk(e)
        \/ (Listed(e.ALLOWED_MARKETPLACES) # {} /\ market \notin Listed(e.ALLOWED_MARKETPLACES))
     THEN NoConfig
     ELSE [marketplace |-> market, credentialMarketplace |-> market, credentials |-> keys,
           baseUrl |-> e.NEWEGG_API_BASE_URL, allowCustomBaseUrl |-> Gate(e.ALLOW_CUSTOM_BASE_URL),
           allowWrites |-> Gate(e.ALLOW_WRITES), operationStoreFile |-> e.STORE_FILE,
           reportFtps |-> Gate(e.REPORT_FTPS), pin |-> e.FTPS_CERT_SHA256, ca |-> e.FTPS_CA_FILE,
           maxLabelAmount |-> Cap(e.MAX_LABEL_AMOUNT, 100), guardHours |-> Count(e.GUARD_HOURS, 24),
           allowZeroQuantity |-> Bool(e.ALLOW_ZERO_QUANTITY, TRUE),
           host |-> IF e.HTTP_HOST = "" THEN "127.0.0.1" ELSE e.HTTP_HOST,
           bearerToken |-> e.BEARER_TOKEN, hmacKey |-> e.HMAC_KEY, allowedOrigins |-> e.ALLOWED_ORIGINS]

-----------------------------------------------------------------------------
(* The SDK's side. resolveBaseUrl: the trailing slash, https or a loopback *)
(* host, and a Newegg host unless another one is allowed.                  *)
BaseUrlOk(url, allowCustom) == url \in {"", "newegg/", "loopback/"} \/ (url = "other/" /\ allowCustom)

(* resolveReportFileFtp, on the options the server forwards. *)
ReportFtpOk(ftp) == (ftp.pin # "" \/ ftp.ca # "") => ftp.ftps /\ ftp.ca # ""

(* resolveConfig: what createNeweggClient refuses. *)
SdkAccepts(c) ==
  /\ c.keys # NoKeys /\ c.marketplace \in Marketplaces
  /\ c.credentialMarketplace = c.marketplace
  /\ BaseUrlOk(c.baseUrl, c.allowCustomBaseUrl)
  /\ c.guardHours \in 1 .. 720
  /\ ReportFtpOk(c.ftp)

(* createClientFromConfig: the client configuration of one session. *)
ClientConfig(c) ==
  [marketplace |-> c.marketplace, credentialMarketplace |-> c.credentialMarketplace, keys |-> c.credentials,
   guardHours |-> c.guardHours, baseUrl |-> c.baseUrl,
   allowCustomBaseUrl |-> c.baseUrl # "" /\ c.allowCustomBaseUrl,
   ftp |-> [ftps |-> c.reportFtps, pin |-> c.pin, ca |-> c.ca]]

ReadTools ==
  {"inventoryGet", "pricingGet", "feedStatus", "feedResult", "serviceStatus", "ordersList", "ordersGet",
   "ordersGetStatus", "ordersGetAdditionalInfo", "rmaList", "rmaGet", "refundList", "refundStatus",
   "sellerStatus", "industriesList", "subcategoriesList", "subcategoryProperties", "propertyValues",
   "sbnShipmentsList", "sbnRequestStatus", "sbnRequestResult", "sbnWarehousesList", "adsCampaignsList",
   "adsCampaignGet", "adsGroupsList", "adsKeywordsList", "adsPerformanceReport", "catalogResolve",
   "catalogLookupStatus", "reportsSettlementSummary", "reportsSettlementTransactions",
   "reportsDailyInventory", "reportsDailyPrice", "reportsItemBasicInfo", "reportsOrderList",
   "reportsRmaList", "reportsStatus", "volumeDiscountGet"}

(* The halves of a write flow. *)
Preview == [f \in {"inventory", "listing", "volumeDiscount", "pricing", "rmaSubmit", "rmaEdit", "rmaProcess",
                   "rmaReject", "refundIssue", "labelCreate", "labelReprint"} |-> <<f, "preview">>]
Apply   == [f \in DOMAIN Preview |-> <<f, "apply">>]
WriteFlows == DOMAIN Preview
Both(flows) == {Preview[f] : f \in flows} \cup {Apply[f] : f \in flows}
Reads == {<<t, "read">> : t \in ReadTools}
Estimate == <<"shippingLabelEstimate", "read">>

(* enabledToolNames, what the capabilities resource lists. *)
Advertised(writes) == Reads \cup IF writes THEN Both(WriteFlows) \cup {Estimate} ELSE {}

(* Mutant: a preview looks harmless and the quote is a read. *)
RegisteredEagerly(writes) ==
  Reads \cup {Estimate} \cup {Preview[f] : f \in WriteFlows} \cup IF writes THEN Both(WriteFlows) ELSE {}

(* buildMcpServer, one group of calls after another. *)
Registered(writes) ==
  Reads \cup
  IF ~writes THEN {}
  ELSE Both({"inventory"}) \cup Both({"listing"}) \cup Both({"volumeDiscount"}) \cup Both({"pricing"})
       \cup Both({"rmaSubmit", "rmaEdit", "rmaProcess", "rmaReject", "refundIssue"})
       \cup Both({"labelCreate", "labelReprint"}) \cup {Estimate}

(* Mutant: a file that cannot be opened gives way to memory. *)
StoreOrMemory ==
  IF ledger # "none" THEN ledger
  ELSE IF config.operationStoreFile # "" /\ ledgerFile = "usable" THEN "file" ELSE "memory"

(* operationStoreFor: the one store of this process, opened when the first *)
(* session needs it; "unusable" when the file is corrupt by then.          *)
OperationStoreFor ==
  IF ledger # "none" THEN ledger
  ELSE IF config.operationStoreFile = "" THEN "memory"
  ELSE IF ledgerFile = "usable" THEN "file" ELSE "unusable"

(* createNeweggMcpServer for a session. It throws on a weak preview key, a *)
(* store that cannot be opened, or a client the SDK refuses; the store     *)
(* that was opened before the SDK refused stays.                           *)
CreateServer(s) ==
  LET store == OperationStoreFor
      asked == ClientConfig(config)
  IN /\ ledger' = IF store = "unusable" \/ config.hmacKey = "weak" THEN ledger ELSE store
     /\ client' = [client EXCEPT ![s] =
          IF config.hmacKey # "weak" /\ store # "unusable" /\ SdkAccepts(asked)
          THEN [state |-> "serving", of |-> asked, ledger |-> store, tools |-> Registered(config.allowWrites)]
          ELSE Refused]

-----------------------------------------------------------------------------
(* The environment and the command line the process is started with. *)
SetVariable ==
  /\ phase = "idle" /\ Cardinality(Departures(env)) < MaxDeparture
  /\ \E v \in Var : \E spelling \in Spellings[v] \ {Plain[v]} :
       env[v] = Plain[v] /\ env' = [env EXCEPT ![v] = spelling]
  /\ UNCHANGED <<args, phase, exitCode, config, ledgerFile, ledger, client>>

Exit(code) == phase' = "exited" /\ exitCode' = code

(* parseCliArgs: an unknown argument, or --force without what it is for. *)
ArgsOk(a) == "unknown" \notin a /\ ("force" \in a => "release" \in a)

(* main up to the configuration: usage, token and the operator commands    *)
(* come first, in this order, and need no configuration but the file.      *)
Launch ==
  /\ phase = "idle"
  /\ \E a \in {{}, {"http"}} \cup {x \in SUBSET Arg : Cardinality(x) \in 1 .. 2 /\ env = Plain} :
       /\ args' = a
       /\ IF ~ArgsOk(a) THEN Exit(2)
          ELSE IF a \cap {"help", "generateToken"} # {} THEN Exit(0)
          ELSE IF a \cap {"release", "clear"} # {}
               THEN IF env.STORE_FILE = "/ledger" THEN \E done \in {0, 1} : Exit(done) ELSE Exit(1)
          ELSE phase' = "configured" /\ UNCHANGED exitCode
  /\ UNCHANGED <<env, config, ledgerFile, ledger, client>>

(* The configuration is read, and a configured ledger file opened once, to *)
(* fail at the start and not at the first label.                           *)
Configure ==
  /\ phase = "configured"
  /\ LET loaded == LoadConfig(env) IN
       IF loaded = NoConfig \/ (loaded.operationStoreFile # "" /\ ledgerFile = "corrupt")
       THEN Exit(1) /\ UNCHANGED config
       ELSE config' = loaded /\ phase' = "checked" /\ UNCHANGED exitCode
  /\ UNCHANGED <<env, args, ledgerFile, ledger, client>>

Loopback == {"127.0.0.1", "localhost"}

(* startHttpServer's own refusals, whoever built the configuration. *)
HttpStarts(c) ==
  /\ c.host \notin Loopback => c.bearerToken # ""
  /\ c.allowWrites => c.bearerToken # ""
  /\ ~UnsafeOrigin(c.allowedOrigins) /\ c.bearerToken # "weak"

RunHttp ==
  /\ phase = "checked" /\ "http" \in args
  /\ IF HttpStarts(config) THEN phase' = "listening" /\ UNCHANGED exitCode ELSE Exit(1)
  /\ UNCHANGED <<env, args, config, ledgerFile, ledger, client>>

(* stdio has one session, made before the server is announced; a refusal   *)
(* rejects main.                                                           *)
RunStdio ==
  /\ phase = "checked" /\ "http" \notin args
  /\ LET s == CHOOSE x \in Session : TRUE IN
       /\ CreateServer(s)
       /\ IF client'[s] = Refused THEN Exit(1) ELSE phase' = "listening" /\ UNCHANGED exitCode
  /\ UNCHANGED <<env, args, config, ledgerFile>>

(* An HTTP session is opened; one that is refused is a 500 for its caller. *)
OpenSession(s) ==
  /\ phase = "listening" /\ "http" \in args /\ client[s] \in {NoClient, Refused}
  /\ CreateServer(s)
  /\ UNCHANGED <<env, args, phase, exitCode, config, ledgerFile>>

(* Someone damages the file while the server runs, or before it does. *)
SpoilFile ==
  /\ ledgerFile = "usable" /\ phase \in {"configured", "checked", "listening"} /\ env.STORE_FILE = "/ledger"
  /\ ledgerFile' = "corrupt"
  /\ UNCHANGED <<env, args, phase, exitCode, config, ledger, client>>

(* waitForShutdown: the first signal closes; for later ones see below. *)
Signal ==
  /\ phase = "listening" /\ phase' = "closing"
  /\ UNCHANGED <<env, args, exitCode, config, ledgerFile, ledger, client>>

ProcessEnds(code) ==
  /\ phase = "closing" /\ Exit(code)
  /\ client' = [s \in Session |-> NoClient] /\ ledger' = "none"
  /\ UNCHANGED <<env, args, config, ledgerFile>>

Closed == ProcessEnds(0)

(* Each listener serves once.  While the server closes, the other signal   *)
(* is ignored; the same one again has its default effect and kills it.     *)
SignalAgain == ProcessEnds(130)

StartupNext ==
  \/ SetVariable \/ Launch \/ Configure \/ RunHttp \/ RunStdio \/ SpoilFile \/ Signal \/ Closed \/ SignalAgain
  \/ \E s \in Session : OpenSession(s)

StartupSpec == StartupInit /\ [][StartupNext]_startupVars

-----------------------------------------------------------------------------
Serving == {s \in Session : client[s].state = "serving"}

(* Newegg serves whatever account the keys belong to. As long as the       *)
(* operator's declaration is true, no session ever talks to Newegg with    *)
(* keys that were issued for another marketplace than the one it serves    *)
(* (config/index.ts:643, client/config.ts:208).                            *)
KeysServeTheirAccount ==
  \A s \in Serving :
    \/ client[s].of.keys.issuedFor = client[s].of.marketplace
    \/ env.LEGACY_KEYS # "" /\ Normalize(env.NEWEGG_CREDENTIALS_MARKETPLACE) \in Marketplaces \ {env.LEGACY_KEYS}

(* A session is what the operator configured. A cap on money, a gate and a *)
(* pin mean the same from the environment to the session that uses them: a *)
(* blank or misspelt value never lifts the label cap, a pin or a CA the    *)
(* operator set is what the reports are fetched with, and write tools over *)
(* HTTP stand behind a strong token (config/index.ts:311, build.ts:182,    *)
(* http.ts:223). What it can call is what the server advertises, and       *)
(* without the exact opt-in not even the preview half of a write is among  *)
(* it (build.ts:224, 424). And every session of a process shares one       *)
(* ledger of label purchases, the file whenever one is configured, even    *)
(* one damaged after the start check (operation-store.ts:60, cli.ts:330).  *)
ConfigurationIsHonoured ==
  \A s \in Serving :
    /\ config.maxLabelAmount = NoCap => env.MAX_LABEL_AMOUNT \in {"OFF", "off", "unlimited"}
    /\ env.FTPS_CERT_SHA256 # "" \/ env.FTPS_CA_FILE # ""
         => client[s].of.ftp = [ftps |-> TRUE, pin |-> env.FTPS_CERT_SHA256, ca |-> env.FTPS_CA_FILE]
    /\ "http" \in args /\ client[s].tools # Reads => env.BEARER_TOKEN = "strong"
    /\ client[s].tools = Advertised(config.allowWrites)
    /\ env.ALLOW_WRITES # "true" => client[s].tools \subseteq Reads
    /\ client[s].ledger = ledger
    /\ env.STORE_FILE # "" => client[s].ledger = "file"
=============================================================================
