----------------------------- MODULE Redaction ------------------------------
(***************************************************************************)
(* What the SDK does to a text, a payload or a cause before it reaches an  *)
(* error, a log line or a tool result: errors/redact.ts, the constructors  *)
(* of errors/index.ts that apply it, and tools/log-redact.ts.              *)
(*                                                                         *)
(* A text is a sequence of tokens. A delimiter is a token of its own, "%"  *)
(* before it once per layer of encoding; "w" is a word, "p" a part of a    *)
(* password, "q" a query string, "N" a report host of Newegg such as       *)
(* ftp03.newegg.com, "h" another host, "***" the mask.                     *)
(*                                                                         *)
(* A payload is a graph of objects: each has a kind and two fields, one    *)
(* under an ordinary name and one under the name of a credential.          *)
(***************************************************************************)
EXTENDS Integers, Sequences, SequencesExt, FiniteSets

CONSTANTS
  Pieces, MaxTokens,            \* the parts texts are made of, and how long they grow
  MAX_SLASHES, MAX_DECODE_ROUNDS,
  Objects, MAX_CAUSE_DEPTH, MAX_CAUSE_NODES, MAX_DEPTH,
  PRINT_DEPTH                   \* the depth option of util.inspect

Leaves == {"clean", "secret", "number"}
Marks  == {"***", "[Circular]", "[Truncated]"}

ASSUME RedactionAssumption ==
  /\ MaxTokens \in Nat /\ MAX_SLASHES \in Nat \ {0} /\ MAX_DECODE_ROUNDS \in Nat
  /\ MAX_CAUSE_DEPTH \in Nat /\ MAX_CAUSE_NODES \in Nat /\ MAX_DEPTH \in Nat
  /\ PRINT_DEPTH \in Nat
  /\ IsFiniteSet(Objects) /\ Objects \cap (Leaves \cup Marks) = {}

VARIABLES text, graph   \* what is about to be redacted

redactionVars == <<text, graph>>

-----------------------------------------------------------------------------
(* One layer of encoding less, and no layer at all when the rounds suffice. *)
Peel == [t \in {"%:", "%/", "%@", "%%:", "%%/", "%%@"} |->
  CASE t = "%:" -> ":" [] t = "%/" -> "/" [] t = "%@" -> "@"
    [] t = "%%:" -> "%:" [] t = "%%/" -> "%/" [] t = "%%@" -> "%@"]

(* Texts. A word, a password and a host name can all be read as a scheme.  *)
Tokens == {":", "/", "\\", "@", "?", "'", " ", ",", "=", "w", "p", "q", "N", "h", "***"} \cup DOMAIN Peel
Texts  == Seq(Tokens)

ASSUME PiecesAssumption == Pieces \subseteq Texts

Slashes      == {"/", "\\"}
SchemeChar   == {"w", "p", "N", "h", "q"}
Space        == {" "}
UserinfoEnd  == Space \cup Slashes \cup {"?", "'"}
ReservedEnd  == Space \cup {"'"}
UserEnd      == UserinfoEnd \cup {":", "@"}
SchemelessUserEnd     == UserEnd \cup {",", "="}
SchemelessPasswordEnd == Space \cup Slashes \cup {"'"}
TokenBoundary         == Space \cup {"'", ",", "="}
BeforeRelative        == SchemeChar \cup Slashes \cup {":"}

(* The token at a place, and a token no class holds past the end. *)
At(t, i) == IF i \in 1 .. Len(t) THEN t[i] ELSE ""

(* runEnd: the first place from i on whose token is in ends. *)
RunEnd(t, i, ends) == Min({j \in i .. Len(t) : t[j] \in ends} \cup {Max({i, Len(t) + 1})})

(* lastAtIn, 0 when there is none. *)
LastAt(t, i, j) == Max({k \in i .. j - 1 : At(t, k) = "@"} \cup {0})

DecodeOnce(t) == [i \in DOMAIN t |-> IF t[i] \in DOMAIN Peel THEN Peel[t[i]] ELSE t[i]]
Decoded(t) == FoldLeft(LAMBDA s, r : DecodeOnce(s), t, [r \in 1 .. MAX_DECODE_ROUNDS |-> r])

(* A hit replaces the tokens from start to before end by text. *)
Hit(start, end, by) == [start |-> start, end |-> end, by |-> by]
Miss == Hit(0, 0, <<>>)
NoMemo == [from |-> 0, end |-> 0, found |-> 0]

(* replacePass: one pass from left to right. Try answers, for a candidate, *)
(* a hit and what it measured on the way.                                  *)
Pass(t, Candidate(_, _), Try(_, _, _, _)) ==
  LET Step(s, i) ==
        IF i < s.from \/ ~Candidate(t, i) THEN s
        ELSE LET r == Try(t, i, s.copied, s.memo) IN
             IF r.hit = Miss THEN [s EXCEPT !.memo = r.memo]
             ELSE [out |-> s.out \o SubSeq(t, s.copied, r.hit.start - 1) \o r.hit.by,
                   copied |-> r.hit.end, from |-> Max({r.hit.end, i + 1}), memo |-> r.memo]
      scan[i \in 0 .. Len(t)] ==
        IF i = 0 THEN [out |-> <<>>, copied |-> 1, from |-> 1, memo |-> NoMemo] ELSE Step(scan[i - 1], i)
      end == scan[Len(t)]
  IN end.out \o SubSeq(t, end.copied, Len(t))

SchemeColon(t, i) == t[i] = ":" /\ At(t, i + 1) \in Slashes
SlashPair(t, i)   == t[i] = "/" /\ At(t, i + 1) = "/"
TokenStart(t, i)  == i = 1 \/ t[i - 1] \in TokenBoundary

(* schemeStart: the scheme that ends at a colon, not before what is copied. *)
SchemeStart(t, colon, notBefore) ==
  Min({b \in notBefore .. colon : \A k \in b .. colon - 1 : t[k] \in SchemeChar} \cup {colon})

(* The place after the slashes that follow a colon. *)
AfterSlashes(t, colon) == Min({j \in colon + 1 .. Len(t) + 1 : At(t, j) \notin Slashes})

Masked(t, start, colon, begin, at) ==
  Hit(start, at + 1, SubSeq(t, start, begin - 1) \o <<"***", "@">>)

(* schemeHit: scheme://user:password@, up to the last @ of the authority;  *)
(* a single slash counts only when a colon comes before a delimiter.       *)
SchemeTry(t, colon, copied, memo) ==
  LET start   == SchemeStart(t, colon, copied)
      begin   == AfterSlashes(t, colon)
      slashes == begin - colon - 1
      at      == LastAt(t, begin, RunEnd(t, begin, UserinfoEnd))
      ok == /\ start < colon /\ slashes \in 1 .. MAX_SLASHES
            /\ slashes > 1 \/ At(t, RunEnd(t, begin, UserEnd)) = ":"
            /\ at > 0
  IN [hit |-> IF ok THEN Masked(t, start, colon, begin, at) ELSE Miss, memo |-> memo]

FirstNeweggAt(t, i, end) == Min({k \in i .. end - 1 : t[k] = "@" /\ At(t, k + 1) = "N"} \cup {Len(t) + 2})
LastNeweggAt(t, i, end)  == Max({k \in i .. end - 1 : t[k] = "@" /\ At(t, k + 1) = "N"} \cup {0})

(* Mutant: a place past the @ found is answered by the old measurement. *)
MeasuredOnce(t, begin, memo) ==
  IF memo.from > 0 /\ begin \in memo.from .. memo.end THEN memo
  ELSE LET end == RunEnd(t, begin, ReservedEnd)
       IN [from |-> begin, end |-> end, found |-> FirstNeweggAt(t, begin, end)]

(* What reservedPasswordHit knows of the run at begin: measured anew in a  *)
(* new run, and searched again past the @ that was found.                  *)
Measured(t, begin, memo) ==
  LET same == memo.from > 0 /\ begin \in memo.from .. memo.end
      end  == IF same THEN memo.end ELSE RunEnd(t, begin, ReservedEnd)
  IN IF same /\ ~(memo.found <= Len(t) /\ begin > memo.found) THEN memo
     ELSE [from |-> begin, end |-> end, found |-> FirstNeweggAt(t, begin, end)]

(* reservedPasswordHit: a password with a delimiter of URLs in it, when a  *)
(* host of Newegg follows.                                                 *)
ReservedTry(t, colon, copied, memo) ==
  LET start == SchemeStart(t, colon, copied)
      begin == Min({AfterSlashes(t, colon), colon + 1 + MAX_SLASHES})
      m     == Measured(t, begin, memo)
  IN IF start = colon \/ begin < colon + 3 THEN [hit |-> Miss, memo |-> memo]
     ELSE [hit |-> IF m.found > Len(t) THEN Miss ELSE Masked(t, start, colon, begin, m.found), memo |-> m]

(* relativeHit: //user:password@, with nothing before it that would make   *)
(* it the rest of something else.                                          *)
RelativeTry(t, i, copied, memo) ==
  LET userEnd == RunEnd(t, i + 2, UserEnd)
      at      == LastAt(t, userEnd + 1, RunEnd(t, userEnd + 1, UserinfoEnd))
      ok == /\ ~(i > 1 /\ t[i - 1] \in BeforeRelative)
            /\ userEnd > i + 2 /\ At(t, userEnd) = ":" /\ at > 0
  IN [hit |-> IF ok THEN Hit(i, at + 1, <<"/", "/", "***", "@">>) ELSE Miss, memo |-> memo]

(* schemelessHit: user:password@ before a report host. One measurement     *)
(* answers every candidate of its run.                                     *)
SchemelessTry(t, i, copied, memo) ==
  LET userEnd == RunEnd(t, i, SchemelessUserEnd)
      begin   == userEnd + 1
      end     == RunEnd(t, begin, SchemelessPasswordEnd)
      m == IF memo.from > 0 /\ begin \in memo.from .. memo.end THEN memo
           ELSE [from |-> begin, end |-> end, found |-> LastNeweggAt(t, begin, end)]
  IN IF userEnd = i \/ At(t, userEnd) # ":" THEN [hit |-> Miss, memo |-> memo]
     ELSE [hit |-> IF m.found < begin THEN Miss ELSE Hit(i, m.found + 1, <<"***", "@">>), memo |-> m]

SchemePass     == [t \in Texts |-> Pass(t, SchemeColon, SchemeTry)]
ReservedPass   == [t \in Texts |-> Pass(t, SchemeColon, ReservedTry)]
RelativePass   == [t \in Texts |-> Pass(t, SlashPair, RelativeTry)]
SchemelessPass == [t \in Texts |-> Pass(t, TokenStart, SchemelessTry)]

(* redactVisible: the four passes in their order. *)
RedactVisible(t) == SchemelessPass[RelativePass[ReservedPass[SchemePass[t]]]]

(* Mutant: only what can be read as it stands is redacted. *)
RedactDirect(t) == RedactVisible(t)

(* redactUrlCredentials: the decoded spelling is shown only when it        *)
(* revealed something.                                                     *)
RedactUrl(t) ==
  LET shown == [d \in Texts |-> LET r == RedactVisible(d) IN IF r # d THEN r ELSE RedactVisible(t)]
  IN shown[Decoded(t)]

(* redactQueryStrings, then all of redactLogText a text of URLs can meet.  *)
QueryTry(t, i, copied, memo) ==
  LET end   == RunEnd(t, i + 3, Space \cup {"?", "'"})
      query == RunEnd(t, end + 1, Space \cup {"'"})
  IN [hit |-> IF At(t, end) = "?" THEN Hit(end + 1, query, <<"***">>) ELSE Hit(end, end, <<>>), memo |-> memo]

Separator(t, i) == t[i] = ":" /\ At(t, i + 1) = "/" /\ At(t, i + 2) = "/"
QueryPass == [t \in Texts |-> Pass(t, Separator, QueryTry)]
RedactLog(t) == QueryPass[RedactUrl(t)]

-----------------------------------------------------------------------------
(* Payloads and causes. A leaf is a clean text, a text with a credential   *)
(* in it, or a number; an object has a field with an ordinary name and one *)
(* with the name of a credential.                                          *)
Names == <<"link", "token">>
Kinds == {"plain",     \* data
          "instance",  \* an error, a class instance: a copy keeps the prototype
          "map",       \* a Map: a copy is made of its entries
          "private"}   \* a copy would not work: #private fields, Response, Request

(* An answer is the set of what can be found in it: values that are kept,  *)
(* the leaves kept right under the name of a credential, and the objects   *)
(* that are copied or printed in a text.                                   *)
Kept(v) == {<<"kept", v>>}
Cuts    == Kept("[Circular]") \cup Kept("[Truncated]")

Copy(v, first, second) ==
  {<<"copy", v>>} \cup first \cup second \cup {<<"keyed", l>> : l \in {m \in Leaves : second = Kept(m)}}

(* textSummary prints v and what it holds, some levels down. *)
Below(S) == {o \in Objects : \E p \in S, i \in 1 .. 2 : graph[p].fields[i] = o}
PrintedIn(v) ==
  LET level[n \in 0 .. PRINT_DEPTH] == IF n = 0 THEN {v} ELSE Below(level[n - 1])
  IN {v} \cup UNION {level[n] : n \in 1 .. PRINT_DEPTH}

Text(v, first, second) == {<<"text", o>> : o \in PrintedIn(v)} \cup (Cuts \cap (first \cup second))

(* What stands for v: v itself when nothing in it changed, else a copy, or *)
(* a text where no copy would work.                                        *)
Rebuilt(v, first, second) ==
  IF first = Kept(graph[v].fields[1]) /\ second = Kept(graph[v].fields[2]) THEN Kept(v)
  ELSE IF graph[v].kind = "private" THEN Text(v, first, second) ELSE Copy(v, first, second)

(* Mutant: a number is no secret. *)
StringUnderKey(name, v) == name = "token" /\ v \in {"clean", "secret"}

(* isSecretUnderKey: whatever text or number a credential name holds. *)
SecretUnderKey(name, v) == name = "token" /\ v \in Leaves

Redacted(leaf) == Kept(IF leaf = "secret" THEN "***" ELSE leaf)

(* cleanCauseValue. Answers what stands for a value and the objects        *)
(* visited so far; path holds the objects on the way down.                 *)
CauseCalls == [of : Objects \cup Leaves, path : SUBSET Objects, nodes : Nat]
CauseCall(v, path, nodes) == [of |-> v, path |-> path, nodes |-> nodes]

CleanField(Clean, call, i, nodes) ==
  LET f == graph[call.of].fields[i]
  IN IF SecretUnderKey(Names[i], f) THEN [out |-> Kept("***"), nodes |-> nodes]
     ELSE Clean[CauseCall(f, call.path \cup {call.of}, nodes)]

CleanObject(Clean, call) ==
  LET first  == CleanField(Clean, call, 1, call.nodes + 1)
      second == CleanField(Clean, call, 2, first.nodes)
  IN [out |-> Rebuilt(call.of, first.out, second.out), nodes |-> second.nodes]

CleanStep(Clean, call) ==
  IF call.of \in Leaves THEN [out |-> Redacted(call.of), nodes |-> call.nodes]
  ELSE IF call.of \in call.path THEN [out |-> Kept("[Circular]"), nodes |-> call.nodes]
  ELSE IF Cardinality(call.path) >= MAX_CAUSE_DEPTH \/ call.nodes + 1 > MAX_CAUSE_NODES
  THEN [out |-> Kept("[Truncated]"), nodes |-> call.nodes + 1]
  ELSE CleanObject(Clean, call)

SanitizeCause(v) ==
  LET Clean[call \in CauseCalls] == CleanStep(Clean, call)
  IN Clean[CauseCall(v, {}, 0)].out

(* maskCredentialText on one entry of a text, when a colon or "=" follows  *)
(* the name: any name that is header-like or a cookie's; a plain word such *)
(* as `token` only where it cannot be prose, before "=", in quotes, before *)
(* a quoted value, or as the key of a number in an object literal.         *)
MasksEntry(e) ==
  /\ e.sep \in {":", "="}
  /\ \/ e.name \in {"header", "cookie"}
     \/ e.sep = "=" \/ e.quotedName \/ e.value = "quoted"
     \/ e.key /\ e.value = "number"

(* The entry util.inspect prints for the second field of an object, its    *)
(* name quoted or not: `name: value`, of a Map `name => value`.            *)
Printed(name, quotedName, o) ==
  [name |-> name, quotedName |-> quotedName, sep |-> IF graph[o].kind = "map" THEN "=>" ELSE ":", key |-> TRUE,
   value |-> IF graph[o].fields[2] = "number" THEN "number" ELSE "quoted"]

(* sanitizeDetails copies data all the way down and cleans what is not     *)
(* data as a cause; sanitizeRaw (raw) lets that through and masks no key.  *)
DataCalls == [of : Objects \cup Leaves, seen : SUBSET Objects]
DataCall(v, seen) == [of |-> v, seen |-> seen]

CopyField(Clean, call, i, raw) ==
  LET f == graph[call.of].fields[i]
  IN IF ~raw /\ SecretUnderKey(Names[i], f) THEN Kept("***")
     ELSE Clean[DataCall(f, call.seen \cup {call.of})]

SanitizeStep(Clean, call, raw) ==
  IF call.of \in Leaves THEN Redacted(call.of)
  ELSE IF graph[call.of].kind # "plain" THEN IF raw THEN Kept(call.of) ELSE SanitizeCause(call.of)
  ELSE IF call.of \in call.seen \/ Cardinality(call.seen) >= MAX_DEPTH THEN Kept("[Circular]")
  ELSE Copy(call.of, CopyField(Clean, call, 1, raw), CopyField(Clean, call, 2, raw))

Sanitize(v, raw) ==
  LET Clean[call \in DataCalls] == SanitizeStep(Clean, call, raw)
  IN Clean[DataCall(v, {})]

(* What the constructor of NeweggError keeps. *)
NeweggError(cause, details) == [cause |-> SanitizeCause(cause), details |-> Sanitize(details, FALSE)]

(* Nothing secret can be reached from v: some set of objects around it     *)
(* holds all that its members lead to, and none of them holds a secret.    *)
HoldsNoSecret(o, S) ==
  \A i \in 1 .. 2 : LET f == graph[o].fields[i] IN f \in S \cup {"clean", "number"} /\ ~SecretUnderKey(Names[i], f)

Harmless(v) == \E S \in SUBSET Objects : v \in S /\ \A o \in S : HoldsNoSecret(o, S)

(* No secret can be reached in an answer; keyed: nor what is one by its    *)
(* name, but in the entries of a Map printed inside another object, which  *)
(* no pattern of a text covers.                                            *)
Safe(answer, keyed) ==
  /\ <<"kept", "secret">> \notin answer
  /\ \A o \in Objects : <<"kept", o>> \in answer => Harmless(o)
  /\ keyed => /\ \A l \in Leaves : <<"keyed", l>> \notin answer
              /\ \A o \in Objects, name \in {"header", "generic", "cookie"}, q \in BOOLEAN :
                   <<"text", o>> \in answer /\ graph[o].fields[2] \in Leaves /\ graph[o].kind # "map"
                     => MasksEntry(Printed(name, q, o))

CutOff(answer) == Cuts \cap answer # {}

-----------------------------------------------------------------------------
(* The scheme, the slashes, the user, the password and the host of one URL *)
(* as Newegg or a proxy may spell it.                                      *)
Passwords == {<<"p">>, <<"p", "@", "p">>, <<"p", ":", "p">>, <<"p", "/", "p">>, <<"p", "?", "p">>}
Heads     == {<<"w", ":", "/", "/">>, <<"w", ":", "\\", "\\">>, <<"w", ":", "/">>,
              <<"w", ":", "/", "/", "/">>, <<"/", "/">>, <<>>}
Tails     == {<<>>, <<"/", "w">>, <<"/", "w", "?", "q">>, <<" ", "w">>}

Layer == Inverse(Peel, DOMAIN Peel, {":", "/", "@", "%:", "%/", "%@"})
EncodeOnce(t) == [i \in DOMAIN t |-> IF t[i] \in DOMAIN Layer THEN Layer[t[i]] ELSE t[i]]
Encoded(t, n) == IF n = 0 THEN t ELSE IF n = 1 THEN EncodeOnce(t) ELSE EncodeOnce(EncodeOnce(t))

(* The spellings redact.ts lists: a password with a delimiter of URLs in   *)
(* it needs a scheme, two slashes and a host of Newegg; an address without *)
(* scheme and slashes needs a report host.                                 *)
ListedUrl(head, pass, host) ==
  \/ head = <<>> /\ host = "N" /\ "/" \notin Range(pass)
  \/ head # <<>> /\ {"/", "?"} \cap Range(pass) = {}
  \/ Len(head) > 3 /\ host = "N"

Empty == [tokens |-> <<>>, listed |-> FALSE]
Data  == [kind |-> "plain", fields |-> <<"clean", "clean">>]

RedactionInit == text = Empty /\ graph = [o \in Objects |-> Data]

Untouched == text = Empty /\ graph = [o \in Objects |-> Data]

(* A text with one listed URL in it. *)
TakeUrl ==
  /\ Untouched
  /\ \E before \in {<<>>, <<" ">>, <<"w", ",">>}, head \in Heads, pass \in Passwords,
        host \in {"N", "h"}, tail \in Tails, n \in 0 .. 2 :
       /\ ListedUrl(head, pass, host)
       /\ text' = [tokens |-> Encoded(before \o head \o <<"w", ":">> \o pass \o <<"@", host>> \o tail, n),
                   listed |-> TRUE]
  /\ UNCHANGED graph

(* A text put together from pieces. *)
TakePiece ==
  /\ ~text.listed /\ graph = [o \in Objects |-> Data]
  /\ Len(text.tokens) < MaxTokens
  /\ \E p \in Pieces : text' = [text EXCEPT !.tokens = @ \o p]
  /\ UNCHANGED graph

TakeCause ==
  /\ Untouched
  /\ graph' \in [Objects -> [kind : Kinds, fields : (Objects \cup Leaves) \X (Objects \cup Leaves)]]
  /\ UNCHANGED text

RedactionNext == TakeUrl \/ TakePiece \/ TakeCause

RedactionSpec == RedactionInit /\ [][RedactionNext]_redactionVars

-----------------------------------------------------------------------------
ReservedAlone(t, i, copied, memo)   == [hit |-> ReservedTry(t, i, copied, NoMemo).hit, memo |-> NoMemo]
SchemelessAlone(t, i, copied, memo) == [hit |-> SchemelessTry(t, i, copied, NoMemo).hit, memo |-> NoMemo]

(* What the candidates of one run share does not show in the result.       *)
SharingChangesNothing(t) ==
  /\ Pass(t, SchemeColon, ReservedTry) = Pass(t, SchemeColon, ReservedAlone)
  /\ Pass(t, TokenStart, SchemelessTry) = Pass(t, TokenStart, SchemelessAlone)

(* No part of a password of a listed URL is left, nor of its query in a    *)
(* log line, and the host that follows is; and a text that is redacted     *)
(* again, when an error wraps an error, does not change any more           *)
(* (errors/redact.ts:370-381, errors/index.ts:65-80,                       *)
(* tools/log-redact.ts:206-214). What candidates of one run share saves    *)
(* work and nothing else: every candidate gets the answer it would measure *)
(* for itself (errors/redact.ts:250-287, 329-356).                         *)
UrlsRedacted ==
  /\ text.listed =>
       \A out \in {RedactUrl(text.tokens)}, log \in {RedactLog(text.tokens)} :
         /\ RedactUrl(out) = out
         /\ "p" \notin Range(out) \cup Range(log)
         /\ \E i \in DOMAIN log : SubSeq(log, 1, i) = SubSeq(out, 1, i) /\ log[i] \in {"N", "h"}
         /\ (\E i \in DOMAIN out : Separator(out, i)) => "q" \notin Range(log)
  /\ SharingChangesNothing(text.tokens)

(* Whatever graph of objects an error is given as its cause or its         *)
(* details, nothing secret can be reached from what it keeps, and a cause  *)
(* with nothing to hide stays the very object it was unless it was cut off *)
(* (errors/redact.ts:431-458, 1079-1116). Excepted: a Map inside an object *)
(* that is printed as a text because no copy of it would work. It prints   *)
(* its entries as `name => value`, and those stand (errors/redact.ts:      *)
(* 557-560, 755-771, 1074), against what is said of Maps at 1094-1096.     *)
CausesComeOutClean ==
  \A v \in Objects :
    LET error == NeweggError(v, v) IN
    /\ Safe(error.cause, TRUE) /\ Safe(error.details, TRUE)
    /\ (\A o \in Objects : graph[o].kind = "plain") => Safe(Sanitize(v, TRUE), FALSE)
    /\ Harmless(v) => error.cause = Kept(v) \/ CutOff(error.cause)

=============================================================================
