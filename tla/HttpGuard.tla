------------------------------ MODULE HttpGuard ------------------------------
(***************************************************************************)
(* What a request must pass before it reaches the sessions of the HTTP     *)
(* transport: route() of server/http.ts with the checks of auth/index.ts,  *)
(* and the table of failed bearer attempts that slows guessing down.       *)
(*                                                                         *)
(* A record of the table is an object: a request that sleeps on one goes   *)
(* on holding it after the table forgot it. Records are named by the       *)
(* request that made them.                                                 *)
(***************************************************************************)
EXTENDS Integers, SequencesExt, FiniteSets

CONSTANTS
  Callers,              \* requests, each made once
  Addresses,            \* remoteAddress of a socket
  NoRecord,
  baseMs, maxMs,        \* the backoff, in ticks
  MAX_PENDING, MEMORY, DECAY_INTERVAL, MAX_TRACKED

(* A sleep ends before a failure is forgotten (5 seconds, 15 minutes).     *)
ASSUME GuardAssumption ==
  /\ NoRecord \notin Callers \cup Addresses
  /\ baseMs \in Nat \ {0} /\ maxMs \in Nat /\ MEMORY \in Nat /\ maxMs < MEMORY
  /\ MAX_PENDING \in Nat \ {0} /\ DECAY_INTERVAL \in Nat /\ MAX_TRACKED \in Nat \ {0}

VARIABLES
  asked,      \* what a request carries, Nothing before it is made
  answer,     \* waiting, sleeping, a status, or "mcp" when handed to the sessions
  cors,       \* whether the answer lets the page of its origin read it
  sleep,      \* ticks left
  holds,      \* the record a request sleeps on
  records,    \* of a record: failures, pending, ticks since lastAt and lastDecayAt
  tracked,    \* clientFailures: addresses with their records, oldest first
  sender,     \* the address of a request that sleeps
  dropped     \* history: addresses the table was too full to keep

guardVars == <<asked, answer, cors, sleep, holds, records, tracked, sender, dropped>>

Headers ==
  [host: {"none", "malformed", "loopback", "listed", "other"}, target: {"fine", "malformed"},
   path: {"/mcp", "/healthz", "/other"}, method: {"OPTIONS", "GET", "POST"},
   origin: {"none", "listed", "other"}, site: {"none", "same-origin", "cross-site"},
   token: {"none", "good", "wrong"}]
Ordinary == [host |-> "loopback", target |-> "fine", path |-> "/mcp", method |-> "POST",
             origin |-> "none", site |-> "none", token |-> "wrong"]
Nothing == [host |-> "nothing"]

GuardInit ==
  /\ asked = [r \in Callers |-> Nothing]
  /\ answer = [r \in Callers |-> "waiting"]
  /\ cors = [r \in Callers |-> FALSE]
  /\ sleep = [r \in Callers |-> 0]
  /\ holds = [r \in Callers |-> NoRecord]
  /\ records = [r \in Callers |-> [failures |-> 0, pending |-> 0, lastAt |-> 0, lastDecayAt |-> 0]]
  /\ tracked = <<>>
  /\ sender = [r \in Callers |-> NoRecord]
  /\ dropped = {}

-----------------------------------------------------------------------------
HostAllowed(q)   == q.host \in {"loopback", "listed"}
OriginAllowed(q) == q.origin \in {"none", "listed"}

(* Mutant: the header is believed when there is an origin, not when there is none. *)
FetchSiteOfOrigins(q) == q.origin = "none" \/ q.site \in {"none", "same-origin"}

(* isFetchSiteAllowed: only a request without an Origin is judged by it.   *)
FetchSiteAllowed(q) == q.origin # "none" \/ q.site \in {"none", "same-origin"}

(* route up to the token: a status, or "token" when that is next. Both     *)
(* answers given before the guards of /mcp have guards of their own.       *)
Route(q) ==
  LET early == q.method = "OPTIONS" \/ (q.path = "/healthz" /\ q.method = "GET") IN
  IF q.host = "malformed" \/ q.target = "malformed" THEN "400"
  ELSE IF early /\ ~(HostAllowed(q) /\ FetchSiteAllowed(q)) THEN "403"
  ELSE IF q.method = "OPTIONS" THEN IF OriginAllowed(q) THEN "204" ELSE "403"
  ELSE IF early THEN "200"
  ELSE IF q.path # "/mcp" THEN "404"
  ELSE IF OriginAllowed(q) /\ FetchSiteAllowed(q) /\ HostAllowed(q) THEN "token"
  ELSE "403"

(* setCorsHeaders: for a preflight of a listed origin, and on /mcp as soon *)
(* as the origin and fetch-site checks are past.                           *)
Cors(q) ==
  /\ q.origin = "listed" /\ q.host # "malformed" /\ q.target = "fine"
  /\ IF q.method = "OPTIONS" THEN HostAllowed(q)
     ELSE q.path = "/mcp"

(* Where an address stands in the table, and the record it has there.      *)
TrackedAt(a) == {i \in DOMAIN tracked : tracked[i].address = a}

Record(a) == IF TrackedAt(a) = {} THEN NoRecord ELSE tracked[CHOOSE i \in TrackedAt(a) : TRUE].record

(* The delay of the k-th failure in a row: base * 2^(k-1), capped. *)
Doubled(failures) ==
  LET doubled[k \in 1 .. failures] == IF k = 1 THEN baseMs ELSE 2 * doubled[k - 1] IN doubled

Delay(failures) ==
  IF Doubled(failures)[failures] < maxMs THEN Doubled(failures)[failures] ELSE maxMs

(* Mutant: a failure is forgotten before the sleep it earned is over. *)
ForgottenSoon(record) == records[record].lastAt > 0

Forgotten(record) == records[record].lastAt > MEMORY

(* The table with an address moved to its end; the oldest is dropped when  *)
(* it is too long.                                                         *)
Moved(a, record) ==
  LET others == IF TrackedAt(a) = {} THEN tracked ELSE RemoveAt(tracked, CHOOSE i \in TrackedAt(a) : TRUE)
  IN Append(others, [address |-> a, record |-> record])

Track(a, record) ==
  LET moved == Moved(a, record) IN
  IF Len(moved) > MAX_TRACKED
  THEN tracked' = Tail(moved) /\ dropped' = dropped \cup {Head(moved).address}
  ELSE tracked' = moved /\ UNCHANGED dropped

(* throttleFailure up to its sleep. A record is started over when its last *)
(* failure is forgotten; too many sleepers on it is a 429 at once.         *)
ThrottleFailure(r, a) ==
  LET old   == Record(a)
      fresh == old = NoRecord \/ Forgotten(old)
      id    == IF fresh THEN r ELSE old
      now   == IF fresh THEN [failures |-> 0, pending |-> IF old = NoRecord THEN 0 ELSE records[old].pending,
                              lastAt |-> 0, lastDecayAt |-> DECAY_INTERVAL]
               ELSE records[old]
  IN /\ Track(a, id)
     /\ IF now.pending >= MAX_PENDING
        THEN /\ answer' = [answer EXCEPT ![r] = "429"]
             /\ records' = [records EXCEPT ![id] = now]
             /\ UNCHANGED <<sleep, holds, sender>>
        ELSE /\ records' = [records EXCEPT ![id] =
                  [failures |-> now.failures + 1, pending |-> now.pending + 1, lastAt |-> 0,
                   lastDecayAt |-> now.lastDecayAt]]
             /\ answer' = [answer EXCEPT ![r] = "sleeping"]
             /\ sleep' = [sleep EXCEPT ![r] = Delay(now.failures + 1)]
             /\ holds' = [holds EXCEPT ![r] = id]
             /\ sender' = [sender EXCEPT ![r] = a]

(* decayFailures: a good token takes one failure off, once per interval.   *)
DecayFailures(a) ==
  LET id == Record(a) IN
  IF id = NoRecord THEN UNCHANGED records
  ELSE IF records[id].failures > 0 /\ records[id].lastDecayAt >= DECAY_INTERVAL
       THEN records' = [records EXCEPT ![id] = [records[id] EXCEPT !.failures = records[id].failures - 1,
                                                                  !.lastDecayAt = 0]]
       ELSE UNCHANGED records

(* What a request may carry: anything when it comes alone, otherwise only  *)
(* the token differs, so that headers and guesses do not multiply.         *)
Guess == {[Ordinary EXCEPT !.token = t] : t \in {"good", "wrong"}}
Carries(r) ==
  IF \A x \in Callers : asked[x] = Nothing THEN Headers
  ELSE IF \A x \in Callers : asked[x] \in Guess \cup {Nothing} THEN Guess ELSE {}

(* A request arrives; the ones that are stopped before the token are       *)
(* answered at once, and so is the good token.                             *)
Request(r) ==
  /\ asked[r] = Nothing
  /\ \E q \in Carries(r), a \in Addresses :
       /\ asked' = [asked EXCEPT ![r] = q]
       /\ cors' = [cors EXCEPT ![r] = Cors(q)]
       /\ \/ /\ Route(q) # "token"
             /\ answer' = [answer EXCEPT ![r] = Route(q)]
             /\ UNCHANGED <<sleep, holds, records, tracked, sender, dropped>>
          \/ /\ Route(q) = "token" /\ q.token = "good"
             /\ DecayFailures(a)
             /\ answer' = [answer EXCEPT ![r] = "mcp"]
             /\ UNCHANGED <<sleep, holds, tracked, sender, dropped>>
          \/ /\ Route(q) = "token" /\ q.token # "good"
             /\ ThrottleFailure(r, a)

(* The end of a sleep: the record that was slept on has one sleeper less.  *)
WakeUp(r) ==
  /\ answer[r] = "sleeping" /\ sleep[r] = 0
  /\ answer' = [answer EXCEPT ![r] = "401"]
  /\ records' = [records EXCEPT ![holds[r]].pending = @ - 1]
  /\ holds' = [holds EXCEPT ![r] = NoRecord]
  /\ sender' = [sender EXCEPT ![r] = NoRecord]
  /\ UNCHANGED <<asked, cors, sleep, tracked, dropped>>

Older(age, limit) == IF age > limit THEN age ELSE age + 1

(* Time passes; a sleeper that is due wakes before it does. *)
GuardTick ==
  /\ tracked # <<>> /\ \A r \in Callers : answer[r] = "sleeping" => sleep[r] > 0
  /\ sleep' = [r \in Callers |-> IF sleep[r] > 0 THEN sleep[r] - 1 ELSE 0]
  /\ records' = [r \in Callers |->
       [records[r] EXCEPT !.lastAt = Older(@, MEMORY), !.lastDecayAt = Older(@, DECAY_INTERVAL)]]
  /\ UNCHANGED <<asked, answer, cors, holds, tracked, sender, dropped>>

GuardNext == GuardTick \/ \E r \in Callers : Request(r) \/ WakeUp(r)

GuardSpec == GuardInit /\ [][GuardNext]_guardVars

-----------------------------------------------------------------------------
(* Whatever the order of the checks, a request that reaches the sessions,  *)
(* or reads the name of the server, was made with a listed host, from no   *)
(* page but one of a listed origin, and the sessions are only reached with *)
(* the token; and no page outside the list may read any answer             *)
(* (http.ts:436, 472, 480, 484). The pending count of every record is the  *)
(* number of requests that sleep on it, however records are decayed,       *)
(* dropped from the table and started over, so that nobody is locked out   *)
(* for good (http.ts:385, 403); and no address has more guesses judged at  *)
(* once than MAX_PENDING (http.ts:377-379), unless the table was too full  *)
(* to keep it: dropped, it starts a new record while its requests sleep on *)
(* the old one (http.ts:383, 389-392).                                     *)
AdmissionIsSound ==
  /\ \A r \in Callers : asked[r] # Nothing =>
       /\ answer[r] \in {"mcp", "200", "204", "401", "429", "sleeping"} => HostAllowed(asked[r])
       /\ answer[r] \in {"mcp", "200", "401", "429", "sleeping"}
            => ~(asked[r].origin = "none" /\ asked[r].site = "cross-site")
       /\ answer[r] = "mcp" => asked[r].origin # "other" /\ asked[r].token = "good"
       /\ cors[r] => asked[r].origin = "listed" /\ answer[r] \notin {"200", "404"}
  /\ \A i \in Callers : records[i].pending = Cardinality({r \in Callers : holds[r] = i})
  /\ \A a \in Addresses \ dropped : Cardinality({r \in Callers : sender[r] = a}) <= MAX_PENDING
=============================================================================
