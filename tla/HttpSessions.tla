---------------------------- MODULE HttpSessions ----------------------------
(***************************************************************************)
(* The session map of startHttpServer, mcp-server/src/server/http.ts: one  *)
(* MCP server per session, a cap on the sessions, an idle sweep, and the   *)
(* orderly close. A request is past the host, origin and token guards.     *)
(*                                                                         *)
(* Every initialize draws a fresh random id, so a session is named by the  *)
(* request that created it. The transport is external: a request is served *)
(* until the transport lets go of it, which for the stream of a GET is     *)
(* when the client leaves or the session closes.                           *)
(***************************************************************************)
EXTENDS Integers, FiniteSets

CONSTANTS
  Requests,      \* HTTP requests, each one made once
  NoSession,     \* no Mcp-Session-Id header
  maxSessions,
  idleTtl        \* sessionIdleTtlSeconds, in ticks

ASSUME SessionsAssumption ==
  /\ NoSession \notin Requests /\ maxSessions \in Nat \ {0} /\ idleTtl \in Nat \ {0}

VARIABLES
  pc,              \* where a request is: idle, body, creating, serving, done
  kind,            \* initialize, call (other POST), stream (GET) or delete
  target,          \* the session a request names, then the one that serves it
  session,         \* of a session: none, open (in the map) or closed
  inflight,        \* SessionEntry.inflight
  age,             \* ticks since SessionEntry.lastSeen, up to idleTtl + 1
  announced,       \* sessions whose initialize the transport accepted
  pendingSessions,
  listener,        \* up, closing (close() visits the sessions), cleared, down
  endedBy          \* history: what closed a session

sessionVars == <<pc, kind, target, session, inflight, age, announced, pendingSessions, listener, endedBy>>

Kinds == {"initialize", "call", "stream", "delete"}
Open  == {s \in Requests : session[s] = "open"}

SessionsInit ==
  /\ pc = [r \in Requests |-> "idle"]
  /\ kind = [r \in Requests |-> "call"]
  /\ target = [r \in Requests |-> NoSession]
  /\ session = [s \in Requests |-> "none"]
  /\ inflight = [s \in Requests |-> 0]
  /\ age = [s \in Requests |-> 0]
  /\ announced = {}
  /\ pendingSessions = 0
  /\ listener = "up"
  /\ endedBy = [s \in Requests |-> "nothing"]

-----------------------------------------------------------------------------
Goto(r, where) == pc' = [pc EXCEPT ![r] = where]

(* serveSession up to its await: the session is marked active. *)
Serve(r, s) ==
  /\ Goto(r, "serving")
  /\ target' = [target EXCEPT ![r] = s]
  /\ inflight' = [inflight EXCEPT ![s] = @ + 1]
  /\ age' = [age EXCEPT ![s] = 0]

(* Leaves the map and closes the MCP server, once: onclose, the sweep, a   *)
(* refused initialize and close() all come down to this.                   *)
Close(set, why) ==
  /\ session' = [s \in Requests |-> IF s \in set THEN "closed" ELSE session[s]]
  /\ endedBy' = [s \in Requests |-> IF s \in set THEN why ELSE endedBy[s]]

(* A request arrives. A POST first reads its body; a GET or DELETE is      *)
(* looked up at once. Only an announced session can be named.              *)
Arrive(r) ==
  /\ pc[r] = "idle" /\ listener \in {"up", "closing"}
  /\ \E k \in Kinds, s \in announced \cup {NoSession} :
       /\ kind' = [kind EXCEPT ![r] = k]
       /\ \/ /\ k \in {"initialize", "call"}
             /\ Goto(r, "body")
             /\ target' = [target EXCEPT ![r] = s]
             /\ UNCHANGED <<inflight, age>>
          \/ /\ k \in {"stream", "delete"} /\ s \in Open
             /\ Serve(r, s)
          \/ /\ k \in {"stream", "delete"} /\ s \notin Open      \* 400, 404
             /\ Goto(r, "done")
             /\ UNCHANGED <<target, inflight, age>>
  /\ UNCHANGED <<session, announced, pendingSessions, listener, endedBy>>

(* Mutant: the session is not looked up again after the body was read. *)
PostToStaleSession(r) ==
  /\ pc[r] = "body" /\ target[r] # NoSession
  /\ Serve(r, target[r])
  /\ UNCHANGED <<kind, session, announced, pendingSessions, listener, endedBy>>

(* The body is read, and names a session: served when it is still there,   *)
(* 404 otherwise.                                                          *)
PostToSession(r) ==
  /\ pc[r] = "body" /\ target[r] # NoSession
  /\ IF target[r] \in Open
     THEN Serve(r, target[r])
     ELSE Goto(r, "done") /\ UNCHANGED <<target, inflight, age>>
  /\ UNCHANGED <<kind, session, announced, pendingSessions, listener, endedBy>>

(* 413 or 400: the body is too large or is not JSON, or the request has no *)
(* session and is not an initialize.                                       *)
Refuse(r) ==
  /\ pc[r] = "body"
  /\ Goto(r, "done")
  /\ UNCHANGED <<kind, target, session, inflight, age, announced, pendingSessions, listener, endedBy>>

(* Mutant: the sessions that are being created are not counted. *)
RoomInMap == Cardinality(Open) < maxSessions

Room == Cardinality(Open) + pendingSessions < maxSessions

(* An initialize without a session id: 503 at the cap, otherwise a server  *)
(* is made and connecting it is awaited.                                   *)
Initialize(r) ==
  /\ pc[r] = "body" /\ target[r] = NoSession /\ kind[r] = "initialize"
  /\ IF Room
     THEN Goto(r, "creating") /\ pendingSessions' = pendingSessions + 1
     ELSE Goto(r, "done") /\ UNCHANGED pendingSessions
  /\ UNCHANGED <<kind, target, session, inflight, age, announced, listener, endedBy>>

(* The server is connected and the session registered, before any answer;  *)
(* the transport accepts the initialize or refuses it.                     *)
Connected(r) ==
  /\ pc[r] = "creating"
  /\ session' = [session EXCEPT ![r] = "open"]
  /\ pendingSessions' = pendingSessions - 1
  /\ \E accepted \in BOOLEAN : announced' = IF accepted THEN announced \cup {r} ELSE announced
  /\ Serve(r, r)
  /\ UNCHANGED <<kind, listener, endedBy>>

(* createServer throws: 500, and the count is given back. *)
CreateFails(r) ==
  /\ pc[r] = "creating"
  /\ pendingSessions' = pendingSessions - 1
  /\ Goto(r, "done")
  /\ UNCHANGED <<kind, target, session, inflight, age, announced, listener, endedBy>>

(* Mutant: the session stays marked active. *)
ReleaseNothing(s) == UNCHANGED <<inflight, age>>

(* The finally of serveSession. *)
Release(s) ==
  /\ inflight' = [inflight EXCEPT ![s] = @ - 1]
  /\ age' = [age EXCEPT ![s] = 0]

(* The transport is done with a request. An initialize it refused takes    *)
(* the session with it, a DELETE closes it; a request that threw leaves    *)
(* the session as it is.                                                   *)
Served(r) ==
  LET s == target[r] IN
  /\ pc[r] = "serving"
  /\ Goto(r, "done")
  /\ Release(s)
  /\ \/ /\ kind[r] = "initialize" /\ s = r /\ r \notin announced /\ s \in Open
        /\ Close({s}, "refusal")
     \/ /\ kind[r] = "delete" /\ s \in Open
        /\ Close({s}, "client")
     \/ UNCHANGED <<session, endedBy>>
  /\ UNCHANGED <<kind, target, announced, pendingSessions, listener>>

-----------------------------------------------------------------------------
(* Time passes for the sessions in the map. *)
SessionsAge ==
  /\ \E s \in Open : age[s] <= idleTtl
  /\ age' = [s \in Requests |-> IF s \in Open /\ age[s] <= idleTtl THEN age[s] + 1 ELSE age[s]]
  /\ UNCHANGED <<pc, kind, target, session, inflight, announced, pendingSessions, listener, endedBy>>

Expired == {s \in Open : inflight[s] = 0 /\ age[s] > idleTtl}

(* The sweeper's timer, until close() clears it. *)
Sweep ==
  /\ listener = "up" /\ Expired # {}
  /\ Close(Expired, "sweep")
  /\ UNCHANGED <<pc, kind, target, inflight, age, announced, pendingSessions, listener>>

(* close(): the sweeper stops and the sessions are closed one after the    *)
(* other, those that appear meanwhile too, each close awaited.             *)
BeginClose ==
  /\ listener = "up"
  /\ listener' = "closing"
  /\ UNCHANGED <<pc, kind, target, session, inflight, age, announced, pendingSessions, endedBy>>

CloseNext ==
  /\ listener = "closing"
  /\ \E s \in Open : Close({s}, "shutdown")
  /\ UNCHANGED <<pc, kind, target, inflight, age, announced, pendingSessions, listener>>

(* Mutant: the map is cleared without closing what is in it. *)
ClearAtOnce ==
  /\ listener = "closing"
  /\ listener' = "cleared"
  /\ UNCHANGED <<pc, kind, target, session, inflight, age, announced, pendingSessions, endedBy>>

(* The loop is at its end: the map is cleared, no request is accepted. *)
Clear ==
  /\ listener = "closing" /\ Open = {}
  /\ listener' = "cleared"
  /\ UNCHANGED <<pc, kind, target, session, inflight, age, announced, pendingSessions, endedBy>>

(* The HTTP server has closed once no request is left. *)
Down ==
  /\ listener = "cleared" /\ \A r \in Requests : pc[r] \in {"idle", "done"}
  /\ listener' = "down"
  /\ UNCHANGED <<pc, kind, target, session, inflight, age, announced, pendingSessions, endedBy>>

Step(r) ==
  \/ PostToSession(r) \/ Refuse(r) \/ Initialize(r) \/ Connected(r) \/ CreateFails(r) \/ Served(r)

SessionsNext ==
  \/ \E r \in Requests : Arrive(r) \/ Step(r)
  \/ SessionsAge \/ Sweep \/ BeginClose \/ CloseNext \/ Clear \/ Down

SessionsSpec == SessionsInit /\ [][SessionsNext]_sessionVars

(* What the server does by itself: a server that is being made is made or  *)
(* fails, the timer fires, close() goes on. Nothing is assumed of clients: *)
(* readBody has no timer and Node's own ends with httpServer.close(), and  *)
(* a client may leave an answer unread.                                    *)
SessionsFairness ==
  /\ \A r \in Requests : WF_sessionVars(Connected(r) \/ CreateFails(r))
  /\ WF_sessionVars(SessionsAge) /\ WF_sessionVars(Sweep)
  /\ WF_sessionVars(CloseNext) /\ WF_sessionVars(Clear) /\ WF_sessionVars(Down)

SessionsFairSpec == SessionsSpec /\ SessionsFairness

-----------------------------------------------------------------------------
SessionsTypeOK ==
  /\ pc \in [Requests -> {"idle", "body", "creating", "serving", "done"}]
  /\ kind \in [Requests -> Kinds]
  /\ target \in [Requests -> Requests \cup {NoSession}]
  /\ session \in [Requests -> {"none", "open", "closed"}]
  /\ inflight \in [Requests -> Nat]
  /\ age \in [Requests -> 0 .. idleTtl + 1]
  /\ announced \in SUBSET Requests
  /\ pendingSessions \in Nat
  /\ listener \in {"up", "closing", "cleared", "down"}
  /\ endedBy \in [Requests -> {"nothing", "refusal", "client", "sweep", "shutdown"}]

(* Initializes that run at the same time do not overshoot the cap, and the *)
(* count of the sessions being made is that of the requests making one, so *)
(* that no failure takes a place away for good (http.ts:341-351).          *)
WithinMax ==
  /\ Cardinality(Open) + pendingSessions <= maxSessions
  /\ pendingSessions = Cardinality({r \in Requests : pc[r] = "creating"})

(* A request that is being served has not lost its session to the sweep,   *)
(* however long it takes: only its client or the shutdown closes it        *)
(* (http.ts:289-298, 545-556).                                             *)
SweepSparesTheBusy ==
  \A r \in Requests : pc[r] = "serving" => endedBy[target[r]] # "sweep"

(* A session nobody uses does not stay: unless a request comes for it, it  *)
(* is closed, whatever became of the requests it served (http.ts:545-556). *)
AbandonedIsClosed ==
  \A s \in Requests :
    (s \in Open /\ \A r \in Requests : pc[r] = "serving" => target[r] # s)
      ~> (s \notin Open \/ listener # "up" \/ \E r \in Requests : pc[r] = "serving" /\ target[r] = s)

(* The rest is up to a client: the body it has not sent, or the answer it  *)
(* has not taken (the model does not tell that from a tool still at work). *)
(* A stream is one only once its session has closed: before that it is the *)
(* server that does not end it.                                            *)
UpToClient(r) ==
  \/ pc[r] = "body"
  \/ pc[r] = "serving" /\ (kind[r] = "stream" => target[r] \notin Open)

(* close() gets through its sessions although clients hold streams open    *)
(* and new sessions appear while it runs, and then the HTTP server closes, *)
(* unless some client stalls for good: it waits for nothing else           *)
(* (http.ts:566-576).                                                      *)
ShutdownEnds ==
  /\ listener = "closing" ~> listener = "cleared"
  /\ listener = "cleared" ~> (listener = "down" \/ [](\E r \in Requests : UpToClient(r)))

=============================================================================
