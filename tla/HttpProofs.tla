----------------------------- MODULE HttpProofs -----------------------------
(***************************************************************************)
(* Proofs about HttpSessions, for any requests, cap and idle time: type   *)
(* correctness, that the cap on sessions holds while several are being    *)
(* made, and that the sweep spares what is in use; and about HttpGuard,   *)
(* for any requests, addresses and limits: that its checks and the table  *)
(* of failed attempts let in what they should; and about SecretStrength,  *)
(* for secrets of any length: that no run and no repeated block is taken  *)
(* for a secret, however it is laid out.                                  *)
(***************************************************************************)
EXTENDS HttpSessions, HttpGuard, SecretStrength, Induction, FiniteSetTheorems, SequenceTheorems, TLAPS

-----------------------------------------------------------------------------
Creating    == {r \in Requests : pc[r] = "creating"}
ServedBy(s) == {r \in Requests : pc[r] = "serving" /\ target[r] = s}

(* The two counters of the code count what they stand for, and what they  *)
(* count is finite, though the requests may be without end.               *)
CountInv ==
  /\ IsFiniteSet(Open) /\ IsFiniteSet(Creating)
  /\ pendingSessions = Cardinality(Creating)
  /\ Cardinality(Open) + pendingSessions <= maxSessions
  /\ \A s \in Requests : IsFiniteSet(ServedBy(s)) /\ inflight[s] = Cardinality(ServedBy(s))

(* A session appears once, with its initialize, and nothing has ended it  *)
(* before it is closed.                                                   *)
BornOnce ==
  /\ \A r \in Requests : pc[r] \in {"idle", "body", "creating"} => session[r] = "none"
  /\ \A s \in Requests : session[s] # "closed" => endedBy[s] = "nothing"
  /\ \A r \in Requests : pc[r] = "serving" => target[r] \in Requests

SessInv == SessionsTypeOK /\ CountInv /\ BornOnce /\ SweepSparesTheBusy

-----------------------------------------------------------------------------
(* How the counts move: one request begins or ends to be served, or a     *)
(* session leaves.                                                        *)

(* serveSession counts the request it serves.                             *)
LEMMA ServeCounts ==
  ASSUME SessionsTypeOK, CountInv, NEW r \in Requests, NEW s \in Requests,
         pc[r] # "serving", Serve(r, s)
  PROVE  /\ \A t \in Requests : IsFiniteSet(ServedBy(t)') /\ inflight'[t] = Cardinality(ServedBy(t)')
         /\ pc' = [pc EXCEPT ![r] = "serving"]
         /\ target' = [target EXCEPT ![r] = s]
         /\ inflight' \in [Requests -> Nat] /\ age' \in [Requests -> 0 .. idleTtl + 1]
<1>1. /\ pc' = [pc EXCEPT ![r] = "serving"] /\ target' = [target EXCEPT ![r] = s]
      /\ inflight' = [inflight EXCEPT ![s] = @ + 1] /\ age' = [age EXCEPT ![s] = 0]
  BY DEF Serve, Goto
<1>2. inflight' \in [Requests -> Nat] /\ age' \in [Requests -> 0 .. idleTtl + 1]
  BY <1>1, SessionsAssumption DEF SessionsTypeOK
<1>3. ASSUME NEW t \in Requests
      PROVE  IsFiniteSet(ServedBy(t)') /\ inflight'[t] = Cardinality(ServedBy(t)')
  <2>0. IsFiniteSet(ServedBy(t)) /\ inflight[t] = Cardinality(ServedBy(t)) /\ r \notin ServedBy(t)
    BY DEF CountInv, ServedBy
  <2>1. CASE t = s
    <3>1. ServedBy(t)' = ServedBy(t) \cup {r}
      BY <1>1, <2>1 DEF ServedBy, SessionsTypeOK
    <3> QED BY <1>1, <2>0, <2>1, <3>1, FS_AddElement DEF SessionsTypeOK
  <2>2. CASE t # s
    <3>1. ServedBy(t)' = ServedBy(t)
      BY <1>1, <2>2 DEF ServedBy, SessionsTypeOK
    <3> QED BY <1>1, <2>0, <2>2, <3>1 DEF SessionsTypeOK
  <2> QED BY <2>1, <2>2
<1> QED BY <1>1, <1>2, <1>3

(* The finally of serveSession gives the count back.                      *)
LEMMA ReleaseCounts ==
  ASSUME SessionsTypeOK, CountInv, NEW r \in Requests, pc[r] = "serving",
         target[r] \in Requests, Goto(r, "done"), Release(target[r]), target' = target
  PROVE  /\ \A t \in Requests : IsFiniteSet(ServedBy(t)') /\ inflight'[t] = Cardinality(ServedBy(t)')
         /\ inflight' \in [Requests -> Nat] /\ age' \in [Requests -> 0 .. idleTtl + 1]
<1> DEFINE s == target[r]
<1>1. /\ pc' = [pc EXCEPT ![r] = "done"]
      /\ inflight' = [inflight EXCEPT ![s] = @ - 1] /\ age' = [age EXCEPT ![s] = 0]
  BY DEF Release, Goto
<1>2. r \in ServedBy(s) /\ IsFiniteSet(ServedBy(s)) /\ inflight[s] = Cardinality(ServedBy(s))
  BY DEF ServedBy, CountInv
<1>3. /\ ServedBy(s)' = ServedBy(s) \ {r}
      /\ \A t \in Requests \ {s} : ServedBy(t)' = ServedBy(t)
  BY <1>1 DEF ServedBy, SessionsTypeOK
<1>4. IsFiniteSet(ServedBy(s)') /\ Cardinality(ServedBy(s)') = Cardinality(ServedBy(s)) - 1
  <2> DEFINE X == ServedBy(s)
             Y == ServedBy(s)'
  <2>1. r \in X /\ IsFiniteSet(X) /\ Y = X \ {r}
    BY <1>2, <1>3
  <2> HIDE DEF X, Y
  <2>2. IsFiniteSet(Y) /\ Cardinality(Y) = Cardinality(X) - 1
    BY <2>1, FS_RemoveElement
  <2> QED BY <2>2 DEF X, Y
<1>5. Cardinality(ServedBy(s)') \in Nat
  BY <1>4, FS_CardinalityType
<1>6. inflight' \in [Requests -> Nat]
  BY <1>1, <1>2, <1>4, <1>5 DEF SessionsTypeOK
<1>7. age' \in [Requests -> 0 .. idleTtl + 1]
  BY <1>1, SessionsAssumption DEF SessionsTypeOK
<1>8. \A t \in Requests \ {s} : IsFiniteSet(ServedBy(t)') /\ inflight'[t] = Cardinality(ServedBy(t)')
  BY <1>1, <1>3 DEF SessionsTypeOK, CountInv
<1>9. inflight'[s] = Cardinality(ServedBy(s)')
  BY <1>1, <1>2, <1>4 DEF SessionsTypeOK
<1> QED BY <1>4, <1>6, <1>7, <1>8, <1>9

(* Sessions that leave the map make room.                                 *)
LEMMA CloseCounts ==
  ASSUME SessionsTypeOK, CountInv, NEW set \in SUBSET Open, NEW why, Close(set, why)
  PROVE  /\ Open' = Open \ set
         /\ IsFiniteSet(Open') /\ Cardinality(Open') <= Cardinality(Open)
         /\ Cardinality(Open') \in Nat /\ Cardinality(Open) \in Nat
<1>1. Open' = Open \ set
  BY DEF Close, Open, SessionsTypeOK
<1>2. IsFiniteSet(Open) /\ Open' \in SUBSET Open
  BY <1>1 DEF CountInv
<1> QED BY <1>1, <1>2, FS_Subset, FS_CardinalityType

(* A request that neither was counted nor will be changes no count.       *)
LEMMA Uncounted ==
  ASSUME SessionsTypeOK, CountInv, NEW r \in Requests, NEW x \in {"body", "done"},
         pc[r] \in {"idle", "body"}, Goto(r, x),
         \A t \in Requests \ {r} : target'[t] = target[t],
         UNCHANGED <<session, inflight, pendingSessions>>
  PROVE  CountInv'
<1>1. Creating' = Creating /\ Open' = Open
  BY DEF Goto, SessionsTypeOK, Creating, Open
<1>2. \A t \in Requests : ServedBy(t)' = ServedBy(t)
  BY DEF Goto, SessionsTypeOK, ServedBy
<1> QED BY <1>1, <1>2 DEF CountInv

-----------------------------------------------------------------------------
(* A request that arrives (the handler up to its first await).            *)
LEMMA ArriveSafe ==
  ASSUME SessInv, NEW r \in Requests, Arrive(r)
  PROVE  SessInv'
<1>0. /\ SessionsTypeOK /\ CountInv /\ BornOnce /\ SweepSparesTheBusy
      /\ pc[r] = "idle" /\ UNCHANGED <<session, announced, pendingSessions, listener, endedBy>>
  BY DEF SessInv, Arrive
<1> PICK k \in Kinds, s \in announced \cup {NoSession} :
       /\ kind' = [kind EXCEPT ![r] = k]
       /\ \/ /\ k \in {"initialize", "call"}
             /\ Goto(r, "body")
             /\ target' = [target EXCEPT ![r] = s]
             /\ UNCHANGED <<inflight, age>>
          \/ /\ k \in {"stream", "delete"} /\ s \in Open
             /\ Serve(r, s)
          \/ /\ k \in {"stream", "delete"} /\ s \notin Open
             /\ Goto(r, "done")
             /\ UNCHANGED <<target, inflight, age>>
  BY DEF Arrive
<1>1. CASE Goto(r, "body") /\ target' = [target EXCEPT ![r] = s] /\ UNCHANGED <<inflight, age>>
  <2>1. SessionsTypeOK'
    BY <1>0, <1>1 DEF SessionsTypeOK, Goto
  <2>2. CountInv'
    BY <1>0, <1>1, Uncounted DEF SessionsTypeOK
  <2>3. BornOnce' /\ SweepSparesTheBusy'
    BY <1>0, <1>1 DEF SessionsTypeOK, Goto, BornOnce, SweepSparesTheBusy
  <2> QED BY <2>1, <2>2, <2>3 DEF SessInv
<1>2. CASE s \in Open /\ Serve(r, s)
  <2>1. /\ s \in Requests /\ session[s] = "open" /\ pc[r] # "serving"
    BY <1>0, <1>2 DEF Open
  <2>2. /\ \A t \in Requests : IsFiniteSet(ServedBy(t)') /\ inflight'[t] = Cardinality(ServedBy(t)')
        /\ pc' = [pc EXCEPT ![r] = "serving"] /\ target' = [target EXCEPT ![r] = s]
        /\ inflight' \in [Requests -> Nat] /\ age' \in [Requests -> 0 .. idleTtl + 1]
    BY <1>0, <1>2, <2>1, ServeCounts
  <2>3. Creating' = Creating /\ Open' = Open
    BY <1>0, <2>2 DEF SessionsTypeOK, Creating, Open
  <2>4. SessionsTypeOK'
    BY <1>0, <2>1, <2>2 DEF SessionsTypeOK
  <2>5. CountInv'
    BY <1>0, <2>2, <2>3 DEF CountInv
  <2>6. BornOnce' /\ SweepSparesTheBusy'
    BY <1>0, <2>1, <2>2 DEF SessionsTypeOK, BornOnce, SweepSparesTheBusy
  <2> QED BY <2>4, <2>5, <2>6 DEF SessInv
<1>3. CASE Goto(r, "done") /\ UNCHANGED <<target, inflight, age>>
  <2>1. SessionsTypeOK'
    BY <1>0, <1>3 DEF SessionsTypeOK, Goto
  <2>2. CountInv'
    BY <1>0, <1>3, Uncounted
  <2>3. BornOnce' /\ SweepSparesTheBusy'
    BY <1>0, <1>3 DEF SessionsTypeOK, Goto, BornOnce, SweepSparesTheBusy
  <2> QED BY <2>1, <2>2, <2>3 DEF SessInv
<1> QED BY <1>1, <1>2, <1>3

(* A POST whose body was read: its session is looked up now, not before.  *)
LEMMA PostSafe ==
  ASSUME SessInv, NEW r \in Requests, PostToSession(r) \/ Refuse(r)
  PROVE  SessInv'
<1>0. /\ SessionsTypeOK /\ CountInv /\ BornOnce /\ SweepSparesTheBusy
      /\ pc[r] = "body" /\ UNCHANGED <<kind, session, announced, pendingSessions, listener, endedBy>>
  BY DEF SessInv, PostToSession, Refuse
<1>1. CASE target[r] \in Open /\ Serve(r, target[r])
  <2> DEFINE s == target[r]
  <2>1. /\ s \in Requests /\ session[s] = "open" /\ pc[r] # "serving"
    BY <1>0, <1>1 DEF Open
  <2>2. /\ \A t \in Requests : IsFiniteSet(ServedBy(t)') /\ inflight'[t] = Cardinality(ServedBy(t)')
        /\ pc' = [pc EXCEPT ![r] = "serving"] /\ target' = [target EXCEPT ![r] = s]
        /\ inflight' \in [Requests -> Nat] /\ age' \in [Requests -> 0 .. idleTtl + 1]
    BY <1>0, <1>1, <2>1, ServeCounts
  <2>3. Creating' = Creating /\ Open' = Open
    BY <1>0, <2>2 DEF SessionsTypeOK, Creating, Open
  <2>4. SessionsTypeOK'
    BY <1>0, <2>1, <2>2 DEF SessionsTypeOK
  <2>5. CountInv'
    BY <1>0, <2>2, <2>3 DEF CountInv
  <2>6. BornOnce' /\ SweepSparesTheBusy'
    BY <1>0, <2>1, <2>2 DEF SessionsTypeOK, BornOnce, SweepSparesTheBusy
  <2> QED BY <2>4, <2>5, <2>6 DEF SessInv
<1>2. CASE Goto(r, "done") /\ UNCHANGED <<target, inflight, age>>
  <2>1. SessionsTypeOK'
    BY <1>0, <1>2 DEF SessionsTypeOK, Goto
  <2>2. CountInv'
    BY <1>0, <1>2, Uncounted
  <2>3. BornOnce' /\ SweepSparesTheBusy'
    BY <1>0, <1>2 DEF SessionsTypeOK, Goto, BornOnce, SweepSparesTheBusy
  <2> QED BY <2>1, <2>2, <2>3 DEF SessInv
<1> QED BY <1>1, <1>2 DEF PostToSession, Refuse

(* An initialize takes a place while its server is being made.            *)
LEMMA InitializeSafe ==
  ASSUME SessInv, NEW r \in Requests, Initialize(r)
  PROVE  SessInv'
<1>0. /\ SessionsTypeOK /\ CountInv /\ BornOnce /\ SweepSparesTheBusy
      /\ pc[r] = "body"
      /\ UNCHANGED <<kind, target, session, inflight, age, announced, listener, endedBy>>
  BY DEF SessInv, Initialize
<1>1. CASE Room /\ Goto(r, "creating") /\ pendingSessions' = pendingSessions + 1
  <2>1. Creating' = Creating \cup {r} /\ r \notin Creating /\ Open' = Open
    BY <1>0, <1>1 DEF SessionsTypeOK, Goto, Creating, Open
  <2>2. \A t \in Requests : ServedBy(t)' = ServedBy(t)
    BY <1>0, <1>1 DEF SessionsTypeOK, Goto, ServedBy
  <2>3. IsFiniteSet(Creating') /\ Cardinality(Creating') = Cardinality(Creating) + 1
    BY <1>0, <2>1, FS_AddElement DEF CountInv
  <2>4. Cardinality(Open) \in Nat /\ pendingSessions \in Nat /\ maxSessions \in Nat
    BY <1>0, FS_CardinalityType, SessionsAssumption DEF CountInv, SessionsTypeOK
  <2>5. Cardinality(Open) + pendingSessions' <= maxSessions
    BY <1>1, <2>4 DEF Room
  <2>6. CountInv'
    BY <1>0, <1>1, <2>1, <2>2, <2>3, <2>5 DEF CountInv
  <2>7. SessionsTypeOK'
    BY <1>0, <1>1, <2>4 DEF SessionsTypeOK, Goto
  <2>8. BornOnce' /\ SweepSparesTheBusy'
    BY <1>0, <1>1 DEF SessionsTypeOK, Goto, BornOnce, SweepSparesTheBusy
  <2> QED BY <2>6, <2>7, <2>8 DEF SessInv
<1>2. CASE Goto(r, "done") /\ UNCHANGED pendingSessions
  <2>1. SessionsTypeOK'
    BY <1>0, <1>2 DEF SessionsTypeOK, Goto
  <2>2. CountInv'
    BY <1>0, <1>2, Uncounted
  <2>3. BornOnce' /\ SweepSparesTheBusy'
    BY <1>0, <1>2 DEF SessionsTypeOK, Goto, BornOnce, SweepSparesTheBusy
  <2> QED BY <2>1, <2>2, <2>3 DEF SessInv
<1> QED BY <1>1, <1>2 DEF Initialize

(* The place that was taken becomes a session, or is given back.          *)
LEMMA ConnectSafe ==
  ASSUME SessInv, NEW r \in Requests, Connected(r) \/ CreateFails(r)
  PROVE  SessInv'
<1>0. /\ SessionsTypeOK /\ CountInv /\ BornOnce /\ SweepSparesTheBusy
      /\ pc[r] = "creating" /\ pendingSessions' = pendingSessions - 1
      /\ UNCHANGED <<kind, listener, endedBy>>
  BY DEF SessInv, Connected, CreateFails
<1>1. /\ r \in Creating /\ IsFiniteSet(Creating) /\ IsFiniteSet(Open)
      /\ Cardinality(Open) \in Nat /\ maxSessions \in Nat /\ pendingSessions = Cardinality(Creating)
  BY <1>0, FS_CardinalityType, SessionsAssumption DEF CountInv, Creating
<1>2. /\ IsFiniteSet(Creating \ {r}) /\ Cardinality(Creating \ {r}) = Cardinality(Creating) - 1
      /\ Cardinality(Creating \ {r}) \in Nat
  BY <1>1, FS_RemoveElement, FS_CardinalityType
<1>3. CASE Connected(r)
  <2>1. /\ session' = [session EXCEPT ![r] = "open"] /\ session[r] = "none"
        /\ Serve(r, r) /\ announced' \in SUBSET Requests /\ endedBy[r] = "nothing"
    BY <1>0, <1>3 DEF Connected, BornOnce, SessionsTypeOK
  <2>2. /\ \A t \in Requests : IsFiniteSet(ServedBy(t)') /\ inflight'[t] = Cardinality(ServedBy(t)')
        /\ pc' = [pc EXCEPT ![r] = "serving"] /\ target' = [target EXCEPT ![r] = r]
        /\ inflight' \in [Requests -> Nat] /\ age' \in [Requests -> 0 .. idleTtl + 1]
    BY <1>0, <2>1, ServeCounts
  <2>3. Creating' = Creating \ {r} /\ Open' = Open \cup {r} /\ r \notin Open
    BY <1>0, <2>1, <2>2 DEF SessionsTypeOK, Creating, Open
  <2>4. IsFiniteSet(Open') /\ Cardinality(Open') = Cardinality(Open) + 1
    BY <1>1, <2>3, FS_AddElement
  <2>5. Cardinality(Open') + pendingSessions' <= maxSessions
    BY <1>0, <1>1, <1>2, <2>4 DEF CountInv, SessionsTypeOK
  <2>6. CountInv'
    BY <1>0, <1>1, <1>2, <2>2, <2>3, <2>4, <2>5 DEF CountInv
  <2>7. SessionsTypeOK'
    BY <1>0, <1>1, <1>2, <2>1, <2>2 DEF SessionsTypeOK
  <2>8. BornOnce' /\ SweepSparesTheBusy'
    BY <1>0, <2>1, <2>2 DEF SessionsTypeOK, BornOnce, SweepSparesTheBusy
  <2> QED BY <2>6, <2>7, <2>8 DEF SessInv
<1>4. CASE CreateFails(r)
  <2>1. /\ pc' = [pc EXCEPT ![r] = "done"] /\ UNCHANGED <<target, session, inflight, age, announced>>
    BY <1>4 DEF CreateFails, Goto
  <2>2. Creating' = Creating \ {r} /\ Open' = Open /\ \A t \in Requests : ServedBy(t)' = ServedBy(t)
    BY <1>0, <2>1 DEF SessionsTypeOK, Creating, Open, ServedBy
  <2>3. Cardinality(Open') + pendingSessions' <= maxSessions
    BY <1>0, <1>1, <1>2, <2>2 DEF CountInv, SessionsTypeOK
  <2>4. CountInv'
    BY <1>0, <1>1, <1>2, <2>1, <2>2, <2>3 DEF CountInv
  <2>5. SessionsTypeOK'
    BY <1>0, <1>1, <1>2, <2>1 DEF SessionsTypeOK
  <2>6. BornOnce' /\ SweepSparesTheBusy'
    BY <1>0, <2>1 DEF SessionsTypeOK, BornOnce, SweepSparesTheBusy
  <2> QED BY <2>4, <2>5, <2>6 DEF SessInv
<1> QED BY <1>3, <1>4

(* A request is done, and its session goes with it or stays.              *)
LEMMA ServedSafe ==
  ASSUME SessInv, NEW r \in Requests, Served(r)
  PROVE  SessInv'
<1> DEFINE s == target[r]
<1>0. /\ SessionsTypeOK /\ CountInv /\ BornOnce /\ SweepSparesTheBusy
      /\ pc[r] = "serving" /\ s \in Requests
      /\ Goto(r, "done") /\ Release(s)
      /\ UNCHANGED <<kind, target, announced, pendingSessions, listener>>
  BY DEF SessInv, Served, BornOnce
<1>1. /\ \A t \in Requests : IsFiniteSet(ServedBy(t)') /\ inflight'[t] = Cardinality(ServedBy(t)')
      /\ inflight' \in [Requests -> Nat] /\ age' \in [Requests -> 0 .. idleTtl + 1]
  BY <1>0, ReleaseCounts
<1>2. pc' = [pc EXCEPT ![r] = "done"] /\ Creating' = Creating
  BY <1>0 DEF Goto, SessionsTypeOK, Creating
<1>3. CASE \E why \in {"refusal", "client"} : s \in Open /\ Close({s}, why)
  <2> PICK why \in {"refusal", "client"} : s \in Open /\ Close({s}, why)
    BY <1>3
  <2>1. /\ IsFiniteSet(Open') /\ Cardinality(Open') <= Cardinality(Open)
        /\ Cardinality(Open') \in Nat /\ Cardinality(Open) \in Nat
    BY <1>0, CloseCounts
  <2>2. Cardinality(Open') + pendingSessions' <= maxSessions
    BY <1>0, <2>1, SessionsAssumption DEF CountInv, SessionsTypeOK
  <2>3. CountInv'
    BY <1>0, <1>1, <1>2, <2>1, <2>2 DEF CountInv
  <2>4. SessionsTypeOK'
    BY <1>0, <1>1, <1>2 DEF SessionsTypeOK, Close
  <2>5. BornOnce' /\ SweepSparesTheBusy'
    BY <1>0, <1>2 DEF SessionsTypeOK, BornOnce, SweepSparesTheBusy, Close, Open
  <2> QED BY <2>3, <2>4, <2>5 DEF SessInv
<1>4. CASE UNCHANGED <<session, endedBy>>
  <2>1. Open' = Open
    BY <1>4 DEF Open
  <2>2. CountInv'
    BY <1>0, <1>1, <1>2, <2>1 DEF CountInv
  <2>3. SessionsTypeOK'
    BY <1>0, <1>1, <1>2, <1>4 DEF SessionsTypeOK
  <2>4. BornOnce' /\ SweepSparesTheBusy'
    BY <1>0, <1>2, <1>4 DEF SessionsTypeOK, BornOnce, SweepSparesTheBusy
  <2> QED BY <2>2, <2>3, <2>4 DEF SessInv
<1> QED BY <1>3, <1>4 DEF Served

-----------------------------------------------------------------------------
(* The timers and close(): the sweep closes only what no request is counted *)
(* at.                                                                    *)
LEMMA TimerSafe ==
  ASSUME SessInv, SessionsAge \/ Sweep \/ BeginClose \/ CloseNext \/ Clear \/ Down
  PROVE  SessInv'
<1>0. SessionsTypeOK /\ CountInv /\ BornOnce /\ SweepSparesTheBusy
  BY DEF SessInv
<1>1. UNCHANGED <<pc, kind, target, inflight, announced, pendingSessions>>
  BY DEF SessionsAge, Sweep, BeginClose, CloseNext, Clear, Down
<1>2. Creating' = Creating /\ \A t \in Requests : ServedBy(t)' = ServedBy(t)
  BY <1>1 DEF Creating, ServedBy
<1>3. CASE SessionsAge \/ BeginClose \/ Clear \/ Down
  <2>1. Open' = Open /\ UNCHANGED <<session, endedBy>>
    BY <1>3 DEF SessionsAge, BeginClose, Clear, Down, Open
  <2>2. CountInv'
    BY <1>0, <1>1, <1>2, <2>1 DEF CountInv
  <2>3. SessionsTypeOK'
    <3>1. CASE SessionsAge
      BY <1>0, <1>1, <3>1, SessionsAssumption DEF SessionsTypeOK, SessionsAge
    <3>2. CASE BeginClose \/ Clear \/ Down
      BY <1>0, <1>1, <3>2 DEF SessionsTypeOK, BeginClose, Clear, Down
    <3> QED BY <1>3, <3>1, <3>2
  <2>4. BornOnce' /\ SweepSparesTheBusy'
    BY <1>0, <1>1, <2>1 DEF BornOnce, SweepSparesTheBusy
  <2> QED BY <2>2, <2>3, <2>4 DEF SessInv
<1>4. ASSUME NEW set \in SUBSET Open, NEW why \in {"sweep", "shutdown"}, Close(set, why),
             UNCHANGED <<age, listener>>,
             why = "sweep" => \A s \in set : inflight[s] = 0
      PROVE  SessInv'
  <2>1. /\ IsFiniteSet(Open') /\ Cardinality(Open') <= Cardinality(Open)
        /\ Cardinality(Open') \in Nat /\ Cardinality(Open) \in Nat
    BY <1>0, <1>4, CloseCounts
  <2>2. Cardinality(Open') + pendingSessions' <= maxSessions
    BY <1>0, <1>1, <2>1, SessionsAssumption DEF CountInv, SessionsTypeOK
  <2>3. CountInv'
    BY <1>0, <1>1, <1>2, <2>1, <2>2 DEF CountInv
  <2>4. SessionsTypeOK'
    BY <1>0, <1>1, <1>4 DEF SessionsTypeOK, Close
  <2>5. BornOnce'
    BY <1>0, <1>1, <1>4 DEF SessionsTypeOK, BornOnce, Close, Open
  <2>6. ASSUME NEW r \in Requests, pc[r] = "serving", why = "sweep"
        PROVE  target[r] \notin set
    <3> SUFFICES ASSUME target[r] \in set PROVE FALSE
      OBVIOUS
    <3>1. target[r] \in Requests /\ r \in ServedBy(target[r])
      BY <1>0, <2>6 DEF BornOnce, ServedBy
    <3>2. Cardinality(ServedBy(target[r])) = 0 /\ IsFiniteSet(ServedBy(target[r]))
      BY <1>0, <1>4, <2>6, <3>1 DEF CountInv
    <3> QED BY <3>1, <3>2, FS_EmptySet
  <2>7. SweepSparesTheBusy'
    <3> SUFFICES ASSUME NEW r \in Requests, pc[r] = "serving"
                 PROVE  endedBy'[target[r]] # "sweep"
      BY <1>1 DEF SweepSparesTheBusy
    <3>1. target[r] \in Requests /\ endedBy[target[r]] # "sweep"
      BY <1>0 DEF BornOnce, SweepSparesTheBusy
    <3>2. endedBy'[target[r]] = IF target[r] \in set THEN why ELSE endedBy[target[r]]
      BY <1>4, <3>1 DEF Close
    <3> QED BY <2>6, <3>1, <3>2
  <2> QED BY <2>3, <2>4, <2>5, <2>7 DEF SessInv
<1>5. CASE Sweep
  <2>1. Close(Expired, "sweep") /\ UNCHANGED <<age, listener>>
    BY <1>5 DEF Sweep
  <2>2. Expired \in SUBSET Open /\ \A s \in Expired : inflight[s] = 0
    BY DEF Expired
  <2> QED BY <1>4, <2>1, <2>2
<1>6. CASE CloseNext
  <2> PICK s \in Open : Close({s}, "shutdown")
    BY <1>6 DEF CloseNext
  <2>1. UNCHANGED <<age, listener>>
    BY <1>6 DEF CloseNext
  <2> QED BY <1>4, <2>1
<1> QED BY <1>3, <1>5, <1>6

(* Every step keeps the invariant.                                        *)
LEMMA SessionsStepSafe ==
  ASSUME SessInv, [SessionsNext]_sessionVars
  PROVE  SessInv'
<1>1. CASE UNCHANGED sessionVars
  BY <1>1 DEF sessionVars, SessInv, SessionsTypeOK, CountInv, BornOnce, SweepSparesTheBusy, Open,
              Creating, ServedBy
<1> QED BY <1>1, ArriveSafe, PostSafe, InitializeSafe, ConnectSafe, ServedSafe, TimerSafe
        DEF SessionsNext, Step

(* The server starts without sessions.                                    *)
LEMMA SessionsInitSafe == SessionsInit => SessInv
<1> SUFFICES ASSUME SessionsInit PROVE SessInv
  OBVIOUS
<1>1. Open = {} /\ Creating = {} /\ \A s \in Requests : ServedBy(s) = {}
  BY DEF SessionsInit, Open, Creating, ServedBy
<1>2. CountInv
  BY <1>1, FS_EmptySet, SessionsAssumption DEF CountInv, SessionsInit
<1>3. SessionsTypeOK
  BY SessionsAssumption DEF SessionsInit, SessionsTypeOK, Kinds
<1> QED BY <1>2, <1>3 DEF SessInv, SessionsInit, BornOnce, SweepSparesTheBusy

(* The types, for any number of requests.                                 *)
THEOREM SessionsTyped == SessionsSpec => []SessionsTypeOK
<1>1. SessInv => SessionsTypeOK
  BY DEF SessInv
<1> QED BY <1>1, SessionsInitSafe, SessionsStepSafe, PTL DEF SessionsSpec

(* The cap holds, and no place is lost or given twice, however many       *)
(* initializes run at the same time and fail (http.ts:341-351).           *)
THEOREM CapHolds == SessionsSpec => []WithinMax
<1>1. SessInv => WithinMax
  BY DEF SessInv, CountInv, WithinMax, Creating
<1> QED BY <1>1, SessionsInitSafe, SessionsStepSafe, PTL DEF SessionsSpec

(* The sweep never takes a session from a request that it serves, however *)
(* long that takes and however many requests share it (http.ts:545-556).  *)
THEOREM BusyIsSpared == SessionsSpec => []SweepSparesTheBusy
<1>1. SessInv => SweepSparesTheBusy
  BY DEF SessInv
<1> QED BY <1>1, SessionsInitSafe, SessionsStepSafe, PTL DEF SessionsSpec

-----------------------------------------------------------------------------
(* The doubled delays exist and are numbers, however long the row.        *)
LEMMA DoubledTyped ==
  ASSUME NEW n \in Nat \ {0}
  PROVE  Doubled(n)[n] \in Nat
<1> DEFINE Is(f, m) == f = [k \in 1 .. m |-> IF k = 1 THEN baseMs ELSE 2 * f[k - 1]]
<1> DEFINE Bad == {m \in Nat : ~ \E f \in [1 .. m -> Nat] : Is(f, m)}
<1>0. baseMs \in Nat
  BY GuardAssumption
<1>1. 0 \notin Bad
  <2>1. Is(<<>>, 0) /\ <<>> \in [1 .. 0 -> Nat]
    OBVIOUS
  <2> QED BY <2>1
<1>2. ASSUME NEW m \in Nat, m \notin Bad PROVE m + 1 \notin Bad
  <2>1. PICK f \in [1 .. m -> Nat] : Is(f, m)
    BY <1>2
  <2> DEFINE g == [k \in 1 .. m + 1 |->
                     IF k = m + 1 THEN IF k = 1 THEN baseMs ELSE 2 * f[k - 1] ELSE f[k]]
  <2>2. g \in [1 .. m + 1 -> Nat]
    BY <1>0
  <2>3. Is(g, m + 1)
    BY <1>0, <2>1
  <2> QED BY <2>2, <2>3
<1>3. Bad = {}
  <2>1. Bad \in SUBSET Nat
    OBVIOUS
  <2> HIDE DEF Bad
  <2> QED BY <1>1, <1>2, <2>1, NoCounterexample
<1>4. PICK f \in [1 .. n -> Nat] : Is(f, n)
  BY <1>3
<1>5. Is(Doubled(n), n)
  BY <1>4 DEF Doubled
<1> DEFINE Worse == {k \in Nat : k + 1 <= n /\ Doubled(n)[k + 1] \notin Nat}
<1>6. Worse = {}
  <2>1. 0 \notin Worse
    BY <1>0, <1>5
  <2>2. ASSUME NEW m \in Nat, m \notin Worse PROVE m + 1 \notin Worse
    <3> SUFFICES ASSUME m + 2 <= n PROVE Doubled(n)[m + 2] \in Nat
      OBVIOUS
    <3>1. m + 1 <= n /\ Doubled(n)[m + 1] \in Nat
      BY <2>2
    <3>2. Doubled(n)[m + 2] = 2 * Doubled(n)[m + 1]
      BY <1>5
    <3> QED BY <3>1, <3>2
  <2>3. Worse \in SUBSET Nat
    OBVIOUS
  <2> HIDE DEF Worse
  <2> QED BY <2>1, <2>2, <2>3, NoCounterexample
<1>7. n - 1 \in Nat /\ (n - 1) + 1 = n
  OBVIOUS
<1>8. n - 1 \notin Worse
  BY <1>6
<1> QED BY <1>7, <1>8

(* A sleep is never longer than the cap.                                  *)
LEMMA DelayBounded ==
  ASSUME NEW n \in Nat \ {0}
  PROVE  Delay(n) \in 0 .. maxMs
BY DoubledTyped, GuardAssumption DEF Delay

-----------------------------------------------------------------------------
Sleepers(i) == {r \in Callers : holds[r] = i}
Asked       == {r \in Callers : asked[r] # Nothing}
EntriesOf(S) == [address : Addresses, record : S]

GuardTyped ==
  /\ asked \in [Callers -> Headers \cup {Nothing}]
  /\ answer \in [Callers -> {"waiting", "sleeping", "mcp", "200", "204", "400", "401", "403", "404", "429"}]
  /\ cors \in [Callers -> BOOLEAN]
  /\ sleep \in [Callers -> Nat]
  /\ holds \in [Callers -> Callers \cup {NoRecord}]
  /\ records \in [Callers -> [failures : Nat, pending : Nat, lastAt : Nat, lastDecayAt : Nat]]
  /\ tracked \in Seq(EntriesOf(Asked))
  /\ sender \in [Callers -> Addresses \cup {NoRecord}]

(* A record is made by a request, and what sleeps on it is what it counts;*)
(* it does not sleep past the time after which the record is started over.*)
PendingIsCounted ==
  /\ \A i \in Callers :
       /\ IsFiniteSet(Sleepers(i)) /\ records[i].pending = Cardinality(Sleepers(i))
       /\ records[i].pending <= MAX_PENDING
  /\ \A r \in Callers : holds[r] # NoRecord <=> answer[r] = "sleeping"
  /\ \A r \in Callers : holds[r] # NoRecord =>
       /\ holds[r] \in Asked
       /\ sleep[r] + records[holds[r]].lastAt <= maxMs

(* An address is in the table once, and the table has the record that its *)
(* requests sleep on, until it was too full to keep the address.          *)
OnePlace(s) == \A i, j \in 1 .. Len(s) : s[i].address = s[j].address => i = j
Holds(s, e) == \E i \in 1 .. Len(s) : s[i] = e
Entry(a, i) == [address |-> a, record |-> i]

AddressesAreKept ==
  /\ OnePlace(tracked)
  /\ \A x \in Callers : sender[x] # NoRecord => holds[x] # NoRecord
  /\ \A x \in Callers : sender[x] \in Addresses \ dropped => Holds(tracked, Entry(sender[x], holds[x]))

Admitted(r) ==
  asked[r] # Nothing =>
    /\ answer[r] \in {"mcp", "200", "204", "401", "429", "sleeping"} => HostAllowed(asked[r])
    /\ answer[r] \in {"mcp", "200", "401", "429", "sleeping"}
         => ~(asked[r].origin = "none" /\ asked[r].site = "cross-site")
    /\ answer[r] = "mcp" => asked[r].origin # "other" /\ asked[r].token = "good"
    /\ cors[r] => asked[r].origin = "listed" /\ answer[r] \notin {"200", "404"}

GuardInv ==
  /\ GuardTyped /\ PendingIsCounted /\ AddressesAreKept
  /\ \A r \in Callers : Admitted(r)
  /\ \A r \in Callers : asked[r] = Nothing => answer[r] = "waiting"

-----------------------------------------------------------------------------
(* What is left of a sequence without one of its places.                  *)
LEMMA PlaceRemoved ==
  ASSUME NEW E, NEW s \in Seq(E), NEW i \in 1 .. Len(s)
  PROVE  /\ RemoveAt(s, i) \in Seq(E) /\ Len(RemoveAt(s, i)) = Len(s) - 1
         /\ \A k \in 1 .. Len(s) - 1 : RemoveAt(s, i)[k] = IF k < i THEN s[k] ELSE s[k + 1]
<1> DEFINE u == SubSeq(s, 1, i - 1)
           v == SubSeq(s, i + 1, Len(s))
<1>0. Len(s) \in Nat /\ i \in Int /\ 1 <= i /\ i <= Len(s)
  OBVIOUS
<1>1. u \in Seq(E) /\ Len(u) = i - 1 /\ \A k \in 1 .. i - 1 : u[k] = s[k]
  <2>1. \A k \in 1 .. i - 1 : s[k] \in E
    BY <1>0
  <2>2. /\ u \in Seq(E)
        /\ Len(u) = IF 1 <= i - 1 THEN (i - 1) - 1 + 1 ELSE 0
        /\ \A k \in 1 .. (i - 1) - 1 + 1 : u[k] = s[1 + k - 1]
    BY <1>0, <2>1, SubSeqProperties
  <2> QED BY <1>0, <2>2
<1>2. v \in Seq(E) /\ Len(v) = Len(s) - i /\ \A k \in 1 .. Len(s) - i : v[k] = s[k + i]
  <2>1. \A k \in i + 1 .. Len(s) : s[k] \in E
    BY <1>0
  <2>2. /\ v \in Seq(E)
        /\ Len(v) = IF i + 1 <= Len(s) THEN Len(s) - (i + 1) + 1 ELSE 0
        /\ \A k \in 1 .. Len(s) - (i + 1) + 1 : v[k] = s[(i + 1) + k - 1]
    BY <1>0, <2>1, SubSeqProperties
  <2> QED BY <1>0, <2>2
<1> HIDE DEF u, v
<1>3. /\ u \o v \in Seq(E) /\ Len(u \o v) = Len(u) + Len(v)
      /\ \A k \in 1 .. Len(u) + Len(v) : (u \o v)[k] = IF k <= Len(u) THEN u[k] ELSE v[k - Len(u)]
  BY <1>1, <1>2, ConcatProperties
<1>4. RemoveAt(s, i) = u \o v
  BY DEF RemoveAt, u, v
<1>5. ASSUME NEW k \in 1 .. Len(s) - 1 PROVE (u \o v)[k] = IF k < i THEN s[k] ELSE s[k + 1]
  <2>1. (u \o v)[k] = IF k <= i - 1 THEN u[k] ELSE v[k - (i - 1)]
    BY <1>0, <1>1, <1>2, <1>3
  <2>2. CASE k < i
    BY <1>0, <1>1, <2>1, <2>2
  <2>3. CASE ~(k < i)
    <3>1. k - (i - 1) \in 1 .. Len(s) - i
      BY <1>0, <2>3
    <3>2. v[k - (i - 1)] = s[(k - (i - 1)) + i]
      BY <1>2, <3>1
    <3>3. (k - (i - 1)) + i = k + 1
      BY <1>0
    <3> QED BY <1>0, <2>1, <2>3, <3>2, <3>3
  <2> QED BY <2>2, <2>3
<1>6. u \o v \in Seq(E) /\ Len(u \o v) = Len(s) - 1
  BY <1>0, <1>1, <1>2, <1>3
<1> HIDE DEF RemoveAt
<1> QED BY <1>4, <1>5, <1>6

(* The table with an address moved to its end has the address once, with  *)
(* the record given, and every other entry it had.                        *)
LEMMA MovedKeeps ==
  ASSUME NEW S, tracked \in Seq(EntriesOf(S)), OnePlace(tracked), NEW a \in Addresses, NEW id \in S
  PROVE  /\ Moved(a, id) \in Seq(EntriesOf(S)) /\ Moved(a, id) # <<>> /\ OnePlace(Moved(a, id))
         /\ Holds(Moved(a, id), Entry(a, id))
         /\ \A e : Holds(tracked, e) /\ e.address # a => Holds(Moved(a, id), e)
<1> DEFINE E == EntriesOf(S)
           others == IF TrackedAt(a) = {} THEN tracked ELSE RemoveAt(tracked, CHOOSE k \in TrackedAt(a) : TRUE)
<1>1. Entry(a, id) \in E /\ Entry(a, id).address = a
  BY DEF EntriesOf, Entry
<1>2. /\ others \in Seq(E) /\ OnePlace(others)
      /\ \A k \in 1 .. Len(others) : others[k].address # a
      /\ \A e : Holds(tracked, e) /\ e.address # a => Holds(others, e)
  <2>1. CASE TrackedAt(a) = {}
    <3>1. others = tracked
      BY <2>1
    <3>2. \A k \in 1 .. Len(tracked) : tracked[k].address # a
      BY <2>1 DEF TrackedAt
    <3> HIDE DEF others
    <3> QED BY <3>1, <3>2
  <2>2. CASE TrackedAt(a) # {}
    <3>0. PICK i \in TrackedAt(a) : i = CHOOSE k \in TrackedAt(a) : TRUE
      BY <2>2
    <3>1. i \in 1 .. Len(tracked) /\ tracked[i].address = a
      BY <3>0 DEF TrackedAt
    <3>2. others = RemoveAt(tracked, i)
      BY <2>2, <3>0
    <3>3. /\ others \in Seq(E) /\ Len(others) = Len(tracked) - 1
          /\ \A k \in 1 .. Len(tracked) - 1 : others[k] = IF k < i THEN tracked[k] ELSE tracked[k + 1]
      BY <3>1, <3>2, PlaceRemoved
    <3> HIDE DEF others, E
    <3>4. Len(tracked) \in Nat /\ i \in Int
      BY <3>1
    <3>5. ASSUME NEW k \in 1 .. Len(others)
          PROVE  \E j \in 1 .. Len(tracked) : j # i /\ others[k] = tracked[j]
                                             /\ j = IF k < i THEN k ELSE k + 1
      BY <3>1, <3>3, <3>4
    <3>6. OnePlace(others)
      <4> SUFFICES ASSUME NEW k \in 1 .. Len(others), NEW l \in 1 .. Len(others),
                          others[k].address = others[l].address
                   PROVE  k = l
        BY DEF OnePlace
      <4>1. PICK j \in 1 .. Len(tracked) : others[k] = tracked[j] /\ j = IF k < i THEN k ELSE k + 1
        BY <3>5
      <4>2. PICK m \in 1 .. Len(tracked) : others[l] = tracked[m] /\ m = IF l < i THEN l ELSE l + 1
        BY <3>5
      <4>3. j = m
        BY <4>1, <4>2 DEF OnePlace
      <4> QED BY <3>4, <4>1, <4>2, <4>3
    <3>7. \A k \in 1 .. Len(others) : others[k].address # a
      BY <3>1, <3>5 DEF OnePlace
    <3>8. ASSUME NEW e, Holds(tracked, e), e.address # a PROVE Holds(others, e)
      <4>1. PICK j \in 1 .. Len(tracked) : tracked[j] = e
        BY <3>8 DEF Holds
      <4>2. j # i
        BY <3>1, <3>8, <4>1
      <4>3. CASE j < i
        <5>1. j \in 1 .. Len(tracked) - 1 /\ others[j] = tracked[j]
          BY <3>1, <3>3, <3>4, <4>3
        <5> QED BY <3>3, <4>1, <5>1 DEF Holds
      <4>4. CASE j > i
        <5>1. j - 1 \in 1 .. Len(tracked) - 1 /\ ~(j - 1 < i) /\ (j - 1) + 1 = j
          BY <3>1, <3>4, <4>4
        <5>2. others[j - 1] = tracked[j]
          BY <3>3, <5>1
        <5> QED BY <3>3, <4>1, <5>1, <5>2 DEF Holds
      <4> QED BY <3>4, <4>2, <4>3, <4>4
    <3> QED BY <3>3, <3>6, <3>7, <3>8
  <2> QED BY <2>1, <2>2
<1>3. Moved(a, id) = Append(others, Entry(a, id))
  BY DEF Moved, Entry
<1> HIDE DEF E, others
<1> DEFINE m == Append(others, Entry(a, id))
<1>4. /\ m \in Seq(E) /\ m # <<>> /\ Len(m) = Len(others) + 1
      /\ \A k \in 1 .. Len(others) : m[k] = others[k]
      /\ m[Len(others) + 1] = Entry(a, id)
  BY <1>1, <1>2, AppendProperties
<1> HIDE DEF m
<1>5. Len(others) \in Nat
  BY <1>2
<1>6. OnePlace(m)
  <2> SUFFICES ASSUME NEW k \in 1 .. Len(m), NEW l \in 1 .. Len(m), m[k].address = m[l].address
               PROVE  k = l
    BY DEF OnePlace
  <2>1. CASE k \in 1 .. Len(others) /\ l \in 1 .. Len(others)
    BY <1>2, <1>4, <2>1 DEF OnePlace
  <2>2. CASE k = Len(m) \/ l = Len(m)
    <3>1. \A n \in 1 .. Len(others) : m[n].address # a
      BY <1>2, <1>4
    <3>2. m[Len(m)].address = a
      BY <1>1, <1>4
    <3>3. \A n \in 1 .. Len(m) : n = Len(m) \/ n \in 1 .. Len(others)
      BY <1>4, <1>5
    <3> QED BY <2>2, <3>1, <3>2, <3>3
  <2> QED BY <1>4, <1>5, <2>1, <2>2
<1>7. Holds(m, Entry(a, id))
  BY <1>4, <1>5 DEF Holds
<1>8. ASSUME NEW e, Holds(tracked, e), e.address # a PROVE Holds(m, e)
  <2>1. PICK k \in 1 .. Len(others) : others[k] = e
    BY <1>2, <1>8 DEF Holds
  <2>2. m[k] = e /\ k \in 1 .. Len(m)
    BY <1>4, <1>5, <2>1
  <2> QED BY <2>2 DEF Holds
<1> QED BY <1>3, <1>4, <1>6, <1>7, <1>8 DEF E, m

(* Without its first entry a table still has each address once, and every *)
(* other entry.                                                           *)
LEMMA TailKeeps ==
  ASSUME NEW E, NEW s \in Seq(E), s # <<>>, OnePlace(s)
  PROVE  /\ Tail(s) \in Seq(E) /\ OnePlace(Tail(s))
         /\ \A e : Holds(s, e) /\ e.address # Head(s).address => Holds(Tail(s), e)
<1>1. Tail(s) \in Seq(E) /\ Len(Tail(s)) = Len(s) - 1 /\ Head(s) = s[1]
  BY HeadTailProperties
<1>2. \A k \in 1 .. Len(Tail(s)) : Tail(s)[k] = s[k + 1]
  BY HeadTailProperties
<1>3. Len(s) \in Nat
  OBVIOUS
<1>4. OnePlace(Tail(s))
  <2> SUFFICES ASSUME NEW i \in 1 .. Len(Tail(s)), NEW j \in 1 .. Len(Tail(s)),
                      Tail(s)[i].address = Tail(s)[j].address
               PROVE  i = j
    BY DEF OnePlace
  <2>1. i + 1 \in 1 .. Len(s) /\ j + 1 \in 1 .. Len(s)
    BY <1>1, <1>3
  <2>2. s[i + 1].address = s[j + 1].address
    BY <1>2
  <2>3. i + 1 = j + 1
    BY <2>1, <2>2 DEF OnePlace
  <2> QED BY <1>1, <1>3, <2>3
<1>5. ASSUME NEW e, Holds(s, e), e.address # Head(s).address PROVE Holds(Tail(s), e)
  <2>1. PICK k \in 1 .. Len(s) : s[k] = e
    BY <1>5 DEF Holds
  <2>2. k # 1
    BY <1>1, <1>5, <2>1
  <2>3. k - 1 \in 1 .. Len(Tail(s)) /\ (k - 1) + 1 = k
    BY <1>1, <1>3, <2>2
  <2>4. Tail(s)[k - 1] = s[k]
    BY <1>2, <2>3
  <2> QED BY <2>1, <2>3, <2>4 DEF Holds
<1> QED BY <1>1, <1>4, <1>5

(* The table after a failure: of its kind, each address once, and nothing *)
(* lost but what is dropped.                                              *)
LEMMA TrackKeeps ==
  ASSUME NEW S, tracked \in Seq(EntriesOf(S)), OnePlace(tracked), NEW a \in Addresses, NEW id \in S,
         Track(a, id)
  PROVE  /\ tracked' \in Seq(EntriesOf(S)) /\ OnePlace(tracked') /\ dropped \subseteq dropped'
         /\ a \notin dropped' => Holds(tracked', Entry(a, id))
         /\ \A e : Holds(tracked, e) /\ e.address # a /\ e.address \notin dropped' => Holds(tracked', e)
<1> DEFINE m == Moved(a, id)
<1>1. /\ m \in Seq(EntriesOf(S)) /\ m # <<>> /\ OnePlace(m) /\ Holds(m, Entry(a, id))
      /\ \A e : Holds(tracked, e) /\ e.address # a => Holds(m, e)
  BY MovedKeeps
<1>2. \/ tracked' = Tail(m) /\ dropped' = dropped \cup {Head(m).address}
      \/ tracked' = m /\ dropped' = dropped
  BY DEF Track
<1>3. Entry(a, id).address = a
  BY DEF Entry
<1> HIDE DEF m
<1>4. CASE tracked' = Tail(m) /\ dropped' = dropped \cup {Head(m).address}
  <2>1. /\ Tail(m) \in Seq(EntriesOf(S)) /\ OnePlace(Tail(m))
        /\ \A e : Holds(m, e) /\ e.address # Head(m).address => Holds(Tail(m), e)
    BY <1>1, TailKeeps
  <2> QED BY <1>1, <1>3, <1>4, <2>1
<1>5. CASE tracked' = m /\ dropped' = dropped
  BY <1>1, <1>5
<1> QED BY <1>2, <1>4, <1>5

(* The record of an address is one that a request made.                   *)
LEMMA RecordKnown ==
  ASSUME GuardTyped, NEW a \in Addresses, Record(a) # NoRecord
  PROVE  Record(a) \in Asked
<1>1. TrackedAt(a) # {} /\ Record(a) = tracked[CHOOSE k \in TrackedAt(a) : TRUE].record
  BY DEF Record
<1>2. (CHOOSE k \in TrackedAt(a) : TRUE) \in 1 .. Len(tracked)
  BY <1>1 DEF TrackedAt, GuardTyped
<1>3. tracked[CHOOSE k \in TrackedAt(a) : TRUE] \in EntriesOf(Asked)
  BY <1>2 DEF GuardTyped
<1> QED BY <1>1, <1>3 DEF EntriesOf

(* The record of an address is the one its only entry has.                *)
LEMMA RecordOf ==
  ASSUME OnePlace(tracked), NEW a, NEW i, Holds(tracked, Entry(a, i))
  PROVE  Record(a) = i
<1>1. PICK k \in 1 .. Len(tracked) : tracked[k] = Entry(a, i)
  BY DEF Holds
<1>2. k \in TrackedAt(a) /\ tracked[k].record = i /\ DOMAIN tracked = 1 .. Len(tracked)
  BY <1>1 DEF TrackedAt, Entry
<1>3. TrackedAt(a) = {k}
  BY <1>1, <1>2 DEF TrackedAt, OnePlace, Entry
<1> QED BY <1>2, <1>3 DEF Record

(* Nothing sleeps on a record that is started over.                       *)
LEMMA ForgottenIsIdle ==
  ASSUME GuardTyped, PendingIsCounted, NEW i \in Callers, Forgotten(i)
  PROVE  Sleepers(i) = {} /\ records[i].pending = 0
<1>1. Sleepers(i) = {}
  <2> SUFFICES ASSUME NEW r \in Callers, holds[r] = i PROVE FALSE
    BY DEF Sleepers
  <2>1. sleep[r] \in Nat /\ records[i].lastAt \in Nat /\ records[i].lastAt > MEMORY
    BY DEF GuardTyped, Forgotten
  <2>2. sleep[r] + records[i].lastAt <= maxMs
    BY GuardAssumption DEF PendingIsCounted
  <2> QED BY <2>1, <2>2, GuardAssumption
<1> QED BY <1>1, FS_EmptySet DEF PendingIsCounted

(* What is answered before the token is answered as it may be.            *)
LEMMA RoutedSoundly ==
  ASSUME NEW q \in Headers
  PROVE  /\ Route(q) \in {"token", "200", "204", "400", "403", "404"}
         /\ Route(q) \in {"200", "204", "token"} => HostAllowed(q)
         /\ Route(q) \in {"200", "token"} => ~(q.origin = "none" /\ q.site = "cross-site")
         /\ Route(q) = "token" => q.origin # "other"
         /\ Cors(q) => q.origin = "listed" /\ Route(q) \notin {"200", "404"}
BY DEF Headers, Route, Cors, HostAllowed, OriginAllowed, FetchSiteAllowed

(* A wrong token: the request joins the sleepers of a record of its       *)
(* address, or is turned away because there are enough of them.           *)
LEMMA ThrottleSafe ==
  ASSUME GuardInv, NEW r \in Callers, NEW q \in Headers, NEW a \in Addresses, asked[r] = Nothing,
         asked' = [asked EXCEPT ![r] = q], cors' = [cors EXCEPT ![r] = Cors(q)],
         Route(q) = "token", ThrottleFailure(r, a)
  PROVE  GuardInv'
<1> DEFINE old   == Record(a)
           fresh == old = NoRecord \/ Forgotten(old)
           id    == IF fresh THEN r ELSE old
           now   == IF fresh THEN [failures |-> 0, pending |-> IF old = NoRecord THEN 0 ELSE records[old].pending,
                                   lastAt |-> 0, lastDecayAt |-> DECAY_INTERVAL]
                    ELSE records[old]
<1>0. GuardTyped /\ PendingIsCounted
  BY DEF GuardInv
<1>1. q # Nothing
  BY DEF Headers, Nothing
<1>2. /\ Asked' = Asked \cup {r} /\ r \notin Asked
      /\ asked' \in [Callers -> Headers \cup {Nothing}]
      /\ cors' \in [Callers -> BOOLEAN]
  BY <1>0, <1>1, RoutedSoundly DEF Asked, GuardTyped, Cors
<1>3. old # NoRecord => old \in Asked /\ old \in Callers
  BY <1>0, RecordKnown DEF Asked
<1>4. id \in Asked' /\ id \in Callers
  BY <1>2, <1>3
<1>5. now \in [failures : Nat, pending : Nat, lastAt : Nat, lastDecayAt : Nat]
  BY <1>0, <1>3, GuardAssumption DEF GuardTyped
<1>6. now.pending = Cardinality(Sleepers(id)) /\ IsFiniteSet(Sleepers(id))
  <2>1. CASE fresh
    <3>1. Sleepers(r) = {}
      BY <1>0, <1>2, GuardAssumption DEF Sleepers, PendingIsCounted
    <3>2. now.pending = 0
      BY <1>0, <1>3, <2>1, ForgottenIsIdle
    <3> QED BY <2>1, <3>1, <3>2, FS_EmptySet
  <2>2. CASE ~fresh
    BY <1>0, <1>3, <2>2 DEF PendingIsCounted
  <2> QED BY <2>1, <2>2
<1>7. /\ tracked' \in Seq(EntriesOf(Asked)') /\ OnePlace(tracked') /\ dropped \subseteq dropped'
      /\ a \notin dropped' => Holds(tracked', Entry(a, id))
      /\ \A e : Holds(tracked, e) /\ e.address # a /\ e.address \notin dropped' => Holds(tracked', e)
  <2>1. Track(a, id)
    BY DEF ThrottleFailure
  <2>2. EntriesOf(Asked) \subseteq EntriesOf(Asked')
    BY <1>2 DEF EntriesOf
  <2>3. tracked \in Seq(EntriesOf(Asked'))
    BY <1>0, <2>2, SeqMonotonic DEF GuardTyped
  <2>4. OnePlace(tracked)
    BY DEF GuardInv, AddressesAreKept
  <2> HIDE DEF id
  <2>5. /\ tracked' \in Seq(EntriesOf(Asked')) /\ OnePlace(tracked') /\ dropped \subseteq dropped'
        /\ a \notin dropped' => Holds(tracked', Entry(a, id))
        /\ \A e : Holds(tracked, e) /\ e.address # a /\ e.address \notin dropped' => Holds(tracked', e)
    BY <1>4, <2>1, <2>3, <2>4, TrackKeeps
  <2>6. EntriesOf(Asked)' = EntriesOf(Asked')
    BY DEF EntriesOf
  <2> QED BY <2>5, <2>6
<1>8. holds[r] = NoRecord /\ r # NoRecord /\ NoRecord \notin Callers
  BY <1>0, GuardAssumption DEF GuardInv, PendingIsCounted
<1>11. ASSUME NEW x \in Callers, sender[x] \in Addresses \ dropped'
       PROVE  Holds(tracked', Entry(sender[x], holds[x]))
  <2>1. Holds(tracked, Entry(sender[x], holds[x])) /\ holds[x] # NoRecord /\ sender[x] \notin dropped'
    BY <1>7, <1>8, <1>11, GuardAssumption DEF GuardInv, AddressesAreKept
  <2>2. CASE sender[x] = a
    <3>1. holds[x] = old /\ old # NoRecord
      BY <1>8, <2>1, <2>2, RecordOf DEF GuardInv, AddressesAreKept
    <3>2. ~Forgotten(old)
      BY <1>0, <1>3, <3>1, ForgottenIsIdle DEF Sleepers
    <3> QED BY <1>7, <1>11, <2>2, <3>1, <3>2
  <2>3. CASE sender[x] # a
    <3>1. Entry(sender[x], holds[x]).address = sender[x]
      BY DEF Entry
    <3> QED BY <1>7, <1>11, <2>1, <2>3, <3>1
  <2> QED BY <2>2, <2>3
<1>9. CASE now.pending >= MAX_PENDING
  <2>1. /\ answer' = [answer EXCEPT ![r] = "429"] /\ records' = [records EXCEPT ![id] = now]
        /\ sleep' = sleep /\ holds' = holds /\ sender' = sender
    BY <1>9 DEF ThrottleFailure
  <2> HIDE DEF old, id, now
  <2>2. GuardTyped'
    BY <1>0, <1>2, <1>4, <1>5, <1>7, <2>1 DEF GuardTyped
  <2>3. \A i \in Callers : Sleepers(i)' = Sleepers(i)
    BY <2>1 DEF Sleepers
  <2>4. \A i \in Callers : records'[i].pending = records[i].pending
    BY <1>0, <1>4, <1>6, <2>1 DEF GuardTyped, PendingIsCounted
  <2>5. \A x \in Callers : holds[x] # NoRecord => records'[holds[x]].lastAt \in Nat
                             /\ records'[holds[x]].lastAt <= records[holds[x]].lastAt
    <3> SUFFICES ASSUME NEW x \in Callers, holds[x] # NoRecord
                 PROVE  records'[holds[x]].lastAt \in Nat
                          /\ records'[holds[x]].lastAt <= records[holds[x]].lastAt
      OBVIOUS
    <3>1. holds[x] \in Callers
      BY <1>0 DEF GuardTyped
    <3>2. id = holds[x] => now.lastAt <= records[id].lastAt
      <4>1. CASE fresh
        BY <1>0, <1>4, <4>1 DEF GuardTyped, now
      <4>2. CASE ~fresh
        <5>1. old # NoRecord /\ id = old /\ now = records[id]
          BY <4>2 DEF now, id
        <5>2. old \in Callers
          BY <1>3, <5>1
        <5>3. records[id].lastAt \in Nat
          BY <1>0, <5>1, <5>2 DEF GuardTyped
        <5> QED BY <5>1, <5>3
      <4> QED BY <4>1, <4>2
    <3>3. records'[holds[x]] = IF holds[x] = id THEN now ELSE records[holds[x]]
      BY <1>0, <1>4, <2>1, <3>1 DEF GuardTyped
    <3>4. records[holds[x]].lastAt \in Nat /\ now.lastAt \in Nat
      BY <1>0, <1>5, <3>1 DEF GuardTyped
    <3> QED BY <3>2, <3>3, <3>4
  <2>6. PendingIsCounted'
    <3>1. \A x \in Callers : holds[x] # NoRecord =>
            /\ holds[x] \in Asked'
            /\ sleep[x] + records'[holds[x]].lastAt <= maxMs
      <4> SUFFICES ASSUME NEW x \in Callers, holds[x] # NoRecord
                   PROVE  /\ holds[x] \in Asked'
                          /\ sleep[x] + records'[holds[x]].lastAt <= maxMs
        OBVIOUS
      <4>1. /\ holds[x] \in Asked /\ holds[x] \in Callers
            /\ sleep[x] \in Nat /\ records[holds[x]].lastAt \in Nat
            /\ sleep[x] + records[holds[x]].lastAt <= maxMs
        BY <1>0 DEF GuardTyped, PendingIsCounted
      <4>2. records'[holds[x]].lastAt \in Nat /\ records'[holds[x]].lastAt <= records[holds[x]].lastAt
        BY <2>5
      <4> QED BY <1>2, <4>1, <4>2, GuardAssumption
    <3>2. \A x \in Callers : holds[x] # NoRecord <=> answer'[x] = "sleeping"
      BY <1>0, <1>8, <2>1 DEF GuardTyped, PendingIsCounted
    <3>3. \A i \in Callers : /\ IsFiniteSet(Sleepers(i)') /\ records'[i].pending = Cardinality(Sleepers(i)')
                             /\ records'[i].pending <= MAX_PENDING
      BY <1>0, <2>3, <2>4 DEF PendingIsCounted
    <3> QED BY <2>1, <3>1, <3>2, <3>3 DEF PendingIsCounted
  <2>7. \A x \in Callers : Admitted(x)'
    BY <1>0, <2>1, RoutedSoundly DEF GuardInv, GuardTyped, Admitted, HostAllowed
  <2>8. \A x \in Callers : asked'[x] = Nothing => answer'[x] = "waiting"
    BY <1>0, <1>1, <2>1 DEF GuardInv, GuardTyped
  <2>9. AddressesAreKept'
    BY <1>7, <1>11, <2>1 DEF GuardInv, AddressesAreKept, OnePlace, Holds, Entry
  <2> QED BY <2>2, <2>6, <2>7, <2>8, <2>9 DEF GuardInv
<1>10. CASE ~(now.pending >= MAX_PENDING)
  <2> HIDE DEF old, id, now
  <2> DEFINE rec == [failures |-> now.failures + 1, pending |-> now.pending + 1, lastAt |-> 0,
                     lastDecayAt |-> now.lastDecayAt]
  <2>1. /\ answer' = [answer EXCEPT ![r] = "sleeping"] /\ records' = [records EXCEPT ![id] = rec]
        /\ sleep' = [sleep EXCEPT ![r] = Delay(now.failures + 1)]
        /\ holds' = [holds EXCEPT ![r] = id] /\ sender' = [sender EXCEPT ![r] = a]
    BY <1>10 DEF ThrottleFailure, old, id, now
  <2>2. now.failures + 1 \in Nat \ {0} /\ now.pending \in Nat /\ MAX_PENDING \in Nat /\ maxMs \in Nat
    BY <1>5, GuardAssumption
  <2>3. /\ rec \in [failures : Nat, pending : Nat, lastAt : Nat, lastDecayAt : Nat]
        /\ rec.pending = now.pending + 1 /\ rec.lastAt = 0
    BY <1>5
  <2> HIDE DEF rec
  <2>4. Delay(now.failures + 1) \in Nat /\ Delay(now.failures + 1) <= maxMs
    BY <2>2, DelayBounded
  <2>5. GuardTyped'
    BY <1>0, <1>2, <1>4, <1>7, <2>1, <2>3, <2>4 DEF GuardTyped
  <2>6. \A i \in Callers : Sleepers(i)' = IF i = id THEN Sleepers(i) \cup {r} ELSE Sleepers(i)
    <3>1. holds[r] = NoRecord /\ NoRecord \notin Callers
      BY <1>8, GuardAssumption
    <3>2. \A x \in Callers : holds'[x] = IF x = r THEN id ELSE holds[x]
      BY <1>0, <2>1 DEF GuardTyped
    <3> QED BY <3>1, <3>2 DEF Sleepers
  <2>7. r \notin Sleepers(id)
    BY <1>4, <1>8 DEF Sleepers
  <2>8. PendingIsCounted'
    <3>1. \A i \in Callers : /\ IsFiniteSet(Sleepers(i)') /\ records'[i].pending = Cardinality(Sleepers(i)')
                             /\ records'[i].pending <= MAX_PENDING
      <4> SUFFICES ASSUME NEW i \in Callers
                   PROVE  /\ IsFiniteSet(Sleepers(i)') /\ records'[i].pending = Cardinality(Sleepers(i)')
                          /\ records'[i].pending <= MAX_PENDING
        OBVIOUS
      <4>1. CASE i = id
        <5>1. /\ IsFiniteSet(Sleepers(id) \cup {r})
              /\ Cardinality(Sleepers(id) \cup {r}) = now.pending + 1
          BY <1>6, <2>7, FS_AddElement
        <5>2. records'[i].pending = now.pending + 1
          BY <1>0, <1>4, <2>1, <2>3, <4>1 DEF GuardTyped
        <5>3. Sleepers(i)' = Sleepers(id) \cup {r}
          BY <2>6, <4>1
        <5>4. now.pending + 1 <= MAX_PENDING
          BY <1>10, <2>2
        <5> QED BY <5>1, <5>2, <5>3, <5>4
      <4>2. CASE i # id
        BY <1>0, <2>1, <2>6, <4>2 DEF GuardTyped, PendingIsCounted
      <4> QED BY <4>1, <4>2
    <3>2. \A x \in Callers : holds'[x] # NoRecord <=> answer'[x] = "sleeping"
      BY <1>0, <1>4, <1>8, <2>1 DEF GuardTyped, PendingIsCounted
    <3>3. ASSUME NEW x \in Callers, holds'[x] # NoRecord
          PROVE  /\ holds'[x] \in Asked'
                 /\ sleep'[x] + records'[holds'[x]].lastAt <= maxMs
      <4>1. CASE x = r
        BY <1>0, <1>4, <2>1, <2>3, <2>4, <4>1 DEF GuardTyped
      <4>2. CASE x # r
        <5>1. /\ holds'[x] = holds[x] /\ sleep'[x] = sleep[x]
              /\ holds[x] \in Asked /\ holds[x] \in Callers
              /\ sleep[x] \in Nat /\ records[holds[x]].lastAt \in Nat
              /\ sleep[x] + records[holds[x]].lastAt <= maxMs
          BY <1>0, <2>1, <3>3, <4>2 DEF GuardTyped, PendingIsCounted
        <5>2. records'[holds[x]].lastAt \in {0, records[holds[x]].lastAt}
          BY <1>0, <2>1, <2>3, <5>1 DEF GuardTyped
        <5> QED BY <1>2, <2>2, <5>1, <5>2
      <4> QED BY <4>1, <4>2
    <3> QED BY <3>1, <3>2, <3>3 DEF PendingIsCounted
  <2>9. \A x \in Callers : Admitted(x)'
    BY <1>0, <2>1, RoutedSoundly DEF GuardInv, GuardTyped, Admitted, HostAllowed
  <2>10. \A x \in Callers : asked'[x] = Nothing => answer'[x] = "waiting"
    BY <1>0, <1>1, <2>1 DEF GuardInv, GuardTyped
  <2>11. AddressesAreKept'
    <3>0. DOMAIN sender = Callers /\ DOMAIN holds = Callers
      BY <1>0 DEF GuardTyped
    <3>1. sender'[r] = a /\ holds'[r] = id
      BY <2>1, <3>0
    <3>2. \A x \in Callers \ {r} : sender'[x] = sender[x] /\ holds'[x] = holds[x]
      BY <2>1, <3>0
    <3>3. \A x \in Callers : sender'[x] # NoRecord => holds'[x] # NoRecord
      BY <1>4, <1>8, <3>1, <3>2 DEF GuardInv, AddressesAreKept
    <3>4. ASSUME NEW x \in Callers, sender'[x] \in Addresses \ dropped'
          PROVE  Holds(tracked', Entry(sender'[x], holds'[x]))
      <4>1. CASE x = r
        BY <1>7, <3>1, <3>4, <4>1
      <4>2. CASE x # r
        BY <1>11, <3>2, <3>4, <4>2
      <4> QED BY <4>1, <4>2
    <3>5. OnePlace(tracked)'
      BY <1>7 DEF OnePlace
    <3>6. \A x \in Callers : sender'[x] \in Addresses \ dropped' => Holds(tracked, Entry(sender[x], holds[x]))'
      BY <3>4 DEF Holds, Entry
    <3> QED BY <3>3, <3>5, <3>6 DEF AddressesAreKept
  <2> QED BY <2>5, <2>8, <2>9, <2>10, <2>11 DEF GuardInv
<1> QED BY <1>9, <1>10

(* A request that is answered at once changes no count: one stopped before*)
(* the token, and one with the good token, which may take a failure off.  *)
LEMMA AnsweredSafe ==
  ASSUME GuardInv, NEW r \in Callers, NEW q \in Headers, asked[r] = Nothing,
         NEW x \in {"mcp", "200", "204", "400", "403", "404"},
         asked' = [asked EXCEPT ![r] = q], cors' = [cors EXCEPT ![r] = Cors(q)],
         answer' = [answer EXCEPT ![r] = x], UNCHANGED <<sleep, holds, tracked, sender, dropped>>,
         records' \in [Callers -> [failures : Nat, pending : Nat, lastAt : Nat, lastDecayAt : Nat]],
         \A i \in Callers : records'[i].pending = records[i].pending /\ records'[i].lastAt = records[i].lastAt,
         IF x = "mcp" THEN Route(q) = "token" /\ q.token = "good" ELSE x = Route(q)
  PROVE  GuardInv'
<1>0. GuardTyped /\ PendingIsCounted
  BY DEF GuardInv
<1>1. q # Nothing
  BY DEF Headers, Nothing
<1>2. Asked' = Asked \cup {r} /\ r \notin Asked
  BY <1>0, <1>1 DEF Asked, GuardTyped
<1>3. tracked' \in Seq(EntriesOf(Asked)')
  <2>1. EntriesOf(Asked) \subseteq EntriesOf(Asked')
    BY <1>2 DEF EntriesOf
  <2>2. tracked \in Seq(EntriesOf(Asked'))
    BY <1>0, <2>1, SeqMonotonic DEF GuardTyped
  <2>3. EntriesOf(Asked)' = EntriesOf(Asked')
    BY DEF EntriesOf
  <2> QED BY <2>2, <2>3
<1>4. GuardTyped'
  BY <1>0, <1>3, RoutedSoundly DEF GuardTyped, Cors
<1>5. holds[r] = NoRecord
  BY DEF GuardInv, PendingIsCounted
<1>6. PendingIsCounted'
  <2>1. \A i \in Callers : Sleepers(i)' = Sleepers(i)
    BY DEF Sleepers
  <2>2. \A i \in Callers : /\ IsFiniteSet(Sleepers(i)') /\ records'[i].pending = Cardinality(Sleepers(i)')
                           /\ records'[i].pending <= MAX_PENDING
    BY <1>0, <2>1 DEF PendingIsCounted
  <2>3. \A y \in Callers : holds[y] # NoRecord <=> answer'[y] = "sleeping"
    BY <1>0, <1>5 DEF GuardTyped, PendingIsCounted
  <2>4. \A y \in Callers : holds[y] # NoRecord =>
          holds[y] \in Asked' /\ sleep[y] + records'[holds[y]].lastAt <= maxMs
    BY <1>0, <1>2 DEF PendingIsCounted, GuardTyped
  <2> QED BY <2>2, <2>3, <2>4 DEF PendingIsCounted
<1>7. \A y \in Callers : Admitted(y)'
  <2> SUFFICES ASSUME NEW y \in Callers PROVE Admitted(y)'
    OBVIOUS
  <2>1. Admitted(y) /\ DOMAIN asked = Callers /\ DOMAIN answer = Callers /\ DOMAIN cors = Callers
    BY <1>0 DEF GuardInv, GuardTyped
  <2>2. CASE y = r
    <3>1. asked'[r] = q /\ answer'[r] = x /\ cors'[r] = Cors(q)
      BY <2>1
    <3> QED BY <2>2, <3>1, RoutedSoundly DEF Admitted
  <2>3. CASE y # r
    <3>1. asked'[y] = asked[y] /\ answer'[y] = answer[y] /\ cors'[y] = cors[y]
      BY <2>1, <2>3
    <3> QED BY <2>1, <3>1 DEF Admitted
  <2> QED BY <2>2, <2>3
<1>8. \A y \in Callers : asked'[y] = Nothing => answer'[y] = "waiting"
  BY <1>0, <1>1 DEF GuardInv, GuardTyped
<1>9. AddressesAreKept'
  BY DEF GuardInv, AddressesAreKept, OnePlace, Holds, Entry
<1> QED BY <1>4, <1>6, <1>7, <1>8, <1>9 DEF GuardInv

(* A request arrives.                                                     *)
LEMMA RequestSafe ==
  ASSUME GuardInv, NEW r \in Callers, Request(r)
  PROVE  GuardInv'
<1>0. PICK q \in Carries(r), a \in Addresses :
        /\ asked' = [asked EXCEPT ![r] = q]
        /\ cors' = [cors EXCEPT ![r] = Cors(q)]
        /\ \/ /\ Route(q) # "token"
              /\ answer' = [answer EXCEPT ![r] = Route(q)]
              /\ UNCHANGED <<sleep, holds, records, tracked, sender, dropped>>
           \/ /\ Route(q) = "token" /\ q.token = "good"
              /\ DecayFailures(a)
              /\ answer' = [answer EXCEPT ![r] = "mcp"]
              /\ UNCHANGED <<sleep, holds, tracked, sender, dropped>>
           \/ /\ Route(q) = "token" /\ q.token # "good"
              /\ ThrottleFailure(r, a)
  BY DEF Request
<1>1. asked[r] = Nothing
  BY DEF Request
<1>2. q \in Headers
  <2>1. Guess \subseteq Headers
    BY DEF Guess, Headers, Ordinary
  <2> QED BY <1>0, <2>1 DEF Carries
<1>3. GuardTyped
  BY DEF GuardInv
<1>4. CASE Route(q) # "token" /\ answer' = [answer EXCEPT ![r] = Route(q)]
             /\ UNCHANGED <<sleep, holds, records, tracked, sender, dropped>>
  <2>1. Route(q) \in {"200", "204", "400", "403", "404"}
    BY <1>2, <1>4, RoutedSoundly
  <2> QED BY <1>0, <1>1, <1>2, <1>3, <1>4, <2>1, AnsweredSafe DEF GuardTyped
<1>5. CASE /\ Route(q) = "token" /\ q.token = "good" /\ DecayFailures(a)
           /\ answer' = [answer EXCEPT ![r] = "mcp"] /\ UNCHANGED <<sleep, holds, tracked, sender, dropped>>
  <2>1. /\ records' \in [Callers -> [failures : Nat, pending : Nat, lastAt : Nat, lastDecayAt : Nat]]
        /\ \A i \in Callers : records'[i].pending = records[i].pending /\ records'[i].lastAt = records[i].lastAt
    <3> DEFINE id == Record(a)
    <3>1. CASE id # NoRecord /\ records[id].failures > 0 /\ records[id].lastDecayAt >= DECAY_INTERVAL
      <4>1. id \in Callers
        BY <1>3, <3>1, RecordKnown DEF Asked
      <4>2. records' = [records EXCEPT ![id] = [records[id] EXCEPT !.failures = records[id].failures - 1,
                                                                   !.lastDecayAt = 0]]
        BY <1>5, <3>1 DEF DecayFailures
      <4> HIDE DEF id
      <4>3. /\ records[id] \in [failures : Nat, pending : Nat, lastAt : Nat, lastDecayAt : Nat]
            /\ records[id].failures - 1 \in Nat
        BY <1>3, <3>1, <4>1 DEF GuardTyped
      <4> DEFINE rec == [records[id] EXCEPT !.failures = records[id].failures - 1, !.lastDecayAt = 0]
      <4>4. rec \in [failures : Nat, pending : Nat, lastAt : Nat, lastDecayAt : Nat]
        BY <4>3
      <4>5. rec.pending = records[id].pending /\ rec.lastAt = records[id].lastAt
        BY <4>3
      <4>6. records' = [records EXCEPT ![id] = rec]
        BY <4>2
      <4> HIDE DEF rec
      <4> QED BY <1>3, <4>1, <4>4, <4>5, <4>6 DEF GuardTyped
    <3>2. CASE ~(id # NoRecord /\ records[id].failures > 0 /\ records[id].lastDecayAt >= DECAY_INTERVAL)
      BY <1>3, <1>5, <3>2 DEF DecayFailures, GuardTyped
    <3> QED BY <3>1, <3>2
  <2> QED BY <1>0, <1>1, <1>2, <1>5, <2>1, AnsweredSafe
<1>6. CASE Route(q) = "token" /\ q.token # "good" /\ ThrottleFailure(r, a)
  BY <1>0, <1>1, <1>2, <1>6, ThrottleSafe
<1> QED BY <1>0, <1>4, <1>5, <1>6

(* The finally of throttleFailure takes the sleeper off the record it slept *)
(* on, which the table may have forgotten meanwhile.                      *)
LEMMA WakeUpSafe ==
  ASSUME GuardInv, NEW r \in Callers, WakeUp(r)
  PROVE  GuardInv'
<1> DEFINE i == holds[r]
<1>0. GuardTyped /\ PendingIsCounted
  BY DEF GuardInv
<1>1. /\ answer[r] = "sleeping" /\ answer' = [answer EXCEPT ![r] = "401"]
      /\ records' = [records EXCEPT ![i].pending = @ - 1]
      /\ holds' = [holds EXCEPT ![r] = NoRecord] /\ sender' = [sender EXCEPT ![r] = NoRecord]
      /\ UNCHANGED <<asked, cors, sleep, tracked, dropped>>
  BY DEF WakeUp
<1>2. i \in Callers /\ NoRecord \notin Callers /\ i # NoRecord
  BY <1>0, <1>1, GuardAssumption DEF GuardTyped, PendingIsCounted
<1>3. r \in Sleepers(i) /\ IsFiniteSet(Sleepers(i)) /\ records[i].pending = Cardinality(Sleepers(i))
  BY <1>0, <1>2 DEF Sleepers, PendingIsCounted
<1>4. /\ \A j \in Callers : Sleepers(j)' = IF j = i THEN Sleepers(i) \ {r} ELSE Sleepers(j)
      /\ Asked' = Asked
  BY <1>0, <1>1, <1>2 DEF Sleepers, GuardTyped, Asked
<1>5. IsFiniteSet(Sleepers(i) \ {r}) /\ Cardinality(Sleepers(i) \ {r}) = records[i].pending - 1
  BY <1>3, FS_RemoveElement
<1>6. records[i].pending - 1 \in Nat
  BY <1>5, FS_CardinalityType
<1>7. records' \in [Callers -> [failures : Nat, pending : Nat, lastAt : Nat, lastDecayAt : Nat]]
  BY <1>0, <1>1, <1>2, <1>6 DEF GuardTyped
<1>8. \A j \in Callers : /\ records'[j].pending = IF j = i THEN records[i].pending - 1 ELSE records[j].pending
                         /\ records'[j].lastAt = records[j].lastAt
  BY <1>0, <1>1, <1>2 DEF GuardTyped
<1>9. GuardTyped'
  BY <1>0, <1>1, <1>4, <1>7 DEF GuardTyped, EntriesOf
<1>10. PendingIsCounted'
  <2>1. \A j \in Callers : /\ IsFiniteSet(Sleepers(j)') /\ records'[j].pending = Cardinality(Sleepers(j)')
                           /\ records'[j].pending <= MAX_PENDING
    <3> SUFFICES ASSUME NEW j \in Callers
                 PROVE  /\ IsFiniteSet(Sleepers(j)') /\ records'[j].pending = Cardinality(Sleepers(j)')
                        /\ records'[j].pending <= MAX_PENDING
      OBVIOUS
    <3>0. records[j].pending \in Nat /\ records[j].pending <= MAX_PENDING /\ MAX_PENDING \in Nat
      BY <1>0, GuardAssumption DEF GuardTyped, PendingIsCounted
    <3>1. CASE j = i
      <4>1. Sleepers(j)' = Sleepers(i) \ {r} /\ records'[j].pending = records[i].pending - 1
        BY <1>4, <1>8, <3>1
      <4>2. records[i].pending \in Nat /\ records[i].pending <= MAX_PENDING
        BY <3>0, <3>1
      <4> HIDE DEF i
      <4>3. records'[j].pending <= MAX_PENDING
        BY <3>0, <4>1, <4>2
      <4> QED BY <1>5, <4>1, <4>3
    <3>2. CASE j # i
      BY <1>0, <1>4, <1>8, <3>2 DEF PendingIsCounted
    <3> QED BY <3>1, <3>2
  <2>2. \A x \in Callers : holds'[x] # NoRecord <=> answer'[x] = "sleeping"
    BY <1>0, <1>1 DEF GuardTyped, PendingIsCounted
  <2>3. \A x \in Callers : holds'[x] # NoRecord =>
          holds'[x] \in Asked' /\ sleep'[x] + records'[holds'[x]].lastAt <= maxMs
    <3> SUFFICES ASSUME NEW x \in Callers, holds'[x] # NoRecord
                 PROVE  holds'[x] \in Asked' /\ sleep'[x] + records'[holds'[x]].lastAt <= maxMs
      OBVIOUS
    <3>1. holds'[x] = holds[x] /\ holds[x] # NoRecord /\ sleep'[x] = sleep[x]
      BY <1>0, <1>1 DEF GuardTyped
    <3> QED BY <1>0, <1>4, <1>8, <3>1, SMTT(30) DEF GuardTyped, PendingIsCounted
  <2> QED BY <2>1, <2>2, <2>3 DEF PendingIsCounted
<1>11. \A x \in Callers : Admitted(x)'
  BY <1>0, <1>1 DEF GuardInv, GuardTyped, Admitted, HostAllowed
<1>12. \A x \in Callers : asked'[x] = Nothing => answer'[x] = "waiting"
  BY <1>0, <1>1 DEF GuardInv, GuardTyped
<1>13. AddressesAreKept'
  <2>1. /\ DOMAIN sender = Callers /\ DOMAIN holds = Callers
        /\ sender'[r] = NoRecord /\ holds'[r] = NoRecord
        /\ \A x \in Callers \ {r} : sender'[x] = sender[x] /\ holds'[x] = holds[x]
    BY <1>0, <1>1 DEF GuardTyped
  <2>2. OnePlace(tracked)' /\ \A x \in Callers : sender'[x] # NoRecord => holds'[x] # NoRecord
    BY <1>1, <2>1 DEF GuardInv, AddressesAreKept, OnePlace
  <2>3. ASSUME NEW x \in Callers, sender'[x] \in Addresses \ dropped'
        PROVE  Holds(tracked', Entry(sender'[x], holds'[x]))
    <3>1. x # r
      BY <2>1, <2>3, GuardAssumption
    <3> QED BY <1>1, <2>1, <2>3, <3>1 DEF GuardInv, AddressesAreKept
  <2>4. \A x \in Callers : sender'[x] \in Addresses \ dropped' => Holds(tracked, Entry(sender[x], holds[x]))'
    BY <2>3 DEF Holds, Entry
  <2> QED BY <2>2, <2>4 DEF AddressesAreKept
<1> QED BY <1>9, <1>10, <1>11, <1>12, <1>13 DEF GuardInv

(* Time takes from every sleep what it adds to the age of its record.     *)
LEMMA GuardTickSafe ==
  ASSUME GuardInv, GuardTick
  PROVE  GuardInv'
<1>0. GuardTyped /\ PendingIsCounted
  BY DEF GuardInv
<1>1. UNCHANGED <<asked, answer, cors, holds, tracked, sender, dropped>>
  BY DEF GuardTick
<1>2. /\ sleep' = [r \in Callers |-> IF sleep[r] > 0 THEN sleep[r] - 1 ELSE 0]
      /\ records' = [r \in Callers |-> [records[r] EXCEPT !.lastAt = Older(@, MEMORY),
                                                          !.lastDecayAt = Older(@, DECAY_INTERVAL)]]
      /\ \A r \in Callers : answer[r] = "sleeping" => sleep[r] > 0
  BY DEF GuardTick
<1>3. ASSUME NEW i \in Callers
      PROVE  /\ records'[i] \in [failures : Nat, pending : Nat, lastAt : Nat, lastDecayAt : Nat]
             /\ records'[i].pending = records[i].pending
             /\ records'[i].lastAt \in Nat /\ records'[i].lastAt <= records[i].lastAt + 1
  <2> DEFINE rec == [records[i] EXCEPT !.lastAt = Older(@, MEMORY), !.lastDecayAt = Older(@, DECAY_INTERVAL)]
  <2>1. records[i] \in [failures : Nat, pending : Nat, lastAt : Nat, lastDecayAt : Nat]
    BY <1>0 DEF GuardTyped
  <2>2. /\ Older(records[i].lastAt, MEMORY) \in Nat /\ Older(records[i].lastAt, MEMORY) <= records[i].lastAt + 1
        /\ Older(records[i].lastDecayAt, DECAY_INTERVAL) \in Nat
    BY <2>1 DEF Older
  <2>3. /\ rec \in [failures : Nat, pending : Nat, lastAt : Nat, lastDecayAt : Nat]
        /\ rec.pending = records[i].pending /\ rec.lastAt = Older(records[i].lastAt, MEMORY)
    BY <2>1, <2>2
  <2>4. records'[i] = rec
    BY <1>2
  <2> HIDE DEF rec
  <2> QED BY <2>2, <2>3, <2>4
<1>4. Asked' = Asked /\ \A i \in Callers : Sleepers(i)' = Sleepers(i)
  BY <1>1 DEF Asked, Sleepers
<1>5. GuardTyped'
  <2>1. sleep' \in [Callers -> Nat]
    <3>1. \A r \in Callers : (IF sleep[r] > 0 THEN sleep[r] - 1 ELSE 0) \in Nat
      BY <1>0 DEF GuardTyped
    <3> QED BY <1>2, <3>1
  <2>2. records' = [r \in Callers |-> records'[r]]
    BY <1>2
  <2> QED BY <1>0, <1>1, <1>3, <1>4, <2>1, <2>2 DEF GuardTyped, EntriesOf
<1>6. PendingIsCounted'
  <2>1. \A i \in Callers : /\ IsFiniteSet(Sleepers(i)') /\ records'[i].pending = Cardinality(Sleepers(i)')
                           /\ records'[i].pending <= MAX_PENDING
    BY <1>0, <1>3, <1>4 DEF PendingIsCounted
  <2>2. \A x \in Callers : holds[x] # NoRecord =>
          holds[x] \in Asked /\ sleep'[x] + records'[holds[x]].lastAt <= maxMs
    <3> SUFFICES ASSUME NEW x \in Callers, holds[x] # NoRecord
                 PROVE  holds[x] \in Asked /\ sleep'[x] + records'[holds[x]].lastAt <= maxMs
      OBVIOUS
    <3>1. /\ holds[x] \in Callers /\ holds[x] \in Asked /\ sleep[x] \in Nat /\ sleep[x] > 0
          /\ records[holds[x]].lastAt \in Nat /\ sleep[x] + records[holds[x]].lastAt <= maxMs
      BY <1>0, <1>2 DEF GuardTyped, PendingIsCounted
    <3>2. sleep'[x] = sleep[x] - 1
      BY <1>2, <3>1
    <3>3. records'[holds[x]].lastAt \in Nat /\ records'[holds[x]].lastAt <= records[holds[x]].lastAt + 1
      BY <1>3, <3>1
    <3> QED BY <3>1, <3>2, <3>3, GuardAssumption
  <2> QED BY <1>0, <1>1, <1>4, <2>1, <2>2 DEF PendingIsCounted
<1>7. AddressesAreKept'
  BY <1>1 DEF GuardInv, AddressesAreKept, OnePlace, Holds, Entry
<1> QED BY <1>0, <1>1, <1>5, <1>6, <1>7 DEF GuardInv, Admitted

(* Every step keeps the invariant.                                        *)
LEMMA GuardStepSafe ==
  ASSUME GuardInv, [GuardNext]_guardVars
  PROVE  GuardInv'
<1>1. CASE UNCHANGED guardVars
  <2>1. /\ asked' = asked /\ answer' = answer /\ cors' = cors /\ sleep' = sleep /\ holds' = holds
        /\ records' = records /\ tracked' = tracked /\ sender' = sender /\ dropped' = dropped
    BY <1>1 DEF guardVars
  <2>2. Asked' = Asked /\ \A i \in Callers : Sleepers(i)' = Sleepers(i)
    BY <2>1 DEF Asked, Sleepers
  <2>3. GuardTyped'
    BY <2>1, <2>2 DEF GuardInv, GuardTyped, EntriesOf
  <2>4. PendingIsCounted'
    BY <2>1, <2>2 DEF GuardInv, PendingIsCounted
  <2>5. AddressesAreKept'
    BY <2>1 DEF GuardInv, AddressesAreKept, OnePlace, Holds, Entry
  <2>6. \A r \in Callers : Admitted(r)' /\ (asked'[r] = Nothing => answer'[r] = "waiting")
    BY <2>1 DEF GuardInv, Admitted
  <2> QED BY <2>1, <2>3, <2>4, <2>5, <2>6 DEF GuardInv
<1> QED BY <1>1, GuardTickSafe, RequestSafe, WakeUpSafe DEF GuardNext

(* The server starts with an empty table.                                 *)
LEMMA GuardInitSafe == GuardInit => GuardInv
<1> SUFFICES ASSUME GuardInit PROVE GuardInv
  OBVIOUS
<1>1. \A i \in Callers : Sleepers(i) = {}
  BY GuardAssumption DEF GuardInit, Sleepers
<1>2. GuardTyped
  BY DEF GuardInit, GuardTyped
<1>3. PendingIsCounted
  <2>1. \A i \in Callers : records[i].pending = 0 /\ holds[i] = NoRecord /\ answer[i] = "waiting"
    BY DEF GuardInit
  <2>2. MAX_PENDING \in Nat
    BY GuardAssumption
  <2> QED BY <1>1, <2>1, <2>2, FS_EmptySet DEF PendingIsCounted
<1>4. AddressesAreKept
  BY GuardAssumption DEF GuardInit, AddressesAreKept, OnePlace
<1> QED BY <1>2, <1>3, <1>4 DEF GuardInv, GuardInit, Admitted

(* For any number of requests and addresses and any size of the table: what *)
(* reaches the sessions was let through by every check, the pending count *)
(* of a record is the number of its sleepers, though records are dropped  *)
(* and started over while requests sleep on them, and an address that the *)
(* table never had to drop has no more than MAX_PENDING of them           *)
(* (http.ts:377-405).                                                     *)
THEOREM AdmissionHolds == GuardSpec => []AdmissionIsSound
<1>1. ASSUME GuardInv, NEW a \in Addresses \ dropped
      PROVE  Cardinality({r \in Callers : sender[r] = a}) <= MAX_PENDING
  <2> DEFINE C == {r \in Callers : sender[r] = a}
  <2>1. CASE C = {}
    BY <2>1, FS_EmptySet, GuardAssumption
  <2>2. CASE C # {}
    <3>1. PICK y \in Callers : sender[y] = a
      BY <2>2
    <3>2. \A x \in C : holds[x] = Record(a)
      <4> SUFFICES ASSUME NEW x \in C PROVE holds[x] = Record(a)
        OBVIOUS
      <4>1. Holds(tracked, Entry(a, holds[x])) /\ OnePlace(tracked)
        BY <1>1 DEF GuardInv, AddressesAreKept
      <4> QED BY <4>1, RecordOf
    <3>3. holds[y] # NoRecord /\ holds[y] = Record(a) /\ holds[y] \in Callers
      BY <1>1, <3>1, <3>2, GuardAssumption DEF GuardInv, AddressesAreKept, GuardTyped
    <3> DEFINE i == holds[y]
    <3>4. /\ IsFiniteSet(Sleepers(i)) /\ Cardinality(Sleepers(i)) <= MAX_PENDING
      BY <1>1, <3>3 DEF GuardInv, PendingIsCounted
    <3>5. C \subseteq Sleepers(i)
      BY <3>2, <3>3 DEF Sleepers
    <3> HIDE DEF C, i
    <3>6. IsFiniteSet(C) /\ Cardinality(C) <= Cardinality(Sleepers(i)) /\ Cardinality(C) \in Nat
          /\ Cardinality(Sleepers(i)) \in Nat
      BY <3>4, <3>5, FS_Subset, FS_CardinalityType
    <3> QED BY <3>4, <3>6, GuardAssumption DEF C
  <2> QED BY <2>1, <2>2
<1>2. GuardInv => AdmissionIsSound
  BY <1>1 DEF GuardInv, PendingIsCounted, Admitted, AdmissionIsSound, Sleepers
<1> QED BY <1>2, GuardInitSafe, GuardStepSafe, PTL DEF GuardSpec

-----------------------------------------------------------------------------
(* What a secret is read as (SecretStrength).                             *)

(* A text of m characters.                                                *)
IsText(t, m) == m \in Nat /\ m >= 1 /\ t \in [1 .. m -> Nat] /\ DOMAIN t = 1 .. m /\ Len(t) = m

(* The length of a text.                                                  *)
LEMMA LengthIs ==
  ASSUME NEW m \in Nat, NEW t \in [1 .. m -> Nat]
  PROVE  Len(t) = m /\ DOMAIN t = 1 .. m /\ (m >= 1 => IsText(t, m))
<1>1. t \in Seq(Nat)
  BY SeqDef
<1>2. Len(t) \in Nat /\ DOMAIN t = 1 .. Len(t)
  BY <1>1, LenProperties
<1>3. DOMAIN t = 1 .. m
  OBVIOUS
<1>4. Len(t) = m
  BY <1>2, <1>3
<1> QED BY <1>3, <1>4 DEF IsText

(* The greatest of some lengths, none where there are none.               *)
LEMMA LongestIs ==
  ASSUME NEW m \in Nat, NEW T \in SUBSET (0 .. m)
  PROVE  Longest(T) \in T \cup {0} /\ \A x \in T : x <= Longest(T)
<1>1. (T \cup {0}) \in SUBSET (0 .. m) /\ T \cup {0} # {}
  OBVIOUS
<1>2. \E n \in T \cup {0} : \A x \in T \cup {0} : x <= n
  BY <1>1, GreatestNumber
<1>3. \E n \in T \cup {0} : \A x \in T : x <= n
  BY <1>2
<1> QED BY <1>3 DEF Longest

(* Where the loop of a comparison stops.                                  *)
LEMMA CommonIs ==
  ASSUME NEW m, NEW a, IsText(a, m), NEW i \in Nat, i >= 1, NEW b, NEW j
  PROVE  /\ Common(a, i, b, j) \in 0 .. m /\ ~Agree(a, i, b, j, Common(a, i, b, j))
         /\ \A k \in 0 .. Common(a, i, b, j) - 1 : Agree(a, i, b, j, k)
<1> DEFINE T == {n \in 0 .. m : ~Agree(a, i, b, j, n)}
<1>1. m \in T
  BY DEF IsText, Agree
<1>2. PICK n \in T : \A x \in T : n <= x
  <2>1. T \in SUBSET Nat /\ T # {}
    BY <1>1
  <2> HIDE DEF T
  <2> QED BY <2>1, LeastNumber
<1>3. n \in 0 .. m /\ ~Agree(a, i, b, j, n) /\ \A k \in 0 .. n - 1 : Agree(a, i, b, j, k)
  BY <1>2 DEF IsText
<1>4. Len(a) = m
  BY DEF IsText
<1> HIDE DEF T
<1>5. \E x \in 0 .. Len(a) : ~Agree(a, i, b, j, x) /\ \A k \in 0 .. x - 1 : Agree(a, i, b, j, k)
  BY <1>3, <1>4
<1> QED BY <1>4, <1>5 DEF Common

(* A stretch ends with the text.                                          *)
LEMMA CommonEnds ==
  ASSUME NEW m, NEW a, IsText(a, m), NEW i \in 1 .. m, NEW b, NEW j
  PROVE  Common(a, i, b, j) \in 0 .. m + 1 - i
<1>1. i \in Nat /\ i >= 1 /\ m \in Nat
  BY DEF IsText
<1>2. Common(a, i, b, j) \in 0 .. m /\ \A k \in 0 .. Common(a, i, b, j) - 1 : Agree(a, i, b, j, k)
  BY <1>1, CommonIs
<1>3. ~Agree(a, i, b, j, m + 1 - i)
  BY <1>1 DEF Agree, IsText
<1>4. m + 1 - i \in Nat
  BY <1>1
<1> HIDE DEF Agree
<1> QED BY <1>1, <1>2, <1>3, <1>4

(* So does a stretch that repeats an earlier one.                         *)
LEMMA RepeatEnds ==
  ASSUME NEW m, NEW t, IsText(t, m), NEW i \in 1 .. m, NEW from \in 1 .. i - 1
  PROVE  Common(t, from, t, i) \in 0 .. m + 1 - i
<1>1. from \in Nat /\ from >= 1 /\ m \in Nat /\ i \in Nat
  BY DEF IsText
<1>2. Common(t, from, t, i) \in 0 .. m /\ \A k \in 0 .. Common(t, from, t, i) - 1 : Agree(t, from, t, i, k)
  BY <1>1, CommonIs
<1>3. ~Agree(t, from, t, i, m + 1 - i)
  BY <1>1 DEF Agree, IsText
<1>4. m + 1 - i \in Nat
  BY <1>1
<1> HIDE DEF Agree
<1> QED BY <1>1, <1>2, <1>3, <1>4

(* Lower case changes capitals only.                                      *)
LEMMA LowerIs ==
  ASSUME NEW m, NEW t, IsText(t, m)
  PROVE  IsText(Lower(t), m) /\ \A i \in 1 .. m : t[i] \notin 65 .. 90 => Lower(t)[i] = t[i]
<1>1. m \in Nat /\ m >= 1 /\ DOMAIN t = 1 .. m /\ \A i \in 1 .. m : t[i] \in Nat
  BY DEF IsText
<1>2. Lower(t) \in [1 .. m -> Nat] /\ \A i \in 1 .. m : t[i] \notin 65 .. 90 => Lower(t)[i] = t[i]
  BY <1>1 DEF Lower
<1>3. IsText(Lower(t), m)
  BY <1>1, <1>2, LengthIs
<1> QED BY <1>2, <1>3

(* A run ends with the text, or where it goes on otherwise.               *)
LEMMA SequenceIs ==
  ASSUME NEW m, NEW t, IsText(t, m), NEW i \in 1 .. m
  PROVE  /\ SequenceLength(t, i) \in 0 .. m + 1 - i
         /\ i < m /\ t[i + 1] - t[i] \in {-2, -1, 1, 2} =>
              /\ SequenceLength(t, i) \in 2 .. m /\ ~GoesOn(t, i, SequenceLength(t, i))
<1> DEFINE T == {n \in 2 .. m : ~GoesOn(t, i, n)}
           n0 == SequenceLength(t, i)
<1>0. m \in Nat /\ Len(t) = m /\ i \in Nat /\ i >= 1
  BY DEF IsText
<1>1. CASE i = m \/ t[i + 1] - t[i] \notin {-2, -1, 1, 2}
  BY <1>0, <1>1 DEF SequenceLength
<1>2. CASE i < m /\ t[i + 1] - t[i] \in {-2, -1, 1, 2}
  <2>1. m + 1 - i \in T
    BY <1>0, <1>2 DEF GoesOn
  <2>2. PICK n \in T : \A x \in T : n <= x
    <3>1. T \in SUBSET Nat /\ T # {}
      BY <2>1
    <3> HIDE DEF T
    <3> QED BY <3>1, LeastNumber
  <2>3. n \in 2 .. m /\ ~GoesOn(t, i, n) /\ \A k \in 2 .. n - 1 : GoesOn(t, i, k)
    BY <1>0, <2>2
  <2>4. n0 = CHOOSE x \in 2 .. m : ~GoesOn(t, i, x) /\ \A k \in 2 .. x - 1 : GoesOn(t, i, k)
    BY <1>0, <1>2 DEF SequenceLength
  <2> HIDE DEF T, n0
  <2>5. n0 \in 2 .. m /\ ~GoesOn(t, i, n0) /\ \A k \in 2 .. n0 - 1 : GoesOn(t, i, k)
    BY <2>3, <2>4
  <2>6. n0 <= m + 1 - i
    <3>1. ~GoesOn(t, i, m + 1 - i) /\ m + 1 - i \in 2 .. m
      BY <1>0, <1>2 DEF GoesOn
    <3> HIDE DEF GoesOn
    <3> QED BY <1>0, <2>5, <3>1
  <2> QED BY <1>0, <2>5, <2>6 DEF n0
<1> QED BY <1>0, <1>1, <1>2

(* The pieces of the parse stay within the text, and are as long as the   *)
(* longest of what was found.                                             *)
LEMMA PieceIs ==
  ASSUME NEW m, NEW t, IsText(t, m), NEW i \in 1 .. m
  PROVE  /\ Piece(t, i) \in 1 .. m + 1 - i
         /\ \A from \in 1 .. i - 1 : Common(t, from, t, i) >= 4 => Piece(t, i) >= Common(t, from, t, i)
         /\ SequenceLength(Lower(t), i) >= 4 => Piece(t, i) >= SequenceLength(Lower(t), i)
<1> DEFINE r == m + 1 - i
           R == {Common(t, from, t, i) : from \in 1 .. i - 1}
           K == {Common(Lower(t), i, row, j) : row \in KeyboardRows, j \in 1 .. 10}
           L == {RepeatLength(t, i), SequenceLength(Lower(t), i), KeyboardLength(Lower(t), i)}
<1>1. r \in Nat /\ r >= 1 /\ IsText(Lower(t), m)
  <2>1. IsText(Lower(t), m)
    BY LowerIs
  <2>2. m \in Nat /\ i \in 1 .. m
    BY DEF IsText
  <2> QED BY <2>1, <2>2
<1>2. R \in SUBSET (0 .. r)
  BY RepeatEnds
<1>3. K \in SUBSET (0 .. r)
  BY <1>1, CommonEnds
<1>4. SequenceLength(Lower(t), i) \in 0 .. r
  BY <1>1, SequenceIs
<1>5. RepeatLength(t, i) = Longest(R) /\ KeyboardLength(Lower(t), i) = Longest(K)
  BY DEF RepeatLength, KeyboardLength
<1> HIDE DEF r, R, K
<1>6. RepeatLength(t, i) \in 0 .. r /\ \A x \in R : x <= RepeatLength(t, i)
  <2>1. Longest(R) \in R \cup {0} /\ \A x \in R : x <= Longest(R)
    BY <1>1, <1>2, LongestIs
  <2>2. \A x \in R \cup {0} : x \in 0 .. r
    BY <1>1, <1>2
  <2>3. Longest(R) \in 0 .. r
    BY <2>1, <2>2
  <2> QED BY <1>5, <2>1, <2>3
<1>7. KeyboardLength(Lower(t), i) \in 0 .. r
  <2>1. Longest(K) \in K \cup {0}
    BY <1>1, <1>3, LongestIs
  <2>2. \A x \in K \cup {0} : x \in 0 .. r
    BY <1>1, <1>3
  <2> QED BY <1>5, <2>1, <2>2
<1>8. L \in SUBSET (0 .. r)
  BY <1>4, <1>6, <1>7
<1> DEFINE n == Longest(L)
<1>9. n \in L \cup {0} /\ \A x \in L : x <= n
  <2> HIDE DEF L
  <2> QED BY <1>1, <1>8, LongestIs
<1>10. Piece(t, i) = IF n >= 4 THEN n ELSE 1
  BY DEF Piece, MIN_PIECE_LENGTH
<1>11. n \in 0 .. r
  BY <1>8, <1>9
<1>12. RepeatLength(t, i) <= n /\ SequenceLength(Lower(t), i) <= n
  BY <1>9
<1> HIDE DEF n, L
<1>13. Piece(t, i) \in 1 .. r
  BY <1>1, <1>10, <1>11
<1>14. ASSUME NEW from \in 1 .. i - 1, Common(t, from, t, i) >= 4 PROVE Piece(t, i) >= Common(t, from, t, i)
  <2>1. Common(t, from, t, i) \in R /\ Common(t, from, t, i) \in 0 .. r
    BY <1>2 DEF R
  <2> QED BY <1>1, <1>6, <1>10, <1>11, <1>12, <1>14, <2>1
<1>15. SequenceLength(Lower(t), i) >= 4 => Piece(t, i) >= SequenceLength(Lower(t), i)
  BY <1>1, <1>4, <1>10, <1>11, <1>12
<1> QED BY <1>13, <1>14, <1>15 DEF r

(* A piece is one character, or four and more.                            *)
LEMMA PieceSize ==
  ASSUME NEW t, NEW i
  PROVE  Piece(t, i) = 1 \/ Piece(t, i) >= 4
<1>1. PICK x : Piece(t, i) = IF x >= 4 THEN x ELSE 1
  BY DEF Piece, MIN_PIECE_LENGTH
<1> QED BY <1>1

(* A piece costs what its characters would, and no more than sixteen bits.*)
LEMMA PriceIs ==
  ASSUME NEW p \in Nat, p >= 1, NEW literal \in Nat
  PROVE  /\ Price(p, literal) \in Nat
         /\ p = 1 => Price(p, literal) = literal
         /\ p >= 4 => Price(p, literal) <= 1600
         /\ \A most \in Nat : literal <= most => Price(p, literal) <= most * p
<1> DEFINE x == p * literal
<1>1. x \in Nat /\ (p = 1 => x = literal)
  OBVIOUS
<1>2. Price(p, literal) = IF p = 1 \/ x < 1600 THEN x ELSE 1600
  BY DEF Price, PIECE_BITS
<1>3. ASSUME NEW most \in Nat, literal <= most PROVE x <= most * p /\ most * p \in Nat
  <2>1. literal * p <= most * p
    BY <1>3, TimesGrows
  <2>2. x = literal * p /\ most * p \in Nat
    OBVIOUS
  <2> QED BY <2>1, <2>2
<1> HIDE DEF x
<1>4. ASSUME NEW most \in Nat, literal <= most PROVE Price(p, literal) <= most * p
  <2>1. x <= most * p /\ most * p \in Nat
    BY <1>3, <1>4
  <2> DEFINE y == most * p
  <2>2. x <= y /\ y \in Nat
    BY <2>1
  <2> HIDE DEF y
  <2>3. Price(p, literal) <= y
    BY <1>1, <1>2, <2>2
  <2> QED BY <2>3 DEF y
<1> QED BY <1>1, <1>2, <1>4

(* F holds what the parse costs from every place on.                      *)
IsParse(F, t, m, literal) ==
  /\ F \in [1 .. m + 1 -> Nat] /\ F[m + 1] = 0
  /\ \A i \in 1 .. m : F[i] = Price(Piece(t, i), literal) + F[i + Piece(t, i)]

(* The parse has a cost from every place on, and is paid from the first.  *)
LEMMA StreamIs ==
  ASSUME NEW m, NEW t, IsText(t, m), NEW literal \in Nat
  PROVE  \E F : IsParse(F, t, m, literal) /\ StreamBits(t, literal) = F[1]
<1> DEFINE c == [i \in 1 .. m |-> Price(Piece(t, i), literal)]
           s == [i \in 1 .. m |-> Piece(t, i)]
           Eq(F) == F = [i \in 1 .. m + 1 |-> IF i > m THEN 0 ELSE Price(Piece(t, i), literal) + F[i + Piece(t, i)]]
           from == CHOOSE F : Eq(F)
<1>0. m \in Nat /\ m >= 1 /\ Len(t) = m
  BY DEF IsText
<1>1. \A i \in 1 .. m : Piece(t, i) \in 1 .. m + 1 - i
  BY PieceIs
<1>2. ASSUME NEW i \in 1 .. m PROVE Price(Piece(t, i), literal) \in Nat
  <2> DEFINE p == Piece(t, i)
  <2>1. p \in Nat /\ p >= 1
    BY <1>0, <1>1
  <2> HIDE DEF p
  <2>2. Price(p, literal) \in Nat
    BY <2>1, PriceIs
  <2> QED BY <2>2 DEF p
<1>3. \A i \in 1 .. m : c[i] \in Nat /\ s[i] \in 1 .. m + 1 - i /\ c[i] = Price(Piece(t, i), literal) /\ s[i] = Piece(t, i)
  BY <1>1, <1>2
<1> HIDE DEF c, s
<1>4. PICK g \in [1 .. m + 1 -> Nat] : IsTrail(g, c, s, m, 1)
  BY <1>0, <1>3, TrailExists
<1>5. Eq(g)
  <2>1. g = [i \in 1 .. m + 1 |-> IF i > m THEN 0 ELSE c[i] + g[i + s[i]]]
    BY <1>4 DEF IsTrail
  <2>2. \A i \in 1 .. m + 1 : i > m \/ (c[i] = Price(Piece(t, i), literal) /\ s[i] = Piece(t, i))
    BY <1>0, <1>3
  <2>3. \A i \in 1 .. m + 1 : g[i] = IF i > m THEN 0 ELSE Price(Piece(t, i), literal) + g[i + Piece(t, i)]
    BY <2>1, <2>2
  <2> QED BY <1>4, <2>3
<1>6. Eq(from)
  BY <1>5
<1>7. StreamBits(t, literal) = from[1]
  BY <1>0 DEF StreamBits
<1> DEFINE F == from
<1>8. F = [i \in 1 .. m + 1 |-> IF i > m THEN 0 ELSE Price(Piece(t, i), literal) + F[i + Piece(t, i)]]
  BY <1>6
<1> HIDE DEF from, F
<1>9. DOMAIN F = 1 .. m + 1 /\ F[m + 1] = 0 /\ \A i \in 1 .. m : F[i] = Price(Piece(t, i), literal) + F[i + Piece(t, i)]
  <2>1. \A i \in 1 .. m + 1 : F[i] = IF i > m THEN 0 ELSE Price(Piece(t, i), literal) + F[i + Piece(t, i)]
    BY <1>8
  <2>2. DOMAIN F = 1 .. m + 1
    BY <1>8
  <2>3. m + 1 \in 1 .. m + 1 /\ m + 1 > m /\ \A i \in 1 .. m : i \in 1 .. m + 1 /\ ~(i > m)
    BY <1>0
  <2> QED BY <2>1, <2>2, <2>3
<1> DEFINE Bad == {k \in Nat : k <= m /\ F[m + 1 - k] \notin Nat}
<1>10. Bad = {}
  <2> SUFFICES ASSUME Bad # {} PROVE FALSE
    OBVIOUS
  <2>1. PICK k \in Bad : \A x \in Bad : k <= x
    <3>1. Bad \in SUBSET Nat
      OBVIOUS
    <3> HIDE DEF Bad
    <3> QED BY <3>1, LeastNumber
  <2>2. k \in Nat /\ k <= m /\ F[m + 1 - k] \notin Nat
    BY <2>1
  <2>3. k # 0
    BY <1>0, <1>9, <2>2
  <2> DEFINE i == m + 1 - k
             e == k - Piece(t, i)
  <2>4. i \in 1 .. m /\ F[i] \notin Nat
    BY <1>0, <2>2, <2>3
  <2>5. Piece(t, i) \in 1 .. k
    <3>1. m + 1 - i = k
      BY <1>0, <2>2
    <3> HIDE DEF i
    <3> QED BY <1>1, <2>4, <3>1
  <2>6. e \in Nat /\ e < k /\ m + 1 - e = i + Piece(t, i)
    <3> DEFINE p == Piece(t, i)
    <3>1. p \in 1 .. k
      BY <2>5
    <3> HIDE DEF p
    <3>2. k - p \in Nat /\ k - p < k /\ m + 1 - (k - p) = i + p
      BY <1>0, <2>2, <3>1
    <3> QED BY <3>2 DEF p
  <2>7. F[m + 1 - e] \in Nat
    <3>1. e \notin Bad
      <4> HIDE DEF Bad, e
      <4> QED BY <2>1, <2>2, <2>6
    <3> HIDE DEF e
    <3> QED BY <1>0, <2>2, <2>6, <3>1
  <2> HIDE DEF i, e
  <2> QED BY <1>2, <1>9, <2>4, <2>6, <2>7
<1>11. \A i \in 1 .. m + 1 : F[i] \in Nat
  <2> SUFFICES ASSUME NEW i \in 1 .. m + 1 PROVE F[i] \in Nat
    OBVIOUS
  <2> DEFINE k == m + 1 - i
  <2>1. k \in Nat /\ k <= m /\ m + 1 - k = i
    BY <1>0
  <2>2. k \notin Bad
    <3> HIDE DEF Bad
    <3> QED BY <1>10
  <2> HIDE DEF k
  <2> QED BY <2>1, <2>2
<1>13. F \in [1 .. m + 1 -> Nat]
  <2>1. F = [i \in 1 .. m + 1 |-> F[i]]
    BY <1>8
  <2> QED BY <1>11, <2>1
<1>14. IsParse(F, t, m, literal)
  BY <1>9, <1>13 DEF IsParse
<1> QED BY <1>7, <1>14 DEF F

(* A run without capitals, each character d above the one before.         *)
Rises(t, m, d) == \A i \in 1 .. m - 1 : t[i + 1] - t[i] = d
IsRun(t, m, d) ==
  /\ IsText(t, m) /\ m >= 4 /\ d \in {-2, -1, 1, 2}
  /\ \A i \in 1 .. m : t[i] \notin 65 .. 90
  /\ Rises(t, m, d)

(* A run is one piece, whatever its length.                               *)
LEMMA RunIsCheap ==
  ASSUME NEW m, NEW t, NEW literal \in Nat, NEW d, IsRun(t, m, d)
  PROVE  StreamBits(t, literal) \in Nat /\ StreamBits(t, literal) <= 1600
<1>0. IsText(t, m) /\ m \in Nat /\ m >= 4 /\ 1 \in 1 .. m
  <2>1. IsText(t, m) /\ m >= 4
    BY DEF IsRun
  <2>2. m \in Nat
    BY <2>1 DEF IsText
  <2> QED BY <2>1, <2>2
<1>1. IsText(Lower(t), m) /\ \A i \in 1 .. m : Lower(t)[i] = t[i]
  BY <1>0, LowerIs DEF IsRun
<1> DEFINE n == SequenceLength(Lower(t), 1)
<1>2. n \in 2 .. m /\ ~GoesOn(Lower(t), 1, n)
  <2>1. Lower(t)[1 + 1] - Lower(t)[1] \in {-2, -1, 1, 2} /\ 1 < m
    <3>1. 1 \in 1 .. m - 1 /\ 1 + 1 \in 1 .. m /\ 1 < m
      BY <1>0
    <3>2. t[1 + 1] - t[1] = d /\ d \in {-2, -1, 1, 2}
      BY <3>1 DEF IsRun, Rises
    <3>3. Lower(t)[1 + 1] = t[1 + 1] /\ Lower(t)[1] = t[1]
      BY <1>0, <1>1, <3>1
    <3> QED BY <3>1, <3>2, <3>3
  <2>2. 1 < m /\ Lower(t)[1 + 1] - Lower(t)[1] \in {-2, -1, 1, 2} => n \in 2 .. m /\ ~GoesOn(Lower(t), 1, n)
    <3> DEFINE u == Lower(t)
    <3>1. IsText(u, m) /\ 1 \in 1 .. m
      BY <1>0, <1>1
    <3> HIDE DEF u
    <3>2. 1 < m /\ u[1 + 1] - u[1] \in {-2, -1, 1, 2}
            => SequenceLength(u, 1) \in 2 .. m /\ ~GoesOn(u, 1, SequenceLength(u, 1))
      BY <3>1, SequenceIs
    <3> QED BY <3>2 DEF u
  <2> QED BY <2>1, <2>2
<1>3. ASSUME NEW k \in 2 .. m - 1 PROVE GoesOn(Lower(t), 1, k)
  <2>1. /\ 1 + k <= Len(Lower(t)) /\ 1 + k \in 1 .. m /\ 1 + k - 1 \in 1 .. m - 1 /\ 1 + k - 1 \in 1 .. m
        /\ (1 + k - 1) + 1 = 1 + k /\ 1 \in 1 .. m - 1 /\ 1 + 1 \in 1 .. m
    BY <1>0, <1>1 DEF IsText
  <2>2. t[(1 + k - 1) + 1] - t[1 + k - 1] = d /\ t[1 + 1] - t[1] = d
    BY <2>1 DEF IsRun, Rises
  <2>3. Lower(t)[1 + k] - Lower(t)[1 + k - 1] = Lower(t)[1 + 1] - Lower(t)[1]
    BY <1>0, <1>1, <2>1, <2>2
  <2> QED BY <2>1, <2>3 DEF GoesOn
<1>4. n = m
  <2> HIDE DEF n, GoesOn
  <2> QED BY <1>0, <1>2, <1>3
<1>5. Piece(t, 1) = m
  <2>1. Piece(t, 1) \in 1 .. m + 1 - 1 /\ (n >= 4 => Piece(t, 1) >= n)
    BY <1>0, PieceIs
  <2> HIDE DEF n
  <2> QED BY <1>0, <1>4, <2>1
<1>6. PICK F : IsParse(F, t, m, literal) /\ StreamBits(t, literal) = F[1]
  BY <1>0, StreamIs
<1>7. F[1] = Price(m, literal) + F[m + 1] /\ F[m + 1] = 0
  <2>1. 1 + m = m + 1
    BY <1>0
  <2> QED BY <1>0, <1>5, <1>6, <2>1 DEF IsParse
<1>8. Price(m, literal) \in Nat /\ Price(m, literal) <= 1600
  BY <1>0, PriceIs
<1>9. F[1] = Price(m, literal)
  BY <1>7, <1>8
<1> QED BY <1>6, <1>8, <1>9

(* The price of a literal: from a bit to five.                            *)
LEMMA LiteralIs ==
  ASSUME NEW m, NEW t, IsText(t, m)
  PROVE  /\ Literal(t) \in Nat
         /\ \A b \in 1 .. 13 : \A u \in [1 .. b -> Nat] : Range(t) \subseteq Range(u) => Literal(t) <= 370
<1>0. m \in Nat /\ m >= 1 /\ DOMAIN t = 1 .. m /\ t \in [1 .. m -> Nat]
  BY DEF IsText
<1>1. IsFiniteSet(Range(t)) /\ Range(t) # {}
  <2>1. IsList(t)
    BY <1>0 DEF IsList
  <2>2. t[1] \in Range(t)
    BY <1>0 DEF Range
  <2> QED BY <2>1, <2>2, FiniteRange
<1> DEFINE n == Cardinality(Range(t))
<1>2. n \in Nat /\ n >= 1
  <2>1. n \in Nat
    BY <1>1, FS_CardinalityType
  <2>2. n # 0
    BY <1>1, FS_EmptySet
  <2> QED BY <2>1, <2>2
<1>3. Literal(t) = Log2[IF n > 32 THEN 32 ELSE n]
  BY DEF Literal
<1>4. (\A i \in 1 .. 32 : Log2[i] \in Nat) /\ (\A i \in 1 .. 13 : Log2[i] <= 370)
  BY DEF Log2
<1>5. ASSUME NEW b \in 1 .. 13, NEW u \in [1 .. b -> Nat], Range(t) \subseteq Range(u) PROVE n <= 13
  <2>1. u \in Surjection(1 .. b, Range(u))
    BY DEF Surjection, Range
  <2>2. IsFiniteSet(1 .. b) /\ Cardinality(1 .. b) = b
    <3>1. b \in Int /\ 1 \in Int /\ b >= 1 /\ b - 1 + 1 = b
      OBVIOUS
    <3> QED BY <3>1, FS_Interval
  <2>3. IsFiniteSet(Range(u)) /\ Cardinality(Range(u)) <= Cardinality(1 .. b)
    BY <2>1, <2>2, FS_Surjection
  <2>4. Cardinality(Range(t)) <= Cardinality(Range(u)) /\ Cardinality(Range(u)) \in Nat
    BY <1>5, <2>3, FS_Subset, FS_CardinalityType
  <2> QED BY <1>2, <2>2, <2>3, <2>4
<1> HIDE DEF n
<1> QED BY <1>2, <1>3, <1>4, <1>5

(* Up to four readings that are each one piece.                           *)
Cheap(f, n) == n \in Nat /\ n <= 4 /\ f \in [1 .. n -> Nat] /\ \A x \in 1 .. n : f[x] <= 1600

(* They are too cheap together.                                           *)
LEMMA CheapTogether ==
  ASSUME NEW n, NEW f, Cheap(f, n)
  PROVE  SumFunctionOnSet(f, 1 .. n) < 8000
<1> DEFINE S(k) == SumFunctionOnSet(f, 1 .. k)
           Bad == {k \in Nat : k <= n /\ ~(S(k) \in Nat /\ S(k) <= 1600 * k)}
<1>0. n \in Nat /\ n <= 4
  BY DEF Cheap
<1>1. 0 \notin Bad
  <2>1. S(0) = 0
    <3>1. 1 .. 0 = {}
      OBVIOUS
    <3>2. SumFunctionOnSet(f, {}) = 0
      BY SumUnfolds, FS_EmptySet
    <3> QED BY <3>1, <3>2
  <2> QED BY <2>1
<1>2. ASSUME NEW k \in Nat, k \notin Bad PROVE k + 1 \notin Bad
  <2> SUFFICES ASSUME k + 1 <= n PROVE S(k + 1) \in Nat /\ S(k + 1) <= 1600 * (k + 1)
    OBVIOUS
  <2>1. S(k) \in Nat /\ S(k) <= 1600 * k
    BY <1>0, <1>2
  <2>2. /\ IsFiniteSet(1 .. k + 1) /\ k + 1 \in 1 .. k + 1 /\ \A x \in 1 .. k + 1 : x \in 1 .. n /\ f[x] \in Nat
        /\ 1 .. k + 1 \ {k + 1} = 1 .. k
    <3>1. IsFiniteSet(1 .. k + 1)
      <4>1. k + 1 \in Int /\ 1 \in Int
        OBVIOUS
      <4> QED BY <4>1, FS_Interval
    <3>2. k + 1 \in 1 .. k + 1 /\ \A x \in 1 .. k + 1 : x \in 1 .. n /\ f[x] \in Nat
      BY <1>0 DEF Cheap
    <3>3. 1 .. k + 1 \ {k + 1} = 1 .. k
      OBVIOUS
    <3> QED BY <3>1, <3>2, <3>3
  <2>3. S(k + 1) = f[k + 1] + SumFunctionOnSet(f, 1 .. k + 1 \ {k + 1})
    <3> DEFINE D == 1 .. k + 1
               x == k + 1
    <3>1. IsFiniteSet(D) /\ x \in D /\ \A y \in D : f[y] \in Nat
      BY <2>2
    <3> HIDE DEF D, x
    <3>2. SumFunctionOnSet(f, D) = f[x] + SumFunctionOnSet(f, D \ {x})
      BY <3>1, SumWithout
    <3> QED BY <3>2 DEF D, x
  <2>4. S(k + 1) = f[k + 1] + S(k) /\ f[k + 1] \in Nat /\ f[k + 1] <= 1600
    <3>1. k + 1 \in 1 .. n /\ f[k + 1] \in Nat /\ f[k + 1] <= 1600
      BY <1>0 DEF Cheap
    <3>2. S(k + 1) = f[k + 1] + S(k)
      <4> DEFINE T == 1 .. k + 1 \ {k + 1}
      <4>1. S(k + 1) = f[k + 1] + SumFunctionOnSet(f, T) /\ T = 1 .. k
        BY <2>2, <2>3
      <4> HIDE DEF T
      <4> QED BY <4>1
    <3> QED BY <3>1, <3>2
  <2> HIDE DEF S
  <2> QED BY <2>1, <2>4
<1>3. Bad = {}
  <2>1. Bad \in SUBSET Nat
    OBVIOUS
  <2> HIDE DEF Bad, S
  <2> QED BY <1>1, <1>2, <2>1, NoCounterexample
<1>4. n \notin Bad
  <2> HIDE DEF Bad
  <2> QED BY <1>0, <1>3
<1>5. S(n) \in Nat /\ S(n) <= 1600 * n
  BY <1>0, <1>4
<1> HIDE DEF S, Bad
<1>6. S(n) < 8000
  BY <1>0, <1>5
<1> QED BY <1>6 DEF S

(* Runs, laid out in lanes.                                               *)
InLanes(t, n, lanes, start, step) ==
  /\ n \in Nat \ {0} /\ lanes \in 1 .. 4 /\ start \in [1 .. lanes -> Nat] /\ step \in [1 .. lanes -> {-2, -1, 1, 2}]
  /\ t = [i \in 1 .. n |-> start[((i - 1) % lanes) + 1] + step[((i - 1) % lanes) + 1] * ((i - 1) \div lanes)]
  /\ Range(t) \subseteq Nat \ (65 .. 90)

(* The character k of a lane is the character i of the text.              *)
LaneLength(n, lanes, lane) == (n - lane + lanes) \div lanes
AtPlace(n, lanes, lane, k, i) == i \in 1 .. n /\ ((i - 1) % lanes) + 1 = lane /\ (i - 1) \div lanes = k - 1

(* Thirty-two characters leave every lane eight, each at its place.       *)
LEMMA PlaceInLane ==
  ASSUME NEW n \in Nat, n >= 32, NEW lanes \in 1 .. 4, NEW lane \in 1 .. lanes
  PROVE  /\ LaneLength(n, lanes, lane) \in Nat /\ LaneLength(n, lanes, lane) >= 8
         /\ \A k \in 1 .. LaneLength(n, lanes, lane) : AtPlace(n, lanes, lane, k, lane + (k - 1) * lanes)
<1>1. CASE lanes = 1
  BY <1>1 DEF LaneLength, AtPlace
<1>2. CASE lanes = 2
  BY <1>2 DEF LaneLength, AtPlace
<1>3. CASE lanes = 3
  BY <1>3 DEF LaneLength, AtPlace
<1>4. CASE lanes = 4
  BY <1>4 DEF LaneLength, AtPlace
<1> QED BY <1>1, <1>2, <1>3, <1>4

(* A secret laid out as runs in lanes is refused.                         *)
LEMMA RunsAreWeak ==
  ASSUME NEW t, NEW n, NEW lanes, NEW start, NEW step, InLanes(t, n, lanes, start, step)
  PROVE  Weak(t)
<1>0. n \in Nat /\ n >= 1 /\ lanes \in 1 .. 4
  BY DEF InLanes
<1>1. IsText(t, n) /\ \A i \in 1 .. n : t[i] \notin 65 .. 90
  <2>1. \A i \in 1 .. n : t[i] \in Range(t)
    BY DEF Range, InLanes
  <2>2. \A i \in 1 .. n : t[i] \in Nat /\ t[i] \notin 65 .. 90
    BY <2>1 DEF InLanes
  <2>3. t \in [1 .. n -> Nat]
    BY <2>2 DEF InLanes
  <2> QED BY <1>0, <2>2, <2>3, LengthIs
<1>2. CASE n < 32
  BY <1>1, <1>2 DEF Weak, MIN_SECRET_LENGTH, IsText
<1>3. CASE n >= 32
  <2> DEFINE f == [lane \in 1 .. lanes |-> StreamBits(Lane(t, lanes, lane), Literal(t))]
  <2>1. ASSUME NEW lane \in 1 .. lanes 
        PROVE  StreamBits(Lane(t, lanes, lane), Literal(t)) \in Nat /\ StreamBits(Lane(t, lanes, lane), Literal(t)) <= 1600
    <3> DEFINE u == Lane(t, lanes, lane)
               m == (n - lane + lanes) \div lanes
               d == step[lane]
    <3>1. /\ LaneLength(n, lanes, lane) \in Nat /\ LaneLength(n, lanes, lane) >= 8
          /\ \A k \in 1 .. LaneLength(n, lanes, lane) : AtPlace(n, lanes, lane, k, lane + (k - 1) * lanes)
      BY <1>0, <1>3, PlaceInLane
    <3>2. m \in Nat /\ m >= 8 /\ \A k \in 1 .. m : AtPlace(n, lanes, lane, k, lane + (k - 1) * lanes)
      <4>1. m = LaneLength(n, lanes, lane)
        BY DEF LaneLength
      <4> HIDE DEF m
      <4> QED BY <3>1, <4>1
    <3>3. u = [k \in 1 .. m |-> t[lane + (k - 1) * lanes]]
      BY <1>1 DEF Lane, IsText
    <3> HIDE DEF m, u
    <3>4. ASSUME NEW k \in 1 .. m
          PROVE  u[k] \in Nat /\ u[k] \notin 65 .. 90 /\ u[k] = start[lane] + d * (k - 1)
      <4> DEFINE i == lane + (k - 1) * lanes
      <4>1. i \in 1 .. n /\ ((i - 1) % lanes) + 1 = lane /\ (i - 1) \div lanes = k - 1
        <5>1. AtPlace(n, lanes, lane, k, i)
          BY <3>2
        <5> HIDE DEF i
        <5> QED BY <5>1 DEF AtPlace
      <4>2. u[k] = t[i]
        BY <3>3
      <4> HIDE DEF i
      <4>3. t[i] = start[((i - 1) % lanes) + 1] + step[((i - 1) % lanes) + 1] * ((i - 1) \div lanes)
        BY <4>1 DEF InLanes
      <4>4. t[i] = start[lane] + d * (k - 1)
        BY <4>1, <4>3
      <4>5. t[i] \in Nat /\ t[i] \notin 65 .. 90
        BY <1>1, <4>1 DEF IsText
      <4> QED BY <4>2, <4>4, <4>5
    <3>6. d \in {-2, -1, 1, 2} /\ start[lane] \in Nat
      BY DEF InLanes
    <3> HIDE DEF d
    <3>7. ASSUME NEW k \in 1 .. m - 1 PROVE u[k + 1] - u[k] = d
      <4>1. k \in 1 .. m /\ k + 1 \in 1 .. m /\ (k + 1) - 1 = k
        BY <3>2
      <4>2. u[k] = start[lane] + d * (k - 1) /\ u[k + 1] = start[lane] + d * k
        BY <3>4, <4>1
      <4>3. d * k = d * (k - 1) + d /\ d * k \in Int /\ d * (k - 1) \in Int /\ d \in Int
        BY <3>2, <3>6
      <4> QED BY <3>6, <4>2, <4>3
    <3>8. IsText(u, m) /\ m >= 4
      <4>1. u \in [1 .. m -> Nat]
        BY <3>3, <3>4
      <4>2. m \in Nat /\ m >= 1
        BY <3>2
      <4>3. IsText(u, m)
        BY <4>1, <4>2, LengthIs
      <4> QED BY <3>2, <4>3
    <3>9. Literal(t) \in Nat
      BY <1>1, LiteralIs
    <3>10. IsRun(u, m, d)
      BY <3>4, <3>6, <3>7, <3>8 DEF IsRun, Rises
    <3>11. StreamBits(u, Literal(t)) \in Nat /\ StreamBits(u, Literal(t)) <= 1600
      BY <3>9, <3>10, RunIsCheap
    <3> QED BY <3>11 DEF u
  <2>2. f \in [1 .. lanes -> Nat] /\ \A x \in 1 .. lanes : f[x] <= 1600
    BY <2>1
  <2>3. Reading(t, lanes) = SumFunctionOnSet(f, 1 .. lanes)
    BY DEF Reading
  <2> HIDE DEF f
  <2>4. Reading(t, lanes) < 8000
    <3>0. Cheap(f, lanes)
      BY <1>0, <2>2 DEF Cheap
    <3>1. SumFunctionOnSet(f, 1 .. lanes) < 8000
      BY <3>0, CheapTogether
    <3> QED BY <2>3, <3>1
  <2>5. \E x \in 1 .. 4 : Reading(t, x) < 8000
    BY <1>0, <2>4
  <2> HIDE DEF f
  <2> QED BY <2>5 DEF Weak, MIN_ENTROPY_BITS, MAX_LANES
<1> QED BY <1>0, <1>2, <1>3

(* A block of b characters, over and over.                                *)
InBlocks(t, n, b, u) ==
  n \in Nat /\ n >= 1 /\ b \in 1 .. 13 /\ u \in [1 .. b -> Nat] /\ t = [i \in 1 .. n |-> u[((i - 1) % b) + 1]]

(* One block back is the same place of the block.                         *)
LEMMA OneBlockBack ==
  ASSUME NEW b \in 1 .. 13, NEW x \in Nat
  PROVE  (x + b) % b = x % b /\ (x % b) + 1 \in 1 .. b
<1>1. (x % b) + 1 \in 1 .. b
  OBVIOUS
<1>2. (x + b) % b = x % b
  <2>1. CASE b = 1
    BY <2>1
  <2>2. CASE b = 2
    BY <2>2
  <2>3. CASE b = 3
    BY <2>3
  <2>4. CASE b = 4
    BY <2>4
  <2>5. CASE b = 5
    BY <2>5
  <2>6. CASE b = 6
    BY <2>6
  <2>7. CASE b = 7
    BY <2>7
  <2>8. CASE b = 8
    BY <2>8
  <2>9. CASE b = 9
    BY <2>9
  <2>10. CASE b = 10
    BY <2>10
  <2>11. CASE b = 11
    BY <2>11
  <2>12. CASE b = 12
    BY <2>12
  <2>13. CASE b = 13
    BY <2>13
  <2> QED BY <2>1, <2>2, <2>3, <2>4, <2>5, <2>6, <2>7, <2>8, <2>9, <2>10, <2>11, <2>12, <2>13
<1> QED BY <1>1, <1>2

(* The text, its alphabet, and how it repeats itself.                     *)
LEMMA BlockRepeats ==
  ASSUME NEW t, NEW n, NEW b, NEW u, InBlocks(t, n, b, u)
  PROVE  /\ IsText(t, n) /\ Literal(t) \in Nat /\ Literal(t) <= 370
         /\ \A i \in 1 .. n : i > 13 => t[i - b] = t[i]
<1>0. n \in Nat /\ n >= 1 /\ b \in 1 .. 13 /\ u \in [1 .. b -> Nat]
  BY DEF InBlocks
<1>1. ASSUME NEW i \in 1 .. n PROVE t[i] = u[((i - 1) % b) + 1] /\ ((i - 1) % b) + 1 \in 1 .. b
  <2>1. i - 1 \in Nat
    OBVIOUS
  <2>2. ((i - 1) % b) + 1 \in 1 .. b
    BY <1>0, <2>1, OneBlockBack
  <2> QED BY <2>2 DEF InBlocks
<1>2. DOMAIN t = 1 .. n /\ t = [i \in 1 .. n |-> t[i]]
  BY DEF InBlocks
<1>3. \A i \in 1 .. n : t[i] \in Range(u)
  BY <1>0, <1>1 DEF Range
<1>4. IsText(t, n)
  <2>1. \A x \in Range(u) : x \in Nat
    BY <1>0 DEF Range
  <2>2. t \in [1 .. n -> Nat]
    BY <1>2, <1>3, <2>1
  <2> QED BY <1>0, <2>2, LengthIs
<1>5. Range(t) \subseteq Range(u)
  <2>1. \A x \in Range(t) : \E i \in 1 .. n : x = t[i]
    BY <1>2 DEF Range
  <2> QED BY <1>3, <2>1
<1>6. Literal(t) \in Nat /\ Literal(t) <= 370
  BY <1>0, <1>4, <1>5, LiteralIs
<1>7. ASSUME NEW i \in 1 .. n, i > 13 PROVE t[i - b] = t[i]
  <2> DEFINE x == i - b - 1
  <2>1. x \in Nat /\ i - b \in 1 .. n /\ (i - b) - 1 = x /\ i - 1 = x + b
    BY <1>0, <1>7
  <2>2. (x + b) % b = x % b
    BY <1>0, <2>1, OneBlockBack
  <2>3. t[i - b] = u[(((i - b) - 1) % b) + 1] /\ t[i] = u[((i - 1) % b) + 1]
    BY <1>1, <2>1
  <2> HIDE DEF x
  <2> QED BY <2>1, <2>2, <2>3
<1> QED BY <1>4, <1>6, <1>7

(* From the fourteenth character on the rest is one piece.                *)
LEMMA RestIsOnePiece ==
  ASSUME NEW t, NEW n, NEW b, NEW u, InBlocks(t, n, b, u), NEW i \in 14 .. n, n + 1 - i >= 4
  PROVE  Piece(t, i) = n + 1 - i
<1>0. n \in Nat /\ n >= 1 /\ b \in 1 .. 13
  BY DEF InBlocks
<1>1. IsText(t, n) /\ Len(t) = n /\ \A j \in 1 .. n : j > 13 => t[j - b] = t[j]
  <2>1. IsText(t, n) /\ \A j \in 1 .. n : j > 13 => t[j - b] = t[j]
    BY BlockRepeats
  <2> QED BY <2>1 DEF IsText
<1> DEFINE from == i - b
           c == Common(t, from, t, i)
<1>2. from \in Nat /\ from >= 1 /\ from \in 1 .. i - 1 /\ i \in 1 .. n
  BY <1>0
<1>3. c \in 0 .. n /\ ~Agree(t, from, t, i, c)
  <2> HIDE DEF from
  <2> QED BY <1>1, <1>2, CommonIs
<1>4. c >= n + 1 - i
  <2> SUFFICES ASSUME i + c <= n PROVE FALSE
    BY <1>0, <1>2, <1>3
  <2>1. i + c \in 1 .. n /\ i + c > 13 /\ (i + c) - b = from + c /\ from + c <= n
    BY <1>0, <1>2, <1>3
  <2>2. t[from + c] = t[i + c]
    BY <1>1, <2>1
  <2> QED BY <1>1, <1>3, <2>1, <2>2 DEF Agree
<1>5. Piece(t, i) \in 1 .. n + 1 - i /\ (c >= 4 => Piece(t, i) >= c)
  <2>1. IsText(t, n) /\ i \in 1 .. n /\ from \in 1 .. i - 1
    BY <1>1, <1>2
  <2> HIDE DEF from
  <2> QED BY <2>1, PieceIs
<1> HIDE DEF c, from
<1> QED BY <1>0, <1>3, <1>4, <1>5

(* So the parse pays for one piece at most from there.                    *)
LEMMA RestIsCheap ==
  ASSUME NEW t, NEW n, NEW b, NEW u, InBlocks(t, n, b, u), n >= 32, NEW F, IsParse(F, t, n, Literal(t)),
         NEW i \in 14 .. n + 1
  PROVE  F[i] \in Nat /\ F[i] <= 1600
<1>0. n \in Nat /\ IsText(t, n) /\ Literal(t) \in Nat /\ Literal(t) <= 370
  BY BlockRepeats DEF InBlocks
<1>1. /\ F[n + 1] = 0 /\ \A j \in 1 .. n + 1 : F[j] \in Nat
      /\ \A j \in 1 .. n : F[j] = Price(Piece(t, j), Literal(t)) + F[j + Piece(t, j)]
  BY DEF IsParse
<1>2. CASE n + 1 - i >= 4
  <2>1. i \in 14 .. n /\ i \in 1 .. n
    BY <1>0, <1>2
  <2>2. Piece(t, i) = n + 1 - i
    BY <1>2, <2>1, RestIsOnePiece
  <2> DEFINE p == Piece(t, i)
  <2>3. p \in Nat /\ p >= 4 /\ i + p = n + 1
    BY <1>0, <1>2, <2>1, <2>2
  <2>4. F[i] = Price(p, Literal(t)) + F[i + p]
    BY <1>1, <2>1
  <2> HIDE DEF p
  <2>5. Price(p, Literal(t)) \in Nat /\ Price(p, Literal(t)) <= 1600
    BY <1>0, <2>3, PriceIs
  <2>6. F[i] = Price(p, Literal(t)) + 0
    BY <1>1, <2>3, <2>4
  <2> QED BY <2>5, <2>6
<1>3. ASSUME NEW j \in 14 .. n, n + 1 - j < 4 PROVE F[j] = Literal(t) + F[j + 1]
  <2>1. j \in 1 .. n /\ Piece(t, j) \in 1 .. n + 1 - j
    <3>1. j \in 1 .. n
      BY <1>0
    <3> QED BY <1>0, <3>1, PieceIs
  <2>2. Piece(t, j) = 1
    <3>1. Piece(t, j) = 1 \/ Piece(t, j) >= 4
      BY PieceSize
    <3>2. ~(Piece(t, j) >= 4)
      BY <1>0, <1>3, <2>1
    <3> QED BY <3>1, <3>2
  <2>3. Price(1, Literal(t)) = Literal(t)
    BY <1>0, PriceIs
  <2> QED BY <1>1, <2>1, <2>2, <2>3
<1>4. CASE n + 1 - i < 4
  <2>1. n \in 14 .. n /\ n - 1 \in 14 .. n /\ n - 2 \in 14 .. n /\ n + 1 - n < 4 /\ n + 1 - (n - 1) < 4 /\ n + 1 - (n - 2) < 4
    BY <1>0
  <2> DEFINE a == Literal(t)
  <2>2. F[n] = a + F[n + 1] /\ F[n - 1] = a + F[(n - 1) + 1] /\ F[n - 2] = a + F[(n - 2) + 1]
    BY <1>3, <2>1
  <2>3. (n - 1) + 1 = n /\ (n - 2) + 1 = n - 1 /\ (i = n + 1 \/ i = n \/ i = n - 1 \/ i = n - 2)
    BY <1>0, <1>4
  <2>4. a \in Nat /\ a <= 370 /\ F[n + 1] = 0
    BY <1>0, <1>1
  <2> HIDE DEF a
  <2>5. F[n] = a /\ F[n - 1] = a + a /\ F[n - 2] = a + (a + a)
    BY <2>2, <2>3, <2>4
  <2> QED BY <2>3, <2>4, <2>5
<1> QED BY <1>0, <1>2, <1>4

(* A secret that repeats a block is refused.                              *)
LEMMA BlocksAreWeak ==
  ASSUME NEW t, NEW n, NEW b, NEW u, InBlocks(t, n, b, u)
  PROVE  Weak(t)
<1>0. n \in Nat /\ n >= 1 /\ IsText(t, n) /\ Len(t) = n /\ Literal(t) \in Nat /\ Literal(t) <= 370
  <2>1. IsText(t, n) /\ Literal(t) \in Nat /\ Literal(t) <= 370
    BY BlockRepeats
  <2> QED BY <2>1 DEF InBlocks, IsText
<1>1. CASE n < 32
  BY <1>0, <1>1 DEF Weak, MIN_SECRET_LENGTH
<1>2. CASE n >= 32
  <2>1. PICK F : IsParse(F, t, n, Literal(t)) /\ StreamBits(t, Literal(t)) = F[1]
    BY <1>0, StreamIs
  <2>2. \A i \in 1 .. n : F[i] \in Nat /\ F[i] = Price(Piece(t, i), Literal(t)) + F[i + Piece(t, i)]
    BY <1>0, <2>1 DEF IsParse
  <2>3. \A i \in 14 .. n + 1 : F[i] \in Nat /\ F[i] <= 1600
    BY <1>2, <2>1, RestIsCheap
  <2> DEFINE Bad == {k \in Nat : k <= 12 /\ F[13 - k] > 370 * k + 3200}
  <2>4. Bad = {}
    <3> SUFFICES ASSUME Bad # {} PROVE FALSE
      OBVIOUS
    <3>1. PICK k \in Bad : \A x \in Bad : k <= x
      <4>1. Bad \in SUBSET Nat
        OBVIOUS
      <4> HIDE DEF Bad
      <4> QED BY <4>1, LeastNumber
    <3>2. k \in Nat /\ k <= 12 /\ F[13 - k] > 370 * k + 3200
      BY <3>1
    <3> DEFINE i == 13 - k
               p == Piece(t, i)
               e == k - p
               c == Price(p, Literal(t))
    <3>3. i \in 1 .. n /\ 13 - k = i /\ i \in 1 .. 13
      BY <1>0, <1>2, <3>2
    <3>4. p \in 1 .. n + 1 - i
      <4> HIDE DEF i
      <4>1. IsText(t, n) /\ i \in 1 .. n
        BY <1>0, <3>3
      <4> QED BY <4>1, PieceIs
    <3>5. F[i] = c + F[i + p]
      <4> HIDE DEF i
      <4> QED BY <2>2, <3>3
    <3>6. p \in Nat /\ p >= 1 /\ i + p \in 1 .. n + 1 /\ (p = 1 \/ p >= 4)
      <4>1. p = 1 \/ p >= 4
        BY PieceSize
      <4> HIDE DEF i, p
      <4> QED BY <1>0, <3>3, <3>4, <4>1
    <3> HIDE DEF p
    <3>7. c \in Nat /\ (p >= 4 => c <= 1600) /\ c <= 370 * p
      <4> DEFINE a == Literal(t)
      <4>1. p \in Nat /\ p >= 1 /\ a \in Nat /\ a <= 370
        BY <1>0, <3>6
      <4> HIDE DEF a, Bad, i
      <4>2. Price(p, a) \in Nat /\ (p >= 4 => Price(p, a) <= 1600)
        BY <4>1, PriceIs
      <4>3. Price(p, a) <= 370 * p
        BY <4>1, PriceIs
      <4> QED BY <4>2, <4>3 DEF a
    <3> HIDE DEF c
    <3>8. CASE i + p >= 14
      <4>1. i + p \in 14 .. n + 1
        BY <1>0, <3>3, <3>6, <3>8
      <4>2. F[i + p] \in Nat /\ F[i + p] <= 1600
        BY <2>3, <4>1
      <4>3. p >= 4 \/ p = k + 1
        BY <3>2, <3>3, <3>6, <3>8
      <4> QED BY <3>2, <3>3, <3>5, <3>6, <3>7, <4>2, <4>3
    <3>9. CASE i + p < 14
      <4>1. e \in Nat /\ e < k /\ 13 - e = i + p /\ e <= 12
        BY <3>2, <3>3, <3>6, <3>9
      <4>2. F[i + p] \in Nat
        BY <1>0, <1>2, <2>2, <3>6, <3>9
      <4>3. e \notin Bad
        <5> HIDE DEF Bad, e
        <5> QED BY <3>1, <3>2, <4>1
      <4>4. F[i + p] <= 370 * e + 3200
        <5>1. ~(F[13 - e] > 370 * e + 3200)
          BY <4>1, <4>3
        <5> HIDE DEF e, Bad
        <5> QED BY <4>1, <4>2, <5>1
      <4> QED BY <3>2, <3>3, <3>5, <3>6, <3>7, <4>1, <4>2, <4>4
    <3> QED BY <3>3, <3>6, <3>8, <3>9
  <2>5. 12 \notin Bad
    <3> HIDE DEF Bad
    <3> QED BY <2>4
  <2>6. F[1] \in Nat /\ F[1] <= 7640
    BY <1>0, <2>2, <2>5
  <2>7. Reading(t, 1) = F[1]
    <3> DEFINE f == [lane \in 1 .. 1 |-> StreamBits(Lane(t, 1, lane), Literal(t))]
    <3>1. Lane(t, 1, 1) = t
      <4>1. Lane(t, 1, 1) = [k \in 1 .. (n - 1 + 1) \div 1 |-> t[1 + (k - 1) * 1]]
        BY <1>0 DEF Lane
      <4>2. (n - 1 + 1) \div 1 = n /\ \A k \in 1 .. n : 1 + (k - 1) * 1 = k
        BY <1>0
      <4>3. t = [k \in 1 .. n |-> t[k]]
        BY <1>0 DEF IsText
      <4> QED BY <4>1, <4>2, <4>3
    <3>2. f[1] = F[1] /\ 1 \in 1 .. 1
      BY <2>1, <3>1
    <3>3. Reading(t, 1) = SumFunctionOnSet(f, 1 .. 1)
      BY DEF Reading
    <3>4. SumFunctionOnSet(f, 1 .. 1) = F[1]
      <4> HIDE DEF f
      <4>1. IsFiniteSet(1 .. 1) /\ 1 .. 1 \ {1} = {} /\ \A x \in 1 .. 1 : f[x] \in Nat
        <5>1. 1 \in Int
          OBVIOUS
        <5>2. IsFiniteSet(1 .. 1)
          BY <5>1, FS_Interval
        <5> QED BY <2>6, <3>2, <5>2
      <4>2. SumFunctionOnSet(f, 1 .. 1) = f[1] + SumFunctionOnSet(f, 1 .. 1 \ {1})
        BY <3>2, <4>1, SumWithout
      <4>3. SumFunctionOnSet(f, {}) = 0
        BY SumUnfolds, FS_EmptySet
      <4> QED BY <2>6, <3>2, <4>1, <4>2, <4>3
    <3> QED BY <3>3, <3>4
  <2>8. 1 \in 1 .. 4 /\ Reading(t, 1) < 8000
    BY <2>6, <2>7
  <2> QED BY <2>8 DEF Weak, MIN_ENTROPY_BITS, MAX_LANES
<1> QED BY <1>0, <1>1, <1>2

(* The rows of a keyboard are short blocks.                               *)
LEMMA RowsAreBlocks ==
  ASSUME NEW row \in KeyboardRows
  PROVE  \E b \in 1 .. 13 : row \in [1 .. b -> Nat]
<1>1. ASSUME NEW r \in LetterRows PROVE \E b \in 1 .. 13 : r \in [1 .. b -> Nat]
  <2>1. CASE r = <<113, 119, 101, 114, 116, 121, 117, 105, 111, 112>>
    <3>1. r \in [1 .. 10 -> Nat]
      BY <2>1
    <3> QED BY <3>1
  <2>2. CASE r = <<97, 115, 100, 102, 103, 104, 106, 107, 108>>
    <3>1. r \in [1 .. 9 -> Nat]
      BY <2>2
    <3> QED BY <3>1
  <2>3. CASE r = <<122, 120, 99, 118, 98, 110, 109>>
    <3>1. r \in [1 .. 7 -> Nat]
      BY <2>3
    <3> QED BY <3>1
  <2>4. CASE r = <<49, 50, 51, 52, 53, 54, 55, 56, 57, 48>>
    <3>1. r \in [1 .. 10 -> Nat]
      BY <2>4
    <3> QED BY <3>1
  <2> QED BY <2>1, <2>2, <2>3, <2>4 DEF LetterRows
<1>2. ASSUME NEW r \in LetterRows, row = Reverse(r) PROVE \E b \in 1 .. 13 : row \in [1 .. b -> Nat]
  <2>1. PICK b \in 1 .. 13 : r \in [1 .. b -> Nat]
    BY <1>1
  <2>2. Len(r) = b
    <3>1. b \in Nat
      OBVIOUS
    <3> QED BY <2>1, <3>1, LengthIs
  <2>3. row = [i \in 1 .. b |-> r[(b - i) + 1]]
    BY <1>2, <2>2 DEF Reverse
  <2>4. row \in [1 .. b -> Nat]
    BY <2>1, <2>3
  <2> QED BY <2>4
<1> QED BY <1>1, <1>2 DEF KeyboardRows

(* Nothing is laid out twice, so one step is all there is.                *)
THEOREM PatternsAreAlwaysRefused == SecretSpec => []PatternsAreRefused
<1>1. SecretInit => PatternsAreRefused
  BY DEF SecretInit, PatternsAreRefused
<1>2. PatternsAreRefused /\ [SecretNext]_secretVars => PatternsAreRefused'
  <2> SUFFICES ASSUME PatternsAreRefused, [SecretNext]_secretVars PROVE PatternsAreRefused'
    OBVIOUS
  <2>0. \A x \in Ascii : x \in Nat
    BY DEF Ascii
  <2> USE SecretAssumption
  <2>1. CASE GenerateSecretToken
    <3>1. laidOut' = "drawn" /\ ~Weak(secret')
      BY <2>1 DEF GenerateSecretToken
    <3> QED BY <3>1 DEF PatternsAreRefused
  <2>2. CASE ChooseRuns
    <3>1. laidOut' = "runs" /\ Range(secret') \subseteq Nat \ (65 .. 90)
      <4>1. laidOut' = "runs" /\ Range(secret') \subseteq Ascii \ (65 .. 90)
        BY <2>2 DEF ChooseRuns
      <4> QED BY <2>0, <4>1
    <3>2. PICK n \in Lengths, lanes \in 1 .. 4 :
            \E start \in [1 .. lanes -> Starts], step \in [1 .. lanes -> Steps] :
            secret' = [i \in 1 .. n |-> start[((i - 1) % lanes) + 1]
                                        + step[((i - 1) % lanes) + 1] * ((i - 1) \div lanes)]
      BY <2>2 DEF ChooseRuns, MAX_LANES
    <3>5. PICK start \in [1 .. lanes -> Starts], step \in [1 .. lanes -> Steps] :
            secret' = [i \in 1 .. n |-> start[((i - 1) % lanes) + 1]
                                        + step[((i - 1) % lanes) + 1] * ((i - 1) \div lanes)]
      BY <3>2
    <3>3. InLanes(secret', n, lanes, start, step)
      <4>1. /\ n \in Nat \ {0} /\ lanes \in 1 .. 4
            /\ start \in [1 .. lanes -> Nat] /\ step \in [1 .. lanes -> {-2, -1, 1, 2}]
        <5>1. Lengths \subseteq Nat \ {0} /\ Starts \subseteq Nat /\ Steps \subseteq {-2, -1, 1, 2}
          BY <2>0, SecretAssumption DEF SecretAssumption
        <5> QED BY <5>1
      <4> QED BY <3>1, <3>5, <4>1 DEF InLanes
    <3>4. Weak(secret')
      BY <3>3, RunsAreWeak
    <3> QED BY <3>1, <3>4 DEF PatternsAreRefused
  <2>3. CASE ChooseBlock
    <3>1. laidOut' = "blocks"
      BY <2>3 DEF ChooseBlock
    <3>2. PICK n \in Lengths, block \in Blocks \cup KeyboardRows :
            secret' = [i \in 1 .. n |-> block[((i - 1) % Len(block)) + 1]]
      BY <2>3 DEF ChooseBlock
    <3>3. PICK b \in 1 .. 13 : block \in [1 .. b -> Nat]
      <4>1. \A row \in Blocks : \E b \in 1 .. 13 : row \in [1 .. b -> Nat]
        BY <2>0 DEF SecretAssumption
      <4> QED BY <4>1, RowsAreBlocks
    <3>4. Len(block) = b /\ b \in Nat
      <4>1. b \in Nat
        OBVIOUS
      <4> QED BY <3>3, <4>1, LengthIs
    <3>5. n \in Nat /\ n >= 1
      BY DEF SecretAssumption
    <3>6. InBlocks(secret', n, b, block)
      BY <3>2, <3>3, <3>4, <3>5 DEF InBlocks
    <3>7. Weak(secret')
      BY <3>6, BlocksAreWeak
    <3> QED BY <3>1, <3>7 DEF PatternsAreRefused
  <2>4. CASE UNCHANGED secretVars
    BY <2>4 DEF PatternsAreRefused, secretVars
  <2> QED BY <2>1, <2>2, <2>3, <2>4 DEF SecretNext
<1> QED BY <1>1, <1>2, PTL DEF SecretSpec
=============================================================================
