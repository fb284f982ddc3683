---------------------------- MODULE AtomicStore ----------------------------
(***************************************************************************)
(* What the OperationStore interface promises its callers (sdk types.ts    *)
(* and ADR 0004): every call takes effect at one instant between its start *)
(* and its end, or not at all.  A call that rejects may or may not have    *)
(* taken effect, at most once; a call whose process died as well.          *)
(***************************************************************************)
CONSTANTS
  Calls, Keys, Values, Absent,
  Stale,   \* records past their retention, a subset of Values
  Files    \* what the store may hold at first

VARIABLES
  mem,     \* mem[k]: the record under key k, or Absent
  req,     \* req[c]: what call c asks for
  phase,   \* phase[c]: where call c is
  answer   \* answer[c]: what call c returns

avars == <<mem, req, phase, answer>>

(* get, put, compareAndPut and the operator's remove. *)
Kinds   == {"get", "put", "cas", "remove"}
Request == [kind : Kinds, key : Keys, expect : Values \union {Absent}, value : Values]

(* Whether a request changes the record it finds. *)
Writes(r, found) ==
  \/ r.kind = "put"
  \/ r.kind = "cas" /\ found = r.expect
  \/ r.kind = "remove" /\ found # Absent

(* The store after a request: what it writes also drops the stale records of other keys. *)
Updated(r, m) ==
  IF ~Writes(r, m[r.key])
    THEN m
    ELSE [k \in Keys |-> IF k = r.key THEN (IF r.kind = "remove" THEN Absent ELSE r.value)
                         ELSE IF m[k] \in Stale THEN Absent ELSE m[k]]

(* What a call answers: the record for get, whether it wrote for the others. *)
Reply(r, found) == IF r.kind = "get" THEN found ELSE IF Writes(r, found) THEN "true" ELSE "false"

-----------------------------------------------------------------------------
AInit ==
  /\ mem \in Files
  /\ req \in [Calls -> Request]
  /\ phase = [c \in Calls |-> "idle"]
  /\ answer = [c \in Calls |-> "none"]

Begin(c) ==
  /\ phase[c] = "idle"
  /\ phase' = [phase EXCEPT ![c] = "open"]
  /\ UNCHANGED <<mem, req, answer>>

Apply(c) ==
  /\ phase[c] = "open"
  /\ mem' = Updated(req[c], mem)
  /\ phase' = [phase EXCEPT ![c] = "applied"]
  /\ answer' = [answer EXCEPT ![c] = Reply(req[c], mem[req[c].key])]
  /\ UNCHANGED req

Return(c) ==
  /\ phase[c] = "applied"
  /\ phase' = [phase EXCEPT ![c] = "done"]
  /\ UNCHANGED <<mem, req, answer>>

Reject(c) ==
  /\ phase[c] \in {"open", "applied"}
  /\ phase' = [phase EXCEPT ![c] = "done"]
  /\ answer' = [answer EXCEPT ![c] = "error"]
  /\ UNCHANGED <<mem, req>>

(* A process dies with all its calls; nobody hears their answers. *)
Die(lost) ==
  /\ phase' = [c \in Calls |-> IF c \in lost THEN "gone" ELSE phase[c]]
  /\ answer' = [c \in Calls |-> IF c \in lost THEN "none" ELSE answer[c]]
  /\ UNCHANGED <<mem, req>>

ANext ==
  \/ \E c \in Calls : Begin(c) \/ Apply(c) \/ Return(c) \/ Reject(c)
  \/ \E lost \in SUBSET Calls : Die(lost)

ASpec == AInit /\ [][ANext]_avars
=============================================================================
