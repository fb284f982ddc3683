---------------------------- MODULE PreviewStore ----------------------------
(***************************************************************************)
(* InMemoryPreviewStore of mcp-server/src/preview-store/index.ts behind    *)
(* the views of bindPreviewStoreToSession: single-use previews with an     *)
(* expiry, kept as tombstones after their end, and dropped when the store  *)
(* or a session holds too many.                                            *)
(*                                                                         *)
(* A preview id is random and never reused, so ids are numbered in the     *)
(* order of their `put`: the smaller id is the older entry of the Map.     *)
(***************************************************************************)
EXTENDS Integers, FiniteSets

CONSTANTS
  McpSessions,           \* MCP sessions sharing the store
  Nobody,                \* no session
  MaxMinted,             \* bound on the number of previews
  maxEntries, maxEntriesPerSession,
  previewTtl,            \* previewTtlSeconds, in ticks
  retentionMs,           \* tombstoneRetentionMs, in ticks
  SWEEP_INTERVAL_MS,     \* in ticks
  LastTick               \* bound on the clock

ASSUME PreviewAssumption ==
  /\ McpSessions # {} /\ Nobody \notin McpSessions /\ MaxMinted \in Nat /\ LastTick \in Nat
  /\ maxEntries \in Nat \ {0} /\ maxEntriesPerSession \in Nat \ {0}
  /\ previewTtl \in Nat /\ retentionMs \in Nat /\ SWEEP_INTERVAL_MS \in Nat

VARIABLES
  clock,        \* the injected clock
  entries,      \* the stored entries
  lastSweepAt,
  minted,       \* number of previews put so far
  owner,        \* history: the session and the expiry of each preview
  uses,         \* history: how often each preview was consumed
  reply         \* history: the last answer

previewVars == <<clock, entries, lastSweepAt, minted, owner, uses, reply>>

PreviewIds == 1 .. MaxMinted
PreviewEntry == [id : PreviewIds, sessionId : McpSessions, expiresAt : Nat, consumed : BOOLEAN, consumedAt : Nat]
NoReply == [to |-> Nobody, id |-> 0, status |-> "none"]

PreviewInit ==
  /\ clock = 0
  /\ entries = {}
  /\ lastSweepAt = -SWEEP_INTERVAL_MS
  /\ minted = 0
  /\ owner = [i \in PreviewIds |-> Nobody]
  /\ uses = [i \in PreviewIds |-> 0]
  /\ reply = NoReply

-----------------------------------------------------------------------------
isExpired(e) == clock > e.expiresAt
isDead(e)    == e.consumed \/ isExpired(e)
Of(s, set)   == {e \in set : e.sessionId = s}
Oldest(set)  == CHOOSE e \in set : \A f \in set : e.id <= f.id

goneAt(e) == IF e.consumed THEN e.consumedAt ELSE e.expiresAt

Due == clock - lastSweepAt >= SWEEP_INTERVAL_MS

(* sweepIfDue: what every operation starts from. *)
Swept == IF Due THEN {e \in entries : clock - goneAt(e) <= retentionMs} ELSE entries
SweepIfDue == lastSweepAt' = IF Due THEN clock ELSE lastSweepAt

(* evictOne: the oldest dead entry of the set, else its oldest entry. *)
Victim(set) == LET dead == {e \in set : isDead(e)}
               IN IF dead # {} THEN Oldest(dead) ELSE Oldest(set)

(* Mutant: the session of the oldest entry pays, whatever it holds. *)
HeaviestOldest(set) == Oldest(set).sessionId

(* heaviestSession: of the oldest dead entry when there is one; otherwise  *)
(* the session that holds most, on a tie the one with the oldest entry.    *)
Heaviest(set) ==
  LET dead    == {e \in set : isDead(e)}
      heavy   == {e \in set : \A f \in set :
                    Cardinality(Of(e.sessionId, set)) >= Cardinality(Of(f.sessionId, set))}
  IN IF dead # {} THEN Oldest(dead).sessionId ELSE Oldest(heavy).sessionId

(* enforceCaps: a put adds one entry, so each of its loops evicts at most  *)
(* once.                                                                   *)
WithinSession(s, set) ==
  IF Cardinality(Of(s, set)) > maxEntriesPerSession THEN set \ {Victim(Of(s, set))} ELSE set

WithinTotal(set) ==
  IF Cardinality(set) > maxEntries THEN set \ {Victim(Of(Heaviest(set), set))} ELSE set

-----------------------------------------------------------------------------
Reply(s, i, status) == reply' = [to |-> s, id |-> i, status |-> status]

(* A preview tool stores its plan under a fresh id. *)
Put(s) ==
  LET new == [id |-> minted + 1, sessionId |-> s, expiresAt |-> clock + previewTtl,
              consumed |-> FALSE, consumedAt |-> 0]
  IN /\ minted < MaxMinted
     /\ minted' = minted + 1
     /\ entries' = WithinTotal(WithinSession(s, Swept \cup {new}))
     /\ owner' = [owner EXCEPT ![new.id] = s]
     /\ Reply(s, new.id, "stored")
     /\ SweepIfDue
     /\ UNCHANGED <<clock, uses>>

(* get: never consumes; anything but a live record in scope is absent. *)
Get(s, i) ==
  /\ entries' = Swept
  /\ \/ /\ \E e \in Of(s, Swept) : e.id = i /\ ~isDead(e)
        /\ Reply(s, i, "live")
     \/ /\ \A e \in Of(s, Swept) : e.id = i => isDead(e)
        /\ Reply(s, i, "absent")
  /\ SweepIfDue
  /\ UNCHANGED <<clock, minted, owner, uses>>

(* Mutant: the record is looked up without the session's scope. *)
ConsumeAnyScope(s, i) ==
  /\ \E e \in Swept :
        /\ e.id = i /\ ~isDead(e)
        /\ entries' = (Swept \ {e}) \cup {[e EXCEPT !.consumed = TRUE, !.consumedAt = clock]}
        /\ uses' = [uses EXCEPT ![i] = @ + 1]
        /\ Reply(s, i, "ok")
  /\ SweepIfDue
  /\ UNCHANGED <<clock, minted, owner>>

(* Mutant: a consumed record is not marked. *)
ConsumeUnmarked(s, i) ==
  /\ \E e \in Of(s, Swept) :
        /\ e.id = i /\ ~isDead(e)
        /\ uses' = [uses EXCEPT ![i] = @ + 1]
        /\ Reply(s, i, "ok")
  /\ entries' = Swept
  /\ SweepIfDue
  /\ UNCHANGED <<clock, minted, owner>>

(* consume: another session's record looks like a missing one. *)
Consume(s, i) ==
  /\ \/ /\ \A e \in Of(s, Swept) : e.id # i
        /\ Reply(s, i, "not_found")
        /\ entries' = Swept
        /\ UNCHANGED uses
     \/ \E e \in Of(s, Swept) :
        /\ e.id = i
        /\ \/ /\ isDead(e)
              /\ Reply(s, i, IF e.consumed THEN "already_used" ELSE "expired")
              /\ entries' = Swept
              /\ UNCHANGED uses
           \/ /\ ~isDead(e)
              /\ entries' = (Swept \ {e}) \cup
                              {[e EXCEPT !.consumed = TRUE, !.consumedAt = clock]}
              /\ uses' = [uses EXCEPT ![i] = @ + 1]
              /\ Reply(s, i, "ok")
  /\ SweepIfDue
  /\ UNCHANGED <<clock, minted, owner>>

PreviewTick ==
  /\ clock < LastTick
  /\ clock' = clock + 1
  /\ UNCHANGED <<entries, lastSweepAt, minted, owner, uses, reply>>

PreviewNext ==
  \/ \E s \in McpSessions : Put(s)
  \/ \E s \in McpSessions, i \in 1 .. minted : Get(s, i) \/ Consume(s, i)
  \/ PreviewTick

PreviewSpec == PreviewInit /\ [][PreviewNext]_previewVars

-----------------------------------------------------------------------------
PreviewTypeOK ==
  /\ clock \in 0 .. LastTick
  /\ entries \subseteq PreviewEntry
  /\ \A e, f \in entries : e.id = f.id => e = f
  /\ lastSweepAt \in Int /\ lastSweepAt <= clock
  /\ minted \in 0 .. MaxMinted
  /\ owner \in [PreviewIds -> McpSessions \cup {Nobody}]
  /\ uses \in [PreviewIds -> Nat]

(* A preview is consumed at most once, whatever was evicted, swept or      *)
(* asked by others in between; the last answer was true, and told another  *)
(* session nothing (preview-store/index.ts:262-290).                       *)
AnswersAreTrue ==
  LET i == reply.id IN
  /\ \A j \in PreviewIds : uses[j] <= 1
  /\ reply.status \in {"live", "ok", "already_used", "expired"} => owner[i] = reply.to
  /\ reply.status \in {"live", "expired"} => uses[i] = 0
  /\ reply.status \in {"ok", "already_used"} => uses[i] = 1

(* A live preview disappears only to make room for a new one: of its own   *)
(* session, or of a session that holds no more than the one it is taken    *)
(* from, once no dead entry is left; and there always is room made         *)
(* (preview-store/index.ts:298-352).                                       *)
FairEviction ==
  [][/\ Cardinality(entries') <= maxEntries
     /\ \A s \in McpSessions : Cardinality(Of(s, entries')) <= maxEntriesPerSession
     /\ \A e \in entries : ~isDead(e) /\ (\A f \in entries' : f.id # e.id) =>
          /\ minted' = minted + 1
          /\ LET s == owner'[minted'] IN
             \/ s = e.sessionId
             \/ /\ Cardinality(Of(s, entries')) <= Cardinality(Of(e.sessionId, entries))
                /\ \A f \in entries' : ~isDead(f)]_previewVars

=============================================================================
