----------------------------- MODULE FileStore -----------------------------
(***************************************************************************)
(* The file-backed operation store (mcp-server file-operation-store.ts).   *)
(* Several processes of one host share one JSON file.  A writer waits its  *)
(* turn in its process, takes the lock file with O_EXCL, reads the whole   *)
(* file, writes a temporary copy and renames it over the file.  A lock is  *)
(* never taken over: what a crash leaves behind, an operator removes.      *)
(***************************************************************************)
EXTENDS Naturals, Sequences

CONSTANTS
  Pids,       \* server processes; a restarted server is another pid
  Calls,      \* calls on the store
  ProcOf,     \* ProcOf[c]: the process that makes call c
  Requests,   \* what calls ask for, a subset of AtomicStore's Request
  Operators,  \* runs of --release-store-lock
  Keys, Values, Absent, Stale, Files,
  NoLock, NoSnap

VARIABLES
  file,     \* the content of the store file; a missing file reads as empty
  lock,     \* the lock file: NoLock, or its owner and whether it is filled in
  life,     \* life[p]: not started yet, up or dead
  queue,    \* queue[p]: the writers of process p, the head at work
  req,      \* req[c]: what call c asks for
  pc,       \* pc[c]: where call c is
  snap,     \* snap[c]: the file as call c read it, or NoSnap
  res,      \* res[c]: what call c will answer
  seen      \* seen[o]: the owner operator o read in the lock file and judged dead

vars == <<file, lock, life, queue, req, pc, snap, res, seen>>

(* Where a call stands for its caller: a write takes effect at the rename,   *)
(* and is undone by nothing that comes after it.                            *)
Phase(c) ==
  IF pc[c] \in {"idle", "gone", "done"} THEN pc[c]
    ELSE IF pc[c] \in {"unlocking", "answering"} /\ res[c] # "error" THEN "applied"
    ELSE "open"
Given(c) == IF pc[c] = "unlocking" /\ res[c] = "error" THEN "none" ELSE res[c]

Atomic == INSTANCE AtomicStore WITH
  mem    <- file,
  phase  <- [c \in Calls |-> Phase(c)],
  answer <- [c \in Calls |-> Given(c)]

Locks   == [pid : Pids, filled : BOOLEAN]
Records == [Keys -> Values \union {Absent}]

ASSUME FileStoreAssumption ==
  /\ ProcOf \in [Calls -> Pids]
  /\ Requests \subseteq Atomic!Request
  /\ Files \subseteq Records
  /\ Absent \notin Values /\ NoLock \notin Locks /\ NoSnap \notin Records
  /\ {"none", "true", "false", "error"} \cap (Values \union {Absent}) = {}

Goto(c, l) == pc' = [pc EXCEPT ![c] = l]
Answer(c, r) == res' = [res EXCEPT ![c] = r]
Disk == <<file, lock>>

Up(p) == life[p] = "up"

-----------------------------------------------------------------------------
Init ==
  /\ file \in Files
  /\ lock = NoLock
  /\ life = [p \in Pids |-> "new"]
  /\ queue = [p \in Pids |-> <<>>]
  /\ req \in [Calls -> Requests]
  /\ pc = [c \in Calls |-> "idle"]
  /\ snap = [c \in Calls |-> NoSnap]
  /\ res = [c \in Calls |-> "none"]
  /\ seen = [o \in Operators |-> NoLock]

(* A read takes no lock; the rename makes it see one whole file. *)
StartGet(c) ==
  /\ pc[c] = "idle" /\ Up(ProcOf[c]) /\ req[c].kind = "get"
  /\ Goto(c, "fetching")
  /\ UNCHANGED <<Disk, life, queue, req, snap, res, seen>>

Fetch(c) ==
  /\ pc[c] = "fetching"
  /\ Answer(c, file[req[c].key])
  /\ Goto(c, "answering")
  /\ UNCHANGED <<Disk, life, queue, req, snap, seen>>

AnswerGet(c) ==
  /\ pc[c] = "answering"
  /\ Goto(c, "done")
  /\ UNCHANGED <<Disk, life, queue, req, snap, res, seen>>

(* An unreadable, untrusted or corrupt file rejects the call. *)
FetchFails(c) ==
  /\ pc[c] = "fetching"
  /\ Answer(c, "error")
  /\ Goto(c, "done")
  /\ UNCHANGED <<Disk, life, queue, req, snap, seen>>

-----------------------------------------------------------------------------
(* #exclusive: writers of one process run one after the other. *)
Enqueue(c) ==
  /\ pc[c] = "idle" /\ Up(ProcOf[c]) /\ req[c].kind # "get"
  /\ queue' = [queue EXCEPT ![ProcOf[c]] = Append(@, c)]
  /\ Goto(c, "queued")
  /\ UNCHANGED <<Disk, life, req, snap, res, seen>>

MyTurn(c) == queue[ProcOf[c]] # <<>> /\ Head(queue[ProcOf[c]]) = c

(* The end of a writer, which lets the next one of its process begin. *)
Leave(c) ==
  /\ Goto(c, "done")
  /\ queue' = [queue EXCEPT ![ProcOf[c]] = Tail(@)]
  /\ snap' = [snap EXCEPT ![c] = NoSnap]

(* Mutant: the lock of a dead process is taken over. *)
CreateLockTakesOver(c) ==
  /\ pc[c] = "queued" /\ MyTurn(c)
  /\ lock # NoLock => life[lock.pid] = "dead"
  /\ lock' = [pid |-> ProcOf[c], filled |-> FALSE]
  /\ Goto(c, "filling")
  /\ UNCHANGED <<file, life, queue, req, snap, res, seen>>

(* #acquireLock: O_EXCL, polled until the deadline. *)
CreateLock(c) ==
  /\ pc[c] = "queued" /\ MyTurn(c)
  /\ lock = NoLock
  /\ lock' = [pid |-> ProcOf[c], filled |-> FALSE]
  /\ Goto(c, "filling")
  /\ UNCHANGED <<file, life, queue, req, snap, res, seen>>

(* Mutant: a failed writer leaves its process's queue broken. *)
LockUnavailableStalls(c) ==
  /\ pc[c] = "queued" /\ MyTurn(c)
  /\ Answer(c, "error")
  /\ Goto(c, "done")
  /\ UNCHANGED <<Disk, life, queue, req, snap, seen>>

LockUnavailable(c) ==
  /\ pc[c] = "queued" /\ MyTurn(c)
  /\ Answer(c, "error")
  /\ Leave(c)
  /\ UNCHANGED <<Disk, life, req, seen>>

FillLock(c) ==
  /\ pc[c] = "filling"
  /\ lock' = IF lock = [pid |-> ProcOf[c], filled |-> FALSE]
               THEN [lock EXCEPT !.filled = TRUE] ELSE lock
  /\ Goto(c, "reading")
  /\ UNCHANGED <<file, life, queue, req, snap, res, seen>>

(* The lock file could not be filled in: it is removed again. *)
FillFails(c) ==
  /\ pc[c] = "filling"
  /\ lock' = NoLock
  /\ Answer(c, "error")
  /\ Leave(c)
  /\ UNCHANGED <<file, life, req, seen>>

(* The whole file is read; a compare that fails, or nothing to remove, writes nothing. *)
ReadFile(c) ==
  LET found == file[req[c].key] IN
  /\ pc[c] = "reading"
  /\ IF Atomic!Writes(req[c], found)
       THEN /\ snap' = [snap EXCEPT ![c] = file]
            /\ Goto(c, "writing")
            /\ UNCHANGED res
       ELSE /\ Answer(c, "false")
            /\ Goto(c, "unlocking")
            /\ UNCHANGED snap
  /\ UNCHANGED <<Disk, life, queue, req, seen>>

(* #write: a temporary file beside the store, synced; a crash may leave it there. *)
WriteTemp(c) ==
  /\ pc[c] = "writing"
  /\ Goto(c, "renaming")
  /\ UNCHANGED <<Disk, life, queue, req, snap, res, seen>>

(* Mutant: the temporary file holds only the record written. *)
RenameDropsOthers(c) ==
  /\ pc[c] = "renaming"
  /\ file' = [k \in Keys |-> IF k = req[c].key THEN Atomic!Updated(req[c], snap[c])[k] ELSE Absent]
  /\ Answer(c, "true")
  /\ Goto(c, "unlocking")
  /\ UNCHANGED <<lock, life, queue, req, snap, seen>>

Rename(c) ==
  /\ pc[c] = "renaming"
  /\ file' = Atomic!Updated(req[c], snap[c])
  /\ Answer(c, "true")
  /\ Goto(c, "unlocking")
  /\ UNCHANGED <<lock, life, queue, req, snap, seen>>

(* The read or the write fails; the temporary file is removed. *)
WorkFails(c) ==
  /\ pc[c] \in {"reading", "writing", "renaming"}
  /\ Answer(c, "error")
  /\ Goto(c, "unlocking")
  /\ UNCHANGED <<Disk, life, queue, req, snap, seen>>

(* The lock file is removed by its path, whoever's it is. *)
RemoveLock(c) ==
  /\ pc[c] = "unlocking"
  /\ lock' = NoLock
  /\ Leave(c)
  /\ UNCHANGED <<file, life, req, res, seen>>

(* It cannot be removed: the call rejects even if it has written. *)
RemoveLockFails(c) ==
  /\ pc[c] = "unlocking"
  /\ Answer(c, "error")
  /\ Leave(c)
  /\ UNCHANGED <<Disk, life, req, seen>>

-----------------------------------------------------------------------------
(* A server starts, or is started again under a new pid. *)
Start(p) ==
  /\ life[p] = "new"
  /\ life' = [life EXCEPT ![p] = "up"]
  /\ UNCHANGED <<Disk, queue, req, pc, snap, res, seen>>

(* A process dies: its calls are gone, its lock and temporary file stay. *)
Crash(p) ==
  LET lost == {c \in Calls : ProcOf[c] = p /\ pc[c] \notin {"idle", "done"}} IN
  /\ Up(p)
  /\ life' = [life EXCEPT ![p] = "dead"]
  /\ pc' = [c \in Calls |-> IF c \in lost THEN "gone" ELSE pc[c]]
  /\ snap' = [c \in Calls |-> IF c \in lost THEN NoSnap ELSE snap[c]]
  /\ res' = [c \in Calls |-> IF c \in lost THEN "none" ELSE res[c]]
  /\ queue' = [queue EXCEPT ![p] = <<>>]
  /\ UNCHANGED <<Disk, req, seen>>

(* --release-store-lock: the lock file is read and its owner judged dead. *)
JudgeLock(o) ==
  /\ seen[o] = NoLock
  /\ lock # NoLock /\ lock.filled /\ life[lock.pid] = "dead"
  /\ seen' = [seen EXCEPT ![o] = lock]
  /\ UNCHANGED <<Disk, life, queue, req, pc, snap, res>>

(* Then it is removed by its path. *)
ReleaseLock(o) ==
  /\ seen[o] # NoLock
  /\ lock' = NoLock
  /\ seen' = [seen EXCEPT ![o] = NoLock]
  /\ UNCHANGED <<file, life, queue, req, pc, snap, res>>

(* --force, used as documented: no server and no other command is running. *)
ForceRelease ==
  /\ \A p \in Pids : ~Up(p)
  /\ \A o \in Operators : seen[o] = NoLock
  /\ lock # NoLock
  /\ lock' = NoLock
  /\ UNCHANGED <<file, life, queue, req, pc, snap, res, seen>>

-----------------------------------------------------------------------------
(* What the event loop of a process carries on with by itself. *)
Proceed(c) ==
  \/ Fetch(c) \/ AnswerGet(c)
  \/ CreateLock(c) \/ LockUnavailable(c) \/ FillLock(c)
  \/ ReadFile(c) \/ WriteTemp(c) \/ Rename(c) \/ RemoveLock(c)

Fail(c) == FetchFails(c) \/ FillFails(c) \/ WorkFails(c) \/ RemoveLockFails(c)

Next ==
  \/ \E c \in Calls : StartGet(c) \/ Enqueue(c) \/ Proceed(c) \/ Fail(c)
  \/ \E p \in Pids : Start(p) \/ Crash(p)
  \/ \E o \in Operators : JudgeLock(o) \/ ReleaseLock(o)
  \/ ForceRelease

Spec == Init /\ [][Next]_vars

(* File operations settle, and a wait for the lock has a deadline. *)
FairSpec == Spec /\ \A c \in Calls : WF_vars(Proceed(c))

-----------------------------------------------------------------------------
Working == {"filling", "reading", "writing", "renaming", "unlocking"}

TypeOK ==
  /\ file \in Records
  /\ lock \in Locks \union {NoLock}
  /\ life \in [Pids -> {"new", "up", "dead"}]
  /\ queue \in [Pids -> Seq(Calls)]
  /\ req \in [Calls -> Requests]
  /\ pc \in [Calls -> {"idle", "fetching", "answering", "queued", "done", "gone"} \union Working]
  /\ snap \in [Calls -> Records \union {NoSnap}]
  /\ res \in [Calls -> Values \union {Absent} \union {"none", "true", "false", "error"}]
  /\ seen \in [Operators -> Locks \union {NoLock}]

(***************************************************************************)
(* Writers exclude each other, between the processes and inside each: two  *)
(* calls never work on the file at the same time (file-operation-store.ts, *)
(* header: compareAndPut is atomic between processes on one host).         *)
(***************************************************************************)
OneWriter ==
  \A c, d \in Calls : pc[c] \in Working /\ pc[d] \in Working => c = d

(***************************************************************************)
(* The store is atomic: every call takes effect at one instant, or not at  *)
(* all, whatever crashes, failures and releases happen around it.          *)
(***************************************************************************)
IsAtomic == Atomic!ASpec

(***************************************************************************)
(* An operator's release never removes the lock of a process that lives    *)
(* (releaseStoreLock, doc comment).                                        *)
(***************************************************************************)
ReleaseSparesTheLiving ==
  [][ \A o \in Operators : ReleaseLock(o) => lock = NoLock \/ ~Up(lock.pid) ]_vars

(***************************************************************************)
(* A call that was accepted ends, a lock left behind or not: the wait has  *)
(* a deadline, and a failing writer lets the next one begin.               *)
(***************************************************************************)
CallsEnd == \A c \in Calls : pc[c] \in {"queued", "fetching"} ~> pc[c] \in {"done", "gone"}
=============================================================================
