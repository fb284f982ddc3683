-------------------------- MODULE FileStoreProofs --------------------------
(***************************************************************************)
(* Proofs about FileStore, for any processes, calls, keys and requests and *)
(* any file it starts from: writers exclude each other, a release spares   *)
(* the living, and the store implements AtomicStore.  All of it on one     *)
(* term: at most one operator releases the lock at a time.                 *)
(***************************************************************************)
EXTENDS FileStore, SequenceTheorems, TLAPS

(* docs/research/newegg-api-contracts.md:3764: "one run at a time".         *)
OneOperator == \A o, p \in Operators : o = p

-----------------------------------------------------------------------------
(* A call that has not begun or has ended, whatever its process does.       *)
Ended == {"idle", "done", "gone"}

(* A call at work holds the lock of its own, living process, whose other    *)
(* writers wait for it; before it writes it knows the file as it is.        *)
CallInv(c) ==
  /\ pc[c] \in Working => /\ lock # NoLock /\ lock.pid = ProcOf[c]
                          /\ MyTurn(c)
  /\ pc[c] \notin Ended => Up(ProcOf[c])
  /\ pc[c] \in {"writing", "renaming"} =>
       snap[c] = file /\ Atomic!Writes(req[c], file[req[c].key])
  /\ pc[c] \in Working \cup {"queued"} => req[c].kind # "get"
  /\ pc[c] \in {"fetching", "answering"} => req[c].kind = "get"
  /\ pc[c] \notin {"answering", "unlocking", "done"} => res[c] = "none"
  /\ pc[c] = "answering" => res[c] # "error"

(* A lock that an operator judged is that of a dead process, still there.   *)
Judged(o) == seen[o] # NoLock => lock = seen[o] /\ life[seen[o].pid] = "dead"

StoreInv ==
  /\ TypeOK
  /\ \A c \in Calls : CallInv(c)
  /\ \A o \in Operators : Judged(o)

-----------------------------------------------------------------------------
(* The lock and the turn single out one call.                               *)
LEMMA Exclusion ==
  ASSUME StoreInv
  PROVE  OneWriter
BY DEF StoreInv, CallInv, OneWriter, MyTurn

(* What a request may be.                                                   *)
LEMMA RequestTypes ==
  ASSUME TypeOK, NEW c \in Calls
  PROVE  /\ req[c] \in Atomic!Request
         /\ req[c].key \in Keys /\ req[c].value \in Values
         /\ req[c].kind \in {"get", "put", "cas", "remove"}
         /\ file[req[c].key] \in Values \cup {Absent}
BY FileStoreAssumption DEF TypeOK, Atomic!Request, Atomic!Kinds, Records

(* A write leaves records (#write).                                         *)
LEMMA UpdatedTypes ==
  ASSUME NEW r \in Atomic!Request, NEW m \in Records
  PROVE  Atomic!Updated(r, m) \in Records
BY DEF Atomic!Request, Atomic!Updated, Records

(* A writer joins its process's queue behind those that wait already.       *)
LEMMA AppendKeepsHead ==
  ASSUME NEW S, NEW q \in Seq(S), NEW x \in S, q # <<>>
  PROVE  Append(q, x) # <<>> /\ Head(Append(q, x)) = Head(q)
<1>1. /\ Append(q, x) \in Seq(S) /\ Append(q, x)[1] = q[1] /\ Append(q, x) # <<>>
  BY AppendProperties, EmptySeq, LenProperties
<1> QED BY <1>1

-----------------------------------------------------------------------------
(* Every step keeps the types.                                              *)
LEMMA TypeStep ==
  ASSUME StoreInv, [Next]_vars
  PROVE  TypeOK'
<1>0. TypeOK /\ ProcOf \in [Calls -> Pids]
  BY FileStoreAssumption DEF StoreInv
<1>q. ASSUME NEW c \in Calls, MyTurn(c)
      PROVE  [queue EXCEPT ![ProcOf[c]] = Tail(@)] \in [Pids -> Seq(Calls)]
  <2>1. queue[ProcOf[c]] \in Seq(Calls) /\ queue[ProcOf[c]] # <<>> /\ ProcOf[c] \in Pids
    BY <1>0, <1>q DEF TypeOK, MyTurn
  <2>2. Tail(queue[ProcOf[c]]) \in Seq(Calls)
    BY <2>1, HeadTailProperties
  <2> QED BY <1>0, <2>2 DEF TypeOK
<1>w. \A c \in Calls : pc[c] \in Working => MyTurn(c)
  BY DEF StoreInv, CallInv
<1> USE DEF Goto, Answer, Disk
<1>1. ASSUME NEW c \in Calls, StartGet(c) \/ AnswerGet(c) \/ WriteTemp(c)
      PROVE  TypeOK'
  BY <1>0, <1>1 DEF TypeOK, StartGet, AnswerGet, WriteTemp, Working
<1>2. ASSUME NEW c \in Calls, Fetch(c) \/ FetchFails(c)
      PROVE  TypeOK'
  <2>1. file[req[c].key] \in Values \cup {Absent}
    BY <1>0, RequestTypes
  <2> QED BY <1>0, <1>2, <2>1 DEF TypeOK, Fetch, FetchFails
<1>3. ASSUME NEW c \in Calls, Enqueue(c)
      PROVE  TypeOK'
  <2>1. queue[ProcOf[c]] \in Seq(Calls) /\ ProcOf[c] \in Pids
    BY <1>0 DEF TypeOK
  <2>2. Append(queue[ProcOf[c]], c) \in Seq(Calls)
    BY <2>1, AppendProperties
  <2> QED BY <1>0, <1>3, <2>1, <2>2 DEF TypeOK, Enqueue
<1>4. ASSUME NEW c \in Calls, CreateLock(c) \/ FillLock(c)
      PROVE  TypeOK'
  <2>1. /\ [pid |-> ProcOf[c], filled |-> FALSE] \in Locks
        /\ lock \in Locks => [lock EXCEPT !.filled = TRUE] \in Locks
    BY <1>0 DEF Locks
  <2>2. lock' \in Locks \cup {NoLock}
    BY <1>0, <1>4, <2>1 DEF TypeOK, CreateLock, FillLock
  <2> QED BY <1>0, <1>4, <2>2 DEF TypeOK, CreateLock, FillLock, Working
<1>5. ASSUME NEW c \in Calls, LockUnavailable(c)
      PROVE  TypeOK'
  BY <1>0, <1>5, <1>q DEF TypeOK, LockUnavailable, Leave
<1>6. ASSUME NEW c \in Calls, FillFails(c) \/ RemoveLock(c) \/ RemoveLockFails(c)
      PROVE  TypeOK'
  <2>1. MyTurn(c)
    BY <1>6, <1>w DEF FillFails, RemoveLock, RemoveLockFails, Working
  <2> QED BY <1>0, <1>6, <2>1, <1>q DEF TypeOK, FillFails, RemoveLock, RemoveLockFails, Leave
<1>7. ASSUME NEW c \in Calls, ReadFile(c) \/ WorkFails(c)
      PROVE  TypeOK'
  BY <1>0, <1>7 DEF TypeOK, ReadFile, WorkFails, Working
<1>8. ASSUME NEW c \in Calls, Rename(c)
      PROVE  TypeOK'
  <2>1. snap[c] \in Records /\ req[c] \in Atomic!Request
    BY <1>0, <1>8, RequestTypes DEF StoreInv, CallInv, TypeOK, Rename
  <2>2. file' \in Records
    BY <1>8, <2>1, UpdatedTypes DEF Rename
  <2> QED BY <1>0, <1>8, <2>2 DEF TypeOK, Rename, Working
<1>9. ASSUME NEW p \in Pids, Start(p)
      PROVE  TypeOK'
  BY <1>0, <1>9 DEF TypeOK, Start
<1>10. ASSUME NEW p \in Pids, Crash(p)
       PROVE  TypeOK'
  BY <1>0, <1>10, EmptySeq DEF TypeOK, Crash
<1>11. CASE \/ \E o \in Operators : JudgeLock(o) \/ ReleaseLock(o)
            \/ ForceRelease
  BY <1>0, <1>11 DEF TypeOK, JudgeLock, ReleaseLock, ForceRelease
<1>12. CASE UNCHANGED vars
  BY <1>0, <1>12 DEF TypeOK, vars
<1> QED BY <1>1, <1>2, <1>3, <1>4, <1>5, <1>6, <1>7, <1>8, <1>9, <1>10, <1>11, <1>12
        DEF Next, Proceed, Fail

-----------------------------------------------------------------------------
(* What a call relies on survives a step of others that leaves its own      *)
(* variables alone, and its lock, its turn and the file while it needs them. *)
LEMMA CallKept ==
  ASSUME NEW d \in Calls, CallInv(d),
         pc'[d] = pc[d], snap'[d] = snap[d], res'[d] = res[d], req' = req,
         pc[d] \in Working => /\ lock' # NoLock /\ lock'.pid = lock.pid
                              /\ MyTurn(d)' /\ file' = file,
         pc[d] \notin Ended => Up(ProcOf[d])'
  PROVE  CallInv(d)'
BY DEF CallInv, Working, Ended

(* The steps of a call that do not need the lock.                           *)
LEMMA ReaderSteps ==
  ASSUME StoreInv, NEW c \in Calls,
         StartGet(c) \/ Fetch(c) \/ AnswerGet(c) \/ FetchFails(c)
  PROVE  (\A d \in Calls : CallInv(d)') /\ (\A o \in Operators : Judged(o)')
<1>0. TypeOK /\ CallInv(c)
  BY DEF StoreInv
<1>1. /\ UNCHANGED <<file, lock, life, queue, req, snap, seen>>
      /\ \A d \in Calls \ {c} : pc'[d] = pc[d] /\ res'[d] = res[d]
  BY <1>0 DEF TypeOK, StartGet, Fetch, AnswerGet, FetchFails, Goto, Answer, Disk
<1>2. \A d \in Calls \ {c} : CallInv(d)'
  BY <1>1, CallKept DEF StoreInv, CallInv, MyTurn, Up
<1>3. file[req[c].key] # "error"
  BY <1>0, RequestTypes, FileStoreAssumption
<1>4. CallInv(c)'
  BY <1>0, <1>1, <1>3 DEF CallInv, TypeOK, StartGet, Fetch, AnswerGet, FetchFails, Goto,
                          Answer, Working, Ended, Up
<1> QED BY <1>1, <1>2, <1>4 DEF StoreInv, Judged

(* A writer that joins or gives up waiting disturbs nobody at work.         *)
LEMMA QueueSteps ==
  ASSUME StoreInv, NEW c \in Calls, Enqueue(c) \/ LockUnavailable(c)
  PROVE  (\A d \in Calls : CallInv(d)') /\ (\A o \in Operators : Judged(o)')
<1>0. TypeOK /\ CallInv(c) /\ ProcOf[c] \in Pids
  BY FileStoreAssumption DEF StoreInv
<1>1. /\ UNCHANGED <<file, lock, life, req, seen>>
      /\ \A d \in Calls \ {c} : pc'[d] = pc[d] /\ res'[d] = res[d] /\ snap'[d] = snap[d]
  BY <1>0 DEF TypeOK, Enqueue, LockUnavailable, Leave, Goto, Answer, Disk
<1>2. ASSUME NEW d \in Calls \ {c}, pc[d] \in Working
      PROVE  MyTurn(d)'
  <2>1. MyTurn(d) /\ ProcOf[d] \in Pids
    BY <1>2, FileStoreAssumption DEF StoreInv, CallInv
  <2>2. CASE Enqueue(c)
    <3>1. CASE ProcOf[d] = ProcOf[c]
      <4>1. queue[ProcOf[d]] \in Seq(Calls) /\ queue[ProcOf[d]] # <<>>
        BY <1>0, <2>1 DEF TypeOK, MyTurn
      <4>2. queue'[ProcOf[d]] = Append(queue[ProcOf[d]], c)
        BY <1>0, <2>2, <3>1 DEF Enqueue, TypeOK
      <4> QED BY <2>1, <4>1, <4>2, AppendKeepsHead DEF MyTurn
    <3>2. CASE ProcOf[d] # ProcOf[c]
      BY <1>0, <2>1, <2>2, <3>2 DEF Enqueue, TypeOK, MyTurn
    <3> QED BY <3>1, <3>2
  <2>3. CASE LockUnavailable(c)
    <3>1. ProcOf[d] # ProcOf[c]
      BY <2>1, <2>3 DEF LockUnavailable, MyTurn
    <3> QED BY <1>0, <2>1, <2>3, <3>1 DEF LockUnavailable, Leave, TypeOK, MyTurn
  <2> QED BY <2>2, <2>3
<1>3. \A d \in Calls \ {c} : CallInv(d)'
  BY <1>1, <1>2, CallKept DEF StoreInv, CallInv, Up
<1>4. CallInv(c)'
  BY <1>0, <1>1 DEF CallInv, TypeOK, Enqueue, LockUnavailable, Leave, Goto, Answer, Working,
                     Ended, Up
<1> QED BY <1>1, <1>3, <1>4 DEF StoreInv, Judged

(* The lock is taken only when there is none: then nobody works, and no     *)
(* operator is about to remove it.                                          *)
LEMMA CreateLockStep ==
  ASSUME StoreInv, NEW c \in Calls, CreateLock(c)
  PROVE  (\A d \in Calls : CallInv(d)') /\ (\A o \in Operators : Judged(o)')
<1>0. TypeOK /\ CallInv(c) /\ ProcOf[c] \in Pids
  BY FileStoreAssumption DEF StoreInv
<1>1. /\ UNCHANGED <<file, life, queue, req, snap, res, seen>>
      /\ \A d \in Calls \ {c} : pc'[d] = pc[d]
      /\ pc'[c] = "filling" /\ pc[c] = "queued" /\ MyTurn(c) /\ lock = NoLock
      /\ lock' = [pid |-> ProcOf[c], filled |-> FALSE]
  BY <1>0 DEF TypeOK, CreateLock, Goto
<1>2. lock' # NoLock /\ lock'.pid = ProcOf[c]
  <2>1. [pid |-> ProcOf[c], filled |-> FALSE] \in Locks
    BY <1>0 DEF Locks
  <2> QED BY <1>1, <2>1, FileStoreAssumption
<1>3. \A d \in Calls : pc[d] \notin Working
  BY <1>1 DEF StoreInv, CallInv
<1>4. \A d \in Calls \ {c} : CallInv(d)'
  BY <1>1, <1>3, CallKept DEF StoreInv, CallInv, Up
<1>5. CallInv(c)'
  BY <1>0, <1>1, <1>2 DEF CallInv, Working, Ended, MyTurn, Up
<1>6. \A o \in Operators : seen[o] = NoLock
  BY <1>1 DEF StoreInv, Judged
<1> QED BY <1>1, <1>4, <1>5, <1>6 DEF Judged

(* The steps of the one call at work that keep its lock.                    *)
LEMMA WorkSteps ==
  ASSUME StoreInv, NEW c \in Calls,
         FillLock(c) \/ ReadFile(c) \/ WriteTemp(c) \/ Rename(c) \/ WorkFails(c)
  PROVE  (\A d \in Calls : CallInv(d)') /\ (\A o \in Operators : Judged(o)')
<1>0. TypeOK /\ CallInv(c) /\ OneWriter
  BY Exclusion DEF StoreInv
<1>1. pc[c] \in Working /\ lock # NoLock /\ lock.pid = ProcOf[c] /\ MyTurn(c) /\ Up(ProcOf[c])
  BY <1>0 DEF FillLock, ReadFile, WriteTemp, Rename, WorkFails, Working, Ended, CallInv
<1>2. /\ UNCHANGED <<life, queue, req, seen>>
      /\ \A d \in Calls \ {c} : pc'[d] = pc[d] /\ snap'[d] = snap[d] /\ res'[d] = res[d]
  BY <1>0 DEF TypeOK, FillLock, ReadFile, WriteTemp, Rename, WorkFails, Goto, Answer
<1>3. lock' # NoLock /\ lock'.pid = ProcOf[c]
  <2>1. CASE FillLock(c)
    <3>1. lock \in Locks
      BY <1>0, <1>1 DEF TypeOK
    <3>2. [lock EXCEPT !.filled = TRUE] \in Locks /\ [lock EXCEPT !.filled = TRUE].pid = lock.pid
      BY <3>1 DEF Locks
    <3> QED BY <1>1, <2>1, <3>2, FileStoreAssumption DEF FillLock
  <2>2. CASE lock' = lock
    BY <1>1, <2>2
  <2> QED BY <2>1, <2>2 DEF ReadFile, WriteTemp, Rename, WorkFails, Disk
<1>4. \A d \in Calls \ {c} : pc[d] \notin Working
  BY <1>0, <1>1 DEF OneWriter
<1>5. \A d \in Calls \ {c} : CallInv(d)'
  BY <1>2, <1>4, CallKept DEF StoreInv, CallInv, Up
<1>6. MyTurn(c)' /\ Up(ProcOf[c])'
  BY <1>1, <1>2 DEF MyTurn, Up
<1>7. CallInv(c)'
  <2> USE DEF Goto, Answer, Working, Ended, TypeOK
  <2>1. CASE FillLock(c)
    BY <1>0, <1>2, <1>3, <1>6, <2>1 DEF FillLock, CallInv
  <2>2. CASE ReadFile(c)
    <3>1. CASE Atomic!Writes(req[c], file[req[c].key])
      <4>1. snap'[c] = file /\ pc'[c] = "writing" /\ UNCHANGED <<res, file>>
        BY <1>0, <2>2, <3>1 DEF ReadFile, Disk
      <4> QED BY <1>0, <1>1, <1>2, <1>3, <1>6, <3>1, <4>1, <2>2 DEF CallInv, ReadFile, Atomic!Writes
    <3>2. CASE ~Atomic!Writes(req[c], file[req[c].key])
      <4>1. pc'[c] = "unlocking"
        BY <1>0, <2>2, <3>2 DEF ReadFile
      <4> QED BY <1>0, <1>1, <1>2, <1>3, <1>6, <4>1 DEF CallInv
    <3> QED BY <3>1, <3>2
  <2>3. CASE WriteTemp(c)
    BY <1>0, <1>2, <1>3, <1>6, <2>3 DEF WriteTemp, CallInv, Disk, Atomic!Writes
  <2>4. CASE Rename(c) \/ WorkFails(c)
    <3>1. pc'[c] = "unlocking"
      BY <1>0, <2>4 DEF Rename, WorkFails
    <3> QED BY <1>0, <1>1, <1>2, <1>3, <1>6, <3>1 DEF CallInv
  <2> QED BY <2>1, <2>2, <2>3, <2>4
<1>8. \A o \in Operators : seen[o] = NoLock
  BY <1>1 DEF StoreInv, Judged, Up
<1> QED BY <1>2, <1>5, <1>7, <1>8 DEF Judged

(* The end of a writer's work, with or without its lock removed.            *)
LEMMA LeaveSteps ==
  ASSUME StoreInv, NEW c \in Calls, FillFails(c) \/ RemoveLock(c) \/ RemoveLockFails(c)
  PROVE  (\A d \in Calls : CallInv(d)') /\ (\A o \in Operators : Judged(o)')
<1>0. TypeOK /\ CallInv(c) /\ OneWriter
  BY Exclusion DEF StoreInv
<1>1. pc[c] \in Working /\ lock # NoLock /\ lock.pid = ProcOf[c] /\ Up(ProcOf[c])
  BY <1>0 DEF FillFails, RemoveLock, RemoveLockFails, Working, Ended, CallInv
<1>2. /\ UNCHANGED <<file, life, req, seen>>
      /\ \A d \in Calls \ {c} : pc'[d] = pc[d] /\ snap'[d] = snap[d] /\ res'[d] = res[d]
      /\ pc'[c] = "done"
  BY <1>0 DEF TypeOK, FillFails, RemoveLock, RemoveLockFails, Leave, Goto, Answer, Disk
<1>3. \A d \in Calls \ {c} : pc[d] \notin Working
  BY <1>0, <1>1 DEF OneWriter
<1>4. \A d \in Calls \ {c} : CallInv(d)'
  BY <1>2, <1>3, CallKept DEF StoreInv, CallInv, Up
<1>5. CallInv(c)'
  BY <1>2 DEF CallInv, Working, Ended
<1>6. \A o \in Operators : seen[o] = NoLock
  BY <1>1 DEF StoreInv, Judged, Up
<1> QED BY <1>2, <1>4, <1>5, <1>6 DEF Judged

(* Starts, crashes and operators: a process dies with its calls, and only   *)
(* the lock of a dead process is removed.                                   *)
LEMMA OutsideSteps ==
  ASSUME OneOperator, StoreInv,
         \/ \E p \in Pids : Start(p) \/ Crash(p)
         \/ \E o \in Operators : JudgeLock(o) \/ ReleaseLock(o)
         \/ ForceRelease
         \/ UNCHANGED vars
  PROVE  (\A d \in Calls : CallInv(d)') /\ (\A o \in Operators : Judged(o)')
<1>0. TypeOK /\ \A d \in Calls : CallInv(d) /\ ProcOf[d] \in Pids
  BY FileStoreAssumption DEF StoreInv
<1>1. ASSUME NEW p \in Pids, Start(p)
      PROVE  (\A d \in Calls : CallInv(d)') /\ (\A o \in Operators : Judged(o)')
  <2>1. /\ UNCHANGED <<file, lock, queue, req, pc, snap, res, seen>>
        /\ life[p] = "new" /\ \A q \in Pids \ {p} : life'[q] = life[q]
    BY <1>0, <1>1 DEF Start, TypeOK, Disk
  <2>2. \A d \in Calls : CallInv(d)'
    BY <1>0, <2>1, CallKept DEF CallInv, MyTurn, Up
  <2>3. \A o \in Operators : Judged(o)'
    <3> SUFFICES ASSUME NEW o \in Operators, seen[o] # NoLock PROVE Judged(o)'
      BY <2>1 DEF Judged
    <3>1. lock = seen[o] /\ life[seen[o].pid] = "dead" /\ seen[o] \in Locks
      BY <1>0 DEF StoreInv, Judged, TypeOK
    <3>2. seen[o].pid \in Pids
      BY <3>1 DEF Locks
    <3> QED BY <2>1, <3>1, <3>2 DEF Judged
  <2> QED BY <2>2, <2>3
<1>2. ASSUME NEW p \in Pids, Crash(p)
      PROVE  (\A d \in Calls : CallInv(d)') /\ (\A o \in Operators : Judged(o)')
  <2>1. /\ UNCHANGED <<file, lock, req, seen>>
        /\ \A q \in Pids \ {p} : life'[q] = life[q] /\ queue'[q] = queue[q]
        /\ life'[p] = "dead"
    BY <1>0, <1>2 DEF Crash, TypeOK, Disk
  <2>2. ASSUME NEW d \in Calls
        PROVE  CallInv(d)'
    <3>1. CASE ProcOf[d] = p /\ pc[d] \notin {"idle", "done"}
      <4>1. pc'[d] = "gone" /\ res'[d] = "none"
        BY <1>2, <3>1 DEF Crash
      <4> QED BY <4>1 DEF CallInv, Working, Ended
    <3>2. CASE ProcOf[d] # p \/ pc[d] \in {"idle", "done"}
      <4>1. pc'[d] = pc[d] /\ snap'[d] = snap[d] /\ res'[d] = res[d]
        BY <1>2, <3>2 DEF Crash
      <4>2. /\ pc[d] \in Working => ProcOf[d] # p
            /\ pc[d] \notin Ended => ProcOf[d] # p
        BY <3>2 DEF Working, Ended
      <4> QED BY <1>0, <2>1, <4>1, <4>2, CallKept DEF CallInv, MyTurn, Up
    <3> QED BY <3>1, <3>2
  <2>3. \A o \in Operators : Judged(o)'
    <3> SUFFICES ASSUME NEW o \in Operators, seen[o] # NoLock PROVE Judged(o)'
      BY <2>1 DEF Judged
    <3>1. lock = seen[o] /\ life[seen[o].pid] = "dead" /\ seen[o] \in Locks
      BY <1>0 DEF StoreInv, Judged, TypeOK
    <3>2. seen[o].pid \in Pids
      BY <3>1 DEF Locks
    <3> QED BY <2>1, <3>1, <3>2 DEF Judged
  <2> QED BY <2>2, <2>3
<1>3. ASSUME NEW o \in Operators, JudgeLock(o)
      PROVE  (\A d \in Calls : CallInv(d)') /\ (\A p \in Operators : Judged(p)')
  <2>1. /\ UNCHANGED <<file, lock, life, queue, req, pc, snap, res>>
        /\ seen'[o] = lock /\ life[lock.pid] = "dead"
        /\ \A p \in Operators \ {o} : seen'[p] = seen[p]
    BY <1>0, <1>3 DEF JudgeLock, TypeOK, Disk
  <2>2. \A d \in Calls : CallInv(d)'
    BY <1>0, <2>1, CallKept DEF CallInv, MyTurn, Up
  <2> QED BY <2>1, <2>2 DEF StoreInv, Judged
<1>4. ASSUME NEW o \in Operators, ReleaseLock(o)
      PROVE  (\A d \in Calls : CallInv(d)') /\ (\A p \in Operators : Judged(p)')
  <2>1. /\ UNCHANGED <<file, life, queue, req, pc, snap, res>> /\ seen'[o] = NoLock
    BY <1>0, <1>4 DEF ReleaseLock, TypeOK
  <2>2. life[lock.pid] = "dead"
    BY <1>4 DEF ReleaseLock, StoreInv, Judged
  <2>3. \A d \in Calls : pc[d] \notin Working
    BY <1>0, <2>2 DEF CallInv, Up, Working, Ended
  <2>4. \A d \in Calls : CallInv(d)'
    BY <1>0, <2>1, <2>3, CallKept DEF CallInv, Up
  <2> QED BY <2>1, <2>4 DEF OneOperator, Judged
<1>5. CASE ForceRelease
  <2>1. /\ UNCHANGED <<file, life, queue, req, pc, snap, res, seen>>
        /\ \A o \in Operators : seen[o] = NoLock
        /\ \A p \in Pids : ~Up(p)
    BY <1>5 DEF ForceRelease
  <2>2. \A d \in Calls : pc[d] \notin Working
    BY <1>0, <2>1 DEF CallInv, Working, Ended
  <2>3. \A d \in Calls : CallInv(d)'
    BY <1>0, <2>1, <2>2, CallKept DEF CallInv, Up
  <2> QED BY <2>1, <2>3 DEF Judged
<1>6. CASE UNCHANGED vars
  BY <1>0, <1>6, CallKept DEF vars, StoreInv, CallInv, Judged, MyTurn, Up
<1> QED BY <1>1, <1>2, <1>3, <1>4, <1>5, <1>6

-----------------------------------------------------------------------------
(* Every step keeps the invariant.                                          *)
LEMMA StoreStepSafe ==
  ASSUME OneOperator, StoreInv, [Next]_vars
  PROVE  StoreInv'
<1>1. TypeOK'
  BY TypeStep
<1>2. (\A d \in Calls : CallInv(d)') /\ (\A o \in Operators : Judged(o)')
  BY ReaderSteps, QueueSteps, CreateLockStep, WorkSteps, LeaveSteps, OutsideSteps
     DEF Next, Proceed, Fail
<1> QED BY <1>1, <1>2 DEF StoreInv

(* The store starts without lock, calls or operators at work.               *)
LEMMA StoreInitSafe == Init => StoreInv
BY FileStoreAssumption, EmptySeq DEF Init, StoreInv, TypeOK, CallInv, Judged, Working, Ended

(* Writers exclude each other, between the processes and inside each        *)
(* (file-operation-store.ts, header comment).                               *)
THEOREM WritersExclude == OneOperator => (Spec => [](TypeOK /\ OneWriter))
<1> SUFFICES ASSUME OneOperator PROVE Spec => [](TypeOK /\ OneWriter)
  OBVIOUS
<1>1. StoreInv /\ [Next]_vars => StoreInv'
  BY StoreStepSafe
<1>2. StoreInv => TypeOK /\ OneWriter
  BY Exclusion DEF StoreInv
<1> QED BY <1>1, <1>2, StoreInitSafe, PTL DEF Spec

(* A release never removes the lock of a process that lives                 *)
(* (releaseStoreLock).                                                      *)
THEOREM ReleaseIsSafe == OneOperator => (Spec => ReleaseSparesTheLiving)
<1> SUFFICES ASSUME OneOperator PROVE Spec => ReleaseSparesTheLiving
  OBVIOUS
<1>1. StoreInv /\ [Next]_vars => StoreInv'
  BY StoreStepSafe
<1>2. StoreInv /\ [Next]_vars =>
        [\A o \in Operators : ReleaseLock(o) => lock = NoLock \/ ~Up(lock.pid)]_vars
  BY DEF StoreInv, Judged, ReleaseLock, Up
<1> QED BY <1>1, <1>2, StoreInitSafe, PTL DEF Spec, ReleaseSparesTheLiving

-----------------------------------------------------------------------------
(* The abstract steps, call by call.                                        *)

(* A step that leaves the abstract state of every call alone.               *)
LEMMA Stutters ==
  ASSUME file' = file, req' = req,
         \A d \in Calls : Phase(d)' = Phase(d) /\ Given(d)' = Given(d)
  PROVE  UNCHANGED Atomic!avars
<1>1. [c \in Calls |-> Phase(c)]' = [c \in Calls |-> Phase(c)]
  OBVIOUS
<1>2. [c \in Calls |-> Given(c)]' = [c \in Calls |-> Given(c)]
  OBVIOUS
<1> QED BY <1>1, <1>2 DEF Atomic!avars

(* A step of c does not show at the other calls.                            *)
LEMMA OthersUnseen ==
  ASSUME NEW c \in Calls,
         \A d \in Calls \ {c} : pc'[d] = pc[d] /\ res'[d] = res[d]
  PROVE  \A d \in Calls \ {c} : Phase(d)' = Phase(d) /\ Given(d)' = Given(d)
BY DEF Phase, Given

(* The frame of every step of a call.                                       *)
LEMMA CallFrame ==
  ASSUME TypeOK, NEW c \in Calls, StartGet(c) \/ Enqueue(c) \/ Proceed(c) \/ Fail(c)
  PROVE  /\ req' = req
         /\ \A d \in Calls \ {c} : pc'[d] = pc[d] /\ res'[d] = res[d]
BY DEF TypeOK, StartGet, Enqueue, Proceed, Fail, Fetch, AnswerGet, CreateLock, LockUnavailable,
       FillLock, ReadFile, WriteTemp, Rename, RemoveLock, FetchFails, FillFails, WorkFails,
       RemoveLockFails, Leave, Goto, Answer, Disk

(* A call begins.                                                           *)
LEMMA Begins ==
  ASSUME StoreInv, NEW c \in Calls, StartGet(c) \/ Enqueue(c)
  PROVE  Atomic!Begin(c)
<1>0. TypeOK
  BY DEF StoreInv
<1>1. /\ pc[c] = "idle" /\ pc'[c] \in {"fetching", "queued"} /\ res' = res /\ file' = file
      /\ req' = req
  BY <1>0 DEF StartGet, Enqueue, Goto, TypeOK, Disk
<1>2. Phase(c) = "idle" /\ Phase(c)' = "open" /\ Given(c)' = Given(c)
  BY <1>1 DEF Phase, Given
<1>3. \A d \in Calls \ {c} : Phase(d)' = Phase(d) /\ Given(d)' = Given(d)
  BY <1>0, CallFrame, OthersUnseen
<1>4. [d \in Calls |-> Phase(d)]' = [[d \in Calls |-> Phase(d)] EXCEPT ![c] = "open"]
  BY <1>2, <1>3
<1>5. [d \in Calls |-> Given(d)]' = [d \in Calls |-> Given(d)]
  BY <1>2, <1>3
<1> QED BY <1>1, <1>2, <1>4, <1>5 DEF Atomic!Begin

(* A read takes effect when the file is read; a write at the rename, and    *)
(* one that has nothing to do when that is found.                           *)
LEMMA TakesEffect ==
  ASSUME StoreInv, NEW c \in Calls,
         \/ Fetch(c) \/ Rename(c)
         \/ ReadFile(c) /\ ~Atomic!Writes(req[c], file[req[c].key])
  PROVE  Atomic!Apply(c)
<1>0. TypeOK /\ CallInv(c) /\ req' = req
  BY CallFrame DEF StoreInv, Proceed
<1>1. file[req[c].key] # "error" /\ file[req[c].key] \in Values \cup {Absent}
  BY <1>0, RequestTypes, FileStoreAssumption
<1> DEFINE found == file[req[c].key]
<1>2. /\ Phase(c) = "open" /\ Phase(c)' = "applied"
      /\ Given(c)' = Atomic!Reply(req[c], found)
      /\ file' = Atomic!Updated(req[c], file)
  <2>1. CASE Fetch(c)
    <3>1. /\ pc[c] = "fetching" /\ pc'[c] = "answering" /\ res'[c] = found /\ file' = file
      BY <1>0, <2>1 DEF Fetch, Goto, Answer, TypeOK, Disk
    <3>2. req[c].kind = "get"
      BY <1>0, <3>1 DEF CallInv
    <3>3. ~Atomic!Writes(req[c], found) /\ Atomic!Reply(req[c], found) = found
      BY <3>2 DEF Atomic!Writes, Atomic!Reply
    <3> QED BY <1>1, <3>1, <3>3 DEF Phase, Given, Atomic!Updated
  <2>2. CASE Rename(c)
    <3>1. /\ pc[c] = "renaming" /\ pc'[c] = "unlocking" /\ res'[c] = "true"
          /\ file' = Atomic!Updated(req[c], snap[c])
      BY <1>0, <2>2 DEF Rename, Goto, Answer, TypeOK
    <3>2. snap[c] = file /\ Atomic!Writes(req[c], found) /\ req[c].kind # "get"
      BY <1>0, <3>1 DEF CallInv, Working
    <3>3. Atomic!Reply(req[c], found) = "true"
      BY <3>2 DEF Atomic!Reply
    <3> QED BY <3>1, <3>2, <3>3 DEF Phase, Given
  <2>3. CASE ReadFile(c) /\ ~Atomic!Writes(req[c], found)
    <3>1. /\ pc[c] = "reading" /\ pc'[c] = "unlocking" /\ res'[c] = "false" /\ file' = file
      BY <1>0, <2>3 DEF ReadFile, Goto, Answer, TypeOK, Disk
    <3>2. req[c].kind # "get"
      BY <1>0, <3>1 DEF CallInv, Working
    <3>3. Atomic!Reply(req[c], found) = "false"
      BY <2>3, <3>2 DEF Atomic!Reply
    <3> QED BY <2>3, <3>1, <3>3 DEF Phase, Given, Atomic!Updated
  <2> QED BY <2>1, <2>2, <2>3
<1>3. \A d \in Calls \ {c} : Phase(d)' = Phase(d) /\ Given(d)' = Given(d)
  BY <1>0, CallFrame, OthersUnseen DEF Proceed
<1>4. [d \in Calls |-> Phase(d)]' = [[d \in Calls |-> Phase(d)] EXCEPT ![c] = "applied"]
  BY <1>2, <1>3
<1>5. [d \in Calls |-> Given(d)]' =
        [[d \in Calls |-> Given(d)] EXCEPT ![c] = Atomic!Reply(req[c], found)]
  BY <1>2, <1>3
<1> QED BY <1>0, <1>2, <1>4, <1>5 DEF Atomic!Apply

(* A call that took effect is answered; any other is rejected, and so is    *)
(* one that took effect when its lock cannot be removed.                    *)
LEMMA Ends ==
  ASSUME StoreInv, NEW c \in Calls,
         \/ AnswerGet(c) \/ RemoveLock(c) \/ FetchFails(c) \/ LockUnavailable(c)
         \/ FillFails(c) \/ RemoveLockFails(c)
  PROVE  Atomic!Return(c) \/ Atomic!Reject(c)
<1>0. TypeOK /\ CallInv(c) /\ req' = req
  BY CallFrame DEF StoreInv, Proceed, Fail
<1>1. /\ file' = file /\ pc'[c] = "done"
      /\ pc[c] \in {"answering", "unlocking", "fetching", "queued", "filling"}
      /\ \/ res'[c] = res[c] /\ pc[c] \in {"answering", "unlocking"}
         \/ res'[c] = "error" /\ pc[c] # "answering"
  BY <1>0 DEF AnswerGet, RemoveLock, FetchFails, LockUnavailable, FillFails, RemoveLockFails,
              Leave, Goto, Answer, TypeOK, Disk
<1>2. Phase(c) \in {"open", "applied"} /\ Phase(c)' = "done" /\ Given(c)' = res'[c]
  BY <1>1 DEF Phase, Given
<1>3. \A d \in Calls \ {c} : Phase(d)' = Phase(d) /\ Given(d)' = Given(d)
  BY <1>0, CallFrame, OthersUnseen DEF Proceed, Fail
<1>4. [d \in Calls |-> Phase(d)]' = [[d \in Calls |-> Phase(d)] EXCEPT ![c] = "done"]
  BY <1>2, <1>3
<1>5. CASE res'[c] = "error"
  <2>1. [d \in Calls |-> Given(d)]' = [[d \in Calls |-> Given(d)] EXCEPT ![c] = "error"]
    BY <1>2, <1>3, <1>5
  <2> QED BY <1>0, <1>1, <1>2, <1>4, <2>1 DEF Atomic!Reject
<1>6. CASE res'[c] # "error"
  <2>1. Phase(c) = "applied" /\ Given(c)' = Given(c)
    BY <1>1, <1>2, <1>6 DEF Phase, Given
  <2>2. [d \in Calls |-> Given(d)]' = [d \in Calls |-> Given(d)]
    BY <1>3, <2>1
  <2> QED BY <1>0, <1>1, <1>4, <2>1, <2>2 DEF Atomic!Return
<1> QED BY <1>5, <1>6

(* What a call does in between, its caller cannot see.                      *)
LEMMA Prepares ==
  ASSUME StoreInv, NEW c \in Calls,
         \/ CreateLock(c) \/ FillLock(c) \/ WriteTemp(c) \/ WorkFails(c)
         \/ ReadFile(c) /\ Atomic!Writes(req[c], file[req[c].key])
  PROVE  UNCHANGED Atomic!avars
<1>0. TypeOK /\ CallInv(c) /\ req' = req
  BY CallFrame DEF StoreInv, Proceed, Fail
<1>1. /\ file' = file
      /\ pc[c] \in {"queued", "filling", "reading", "writing", "renaming"}
      /\ \/ pc'[c] \in {"filling", "reading", "writing", "renaming"} /\ res'[c] = res[c]
         \/ pc'[c] = "unlocking" /\ res'[c] = "error"
  BY <1>0 DEF CreateLock, FillLock, WriteTemp, WorkFails, ReadFile, Goto, Answer, TypeOK, Disk
<1>2. res[c] = "none"
  BY <1>0, <1>1 DEF CallInv
<1>3. Phase(c)' = Phase(c) /\ Given(c)' = Given(c)
  BY <1>1, <1>2 DEF Phase, Given
<1>4. \A d \in Calls \ {c} : Phase(d)' = Phase(d) /\ Given(d)' = Given(d)
  BY <1>0, CallFrame, OthersUnseen DEF Proceed, Fail
<1> QED BY <1>0, <1>1, <1>3, <1>4, Stutters

(* A process that dies takes its calls with it.                             *)
LEMMA Dies ==
  ASSUME StoreInv, NEW p \in Pids, Crash(p)
  PROVE  \E lost \in SUBSET Calls : Atomic!Die(lost)
<1> DEFINE lost == {c \in Calls : ProcOf[c] = p /\ pc[c] \notin {"idle", "done"}}
<1>1. /\ UNCHANGED <<file, req>>
      /\ \A c \in lost : pc'[c] = "gone" /\ res'[c] = "none"
      /\ \A c \in Calls \ lost : pc'[c] = pc[c] /\ res'[c] = res[c]
  BY DEF Crash, Disk
<1>2. \A c \in Calls : /\ Phase(c)' = IF c \in lost THEN "gone" ELSE Phase(c)
                       /\ Given(c)' = IF c \in lost THEN "none" ELSE Given(c)
  BY <1>1 DEF Phase, Given
<1>3. [c \in Calls |-> Phase(c)]' =
        [c \in Calls |-> IF c \in lost THEN "gone" ELSE [d \in Calls |-> Phase(d)][c]]
  BY <1>2
<1>4. [c \in Calls |-> Given(c)]' =
        [c \in Calls |-> IF c \in lost THEN "none" ELSE [d \in Calls |-> Given(d)][c]]
  BY <1>2
<1>5. Atomic!Die(lost)
  BY <1>1, <1>3, <1>4 DEF Atomic!Die
<1> QED BY <1>5

(* Starts and operators touch no call and no record.                        *)
LEMMA Unseen ==
  ASSUME \/ \E p \in Pids : Start(p)
         \/ \E o \in Operators : JudgeLock(o) \/ ReleaseLock(o)
         \/ ForceRelease
         \/ UNCHANGED vars
  PROVE  UNCHANGED Atomic!avars
<1>1. UNCHANGED <<file, req, pc, res>>
  BY DEF Start, JudgeLock, ReleaseLock, ForceRelease, vars, Disk
<1>2. \A d \in Calls : Phase(d)' = Phase(d) /\ Given(d)' = Given(d)
  BY <1>1 DEF Phase, Given
<1> QED BY <1>1, <1>2, Stutters

(* Every step is a step of the abstract store, or none.                     *)
LEMMA StepRefines ==
  ASSUME StoreInv, [Next]_vars
  PROVE  [Atomic!ANext]_(Atomic!avars)
<1>1. ASSUME NEW c \in Calls, StartGet(c) \/ Enqueue(c) \/ Proceed(c) \/ Fail(c)
      PROVE  [Atomic!ANext]_(Atomic!avars)
  BY <1>1, Begins, TakesEffect, Ends, Prepares DEF Proceed, Fail, Atomic!ANext
<1>2. ASSUME NEW p \in Pids, Crash(p)
      PROVE  [Atomic!ANext]_(Atomic!avars)
  BY <1>2, Dies DEF Atomic!ANext
<1> QED BY <1>1, <1>2, Unseen DEF Next

(* The first states correspond.                                             *)
LEMMA InitRefines == Init => Atomic!AInit
<1> SUFFICES ASSUME Init PROVE Atomic!AInit
  OBVIOUS
<1>1. \A c \in Calls : Phase(c) = "idle" /\ Given(c) = "none"
  BY DEF Init, Phase, Given
<1>2. req \in [Calls -> Atomic!Request] /\ file \in Files
  BY FileStoreAssumption DEF Init
<1> QED BY <1>1, <1>2 DEF Atomic!AInit

(* The store is atomic (types.ts, OperationStore; ADR 0004): it implements  *)
(* AtomicStore, through failures, crashes, restarts and releases.           *)
THEOREM StoreIsAtomic == OneOperator => (Spec => IsAtomic)
<1> SUFFICES ASSUME OneOperator PROVE Spec => IsAtomic
  OBVIOUS
<1>1. StoreInv /\ [Next]_vars => StoreInv'
  BY StoreStepSafe
<1>2. StoreInv /\ [Next]_vars => [Atomic!ANext]_(Atomic!avars)
  BY StepRefines
<1> QED BY <1>1, <1>2, StoreInitSafe, InitRefines, PTL DEF Spec, IsAtomic, Atomic!ASpec
=============================================================================
