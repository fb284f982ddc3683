--------------------------- MODULE RateLimitStore ---------------------------
(***************************************************************************)
(* One bucket of InMemoryRateLimitStore (sdk/src/rate-limit/store.ts): two *)
(* sliding windows, backpressure from the server's headers, and a FIFO     *)
(* queue of waiters woken by a single timer.                               *)
(*                                                                         *)
(* Instants are kept as ages and timers as time left, so the clock needs   *)
(* no bound: an age is no longer followed once it has left both windows.   *)
(***************************************************************************)
EXTENDS Integers, SequencesExt

CONSTANTS
  Callers,      \* tasks that call acquire, each over and over
  Costs,        \* the recordCosts of their requests
  MINUTE, HOUR, \* MINUTE_MS and HOUR_MS, in ticks
  MaxPerMinute, MaxRecordsPerHour,
  WaitCap,      \* OBSERVED_WAIT_CAP_MS, in ticks
  MaxReset      \* bound on how far away a reset time the server names

ASSUME RateAssumption ==
  /\ Costs \subseteq Nat \ {0}
  /\ MINUTE \in Nat \ {0} /\ HOUR \in Nat /\ MINUTE < HOUR
  /\ MaxPerMinute \in Nat \ {0} /\ MaxRecordsPerHour \in Nat \ {0}
  /\ WaitCap \in Nat \ {0} /\ MaxReset \in Nat

VARIABLES
  queue,         \* the waiters, each with its recordCost
  busy,          \* callers whose granted request is not yet answered
  requestTimes,  \* ages of the granted requests, oldest first
  recordEvents,  \* age and cost of the granted requests, oldest first
  observed,      \* time to the reset of a budget the server calls exhausted
  timer,         \* time left on the timer, or NoTimer
  log            \* history: age and cost of every grant younger than an hour

rateVars == <<queue, busy, requestTimes, recordEvents, observed, timer, log>>

NoTimer == -1
Budgets == {"requests", "records"}
Old     == HOUR + 1

Larger(a, b)  == IF a >= b THEN a ELSE b
Smaller(a, b) == IF a <= b THEN a ELSE b

(* The costs up to each event, and of all of them. *)
Sums(events) ==
  LET sum[i \in 0 .. Len(events)] == IF i = 0 THEN 0 ELSE sum[i - 1] + events[i].cost
  IN sum

Total(events) == Sums(events)[Len(events)]

RateInit ==
  /\ busy = {}
  /\ queue = <<>> /\ requestTimes = <<>> /\ recordEvents = <<>> /\ log = <<>>
  /\ observed = [b \in Budgets |-> 0]
  /\ timer = NoTimer

-----------------------------------------------------------------------------
(* What is left of a sequence from the first of these places on. *)
From(s, places) ==
  IF places = {} THEN <<>> ELSE SubSeq(s, CHOOSE i \in places : \A j \in places : i <= j, Len(s))

(* #prune: what is in front and happened more than a window ago is dropped. *)
PrunedTimes(times)   == From(times, {i \in DOMAIN times : times[i] <= MINUTE})
PrunedEvents(events) == From(events, {i \in DOMAIN events : events[i].age <= HOUR})

(* Mutant: waits for the oldest request instead of the limiting one. *)
RequestWaitOldest(times) ==
  IF Len(times) < MaxPerMinute THEN 0 ELSE MINUTE - Head(times)

(* #readyInMs, one operator per limit. *)
RequestWait(times) ==
  IF Len(times) < MaxPerMinute THEN 0
    ELSE MINUTE - times[Len(times) - MaxPerMinute + 1]

(* Mutant: an oversize cost waits like any other. *)
RecordWaitOversize(events, cost) ==
  LET Fits(i) == Total(SubSeq(events, i + 1, Len(events))) + cost <= MaxRecordsPerHour
      enough  == {i \in DOMAIN events : Fits(i)}
  IN IF Fits(0) THEN 0
       ELSE IF enough = {} THEN HOUR
       ELSE HOUR - events[CHOOSE i \in enough : \A j \in enough : i <= j].age

(* A cost above the whole budget is let through rather than never. *)
RecordWait(events, cost) ==
  LET Fits(i) == Total(SubSeq(events, i + 1, Len(events))) + cost <= MaxRecordsPerHour
      enough  == {i \in DOMAIN events : Fits(i)}
  IN IF Fits(0) \/ enough = {} THEN 0
       ELSE HOUR - events[CHOOSE i \in enough : \A j \in enough : i <= j].age

ObservedWait(obs) ==
  Larger(Smaller(obs["requests"], WaitCap), Smaller(obs["records"], WaitCap))

Wait(w, times, events, obs) ==
  Larger(Larger(RequestWait(times), RecordWait(events, w.cost)), ObservedWait(obs))

(***************************************************************************)
(* #process: grants from the head of the queue while the head need not     *)
(* wait, and sets the timer for the head that must.  n is how many it      *)
(* grants; each counts in the windows for the next, and no time passes in  *)
(* between, so that what is pruned for the first is pruned for all.        *)
(***************************************************************************)
Process(q, obs, t, unanswered) ==
  LET times       == PrunedTimes(requestTimes)
      events      == PrunedEvents(recordEvents)
      new(n)      == [i \in 1 .. n |-> [age |-> 0, cost |-> q[i].cost]]
      Times(n)    == times \o [i \in 1 .. n |-> 0]
      Events(n)   == events \o new(n)
      HeadWait(n) == Wait(q[n + 1], Times(n), Events(n), obs)
  IN \E n \in 0 .. Len(q) :
     /\ \A k \in 0 .. n - 1 : HeadWait(k) <= 0
     /\ n < Len(q) => HeadWait(n) > 0
     /\ queue' = SubSeq(q, n + 1, Len(q))
     /\ busy' = unanswered \cup {q[i].caller : i \in 1 .. n}
     /\ requestTimes' = IF q = <<>> THEN requestTimes ELSE Times(n)
     /\ recordEvents' = IF q = <<>> THEN recordEvents ELSE Events(n)
     /\ log' = log \o new(n)
     /\ timer' = IF n = Len(q) THEN t ELSE HeadWait(n)
     /\ observed' = obs

-----------------------------------------------------------------------------
Waits(c) == \E i \in DOMAIN queue : queue[i].caller = c
Idle(c)  == c \notin busy /\ ~Waits(c)

Acquire(c) ==
  /\ Idle(c)
  /\ \E cost \in Costs :
       Process(Append(queue, [caller |-> c, cost |-> cost]), observed, timer, busy)

(* The caller's signal takes the waiter out of the queue. *)
Abort(c) ==
  /\ \E i \in DOMAIN queue :
       /\ queue[i].caller = c
       /\ Process(RemoveAt(queue, i), observed, timer, busy)

(***************************************************************************)
(* The granted request is answered.  Its headers may say that a budget is  *)
(* exhausted until a reset, or no longer; or there is no header at all.    *)
(***************************************************************************)
Answer(c) ==
  /\ c \in busy
  /\ \/ \E b \in Budgets, reset \in 0 .. MaxReset :
          Process(queue, [observed EXCEPT ![b] = reset], timer, busy \ {c})
     \/ /\ busy' = busy \ {c}
        /\ UNCHANGED <<queue, requestTimes, recordEvents, observed, timer, log>>

(* The timer has run out; it may be late, never early. *)
Fire ==
  /\ timer = 0
  /\ Process(queue, observed, NoTimer, busy)

(* Time passes. *)
RateTick ==
  /\ requestTimes' = [i \in DOMAIN requestTimes |-> Smaller(requestTimes[i] + 1, MINUTE + 1)]
  /\ recordEvents' = [i \in DOMAIN recordEvents |->
                        [recordEvents[i] EXCEPT !.age = Smaller(@ + 1, Old)]]
  /\ LET older == [i \in DOMAIN log |-> [log[i] EXCEPT !.age = @ + 1]]
     IN log' = From(older, {i \in DOMAIN older : older[i].age < HOUR})
  /\ observed' = [b \in Budgets |-> Larger(observed[b] - 1, 0)]
  /\ timer' = IF timer = NoTimer THEN NoTimer ELSE Larger(timer - 1, 0)
  /\ UNCHANGED <<queue, busy>>

RateNext == (\E c \in Callers : Acquire(c) \/ Abort(c) \/ Answer(c)) \/ Fire \/ RateTick

RateSpec == RateInit /\ [][RateNext]_rateVars

(* Time passes and setTimeout calls back. *)
RateFairness == WF_rateVars(RateTick) /\ WF_rateVars(Fire)

RateFairSpec == RateSpec /\ RateFairness

-----------------------------------------------------------------------------
(* The grants with those too large for any hour counted as nothing. *)
Modest(events) ==
  [i \in DOMAIN events |-> IF events[i].cost <= MaxRecordsPerHour THEN events[i]
                           ELSE [events[i] EXCEPT !.cost = 0]]

(* No minute sees more than MaxPerMinute grants, and no hour more than     *)
(* MaxRecordsPerHour records granted, requests too large for any hour      *)
(* aside, whatever aborts, answers and grants changed while others waited  *)
(* (rate-limit/index.ts).                                                  *)
BudgetsKept ==
  /\ Cardinality({i \in DOMAIN log : log[i].age < MINUTE}) <= MaxPerMinute
  /\ Total(Modest(log)) <= MaxRecordsPerHour

(* Every waiter is granted or gives up, also one too large for the budget. *)
NoStarvation == \A c \in Callers : Waits(c) ~> ~Waits(c)
=============================================================================
