---------------------------- MODULE ReportLifecycle ----------------------------
(***************************************************************************)
(* One run of a report tool (mcp-server/src/tools/reports) over the reports *)
(* API of the SDK (sdk/src/reports/api.ts, reportmgmt/lifecycle.ts): submit *)
(* a job, poll it under a deadline with a growing delay, collect its pages  *)
(* or download its file, and the status tool that goes on with a report     *)
(* that was still pending.  The file comes through FtpDownload.             *)
(* A row of a file is one byte of FtpDownload.                              *)
(***************************************************************************)
EXTENDS FtpDownload

CONSTANTS
  Limits,       \* the row limits a caller may ask for
  Rows,         \* the numbers of rows a paged report may have
  PageSize,     \* REPORT_RESULT_PAGE_SIZE
  Budget,       \* timeoutMs of the tool, in ticks
  StatusBudget, \* the wait of the status tool
  FirstPoll,    \* pollIntervalMs
  LastPoll,     \* maxPollIntervalMs
  MaxAttempts   \* retry.maxAttempts of a read

ASSUME LifecycleAssumption ==
  /\ PageSize \in Nat \ {0} /\ Limits \subseteq Nat \ {0} /\ Rows \subseteq Nat
  /\ FirstPoll \in Nat \ {0} /\ LastPoll \in Nat /\ FirstPoll <= LastPoll
  /\ MaxAttempts \in Nat \ {0} /\ Budget \in Nat /\ StatusBudget \in Nat

VARIABLES
  jobs,     \* the report jobs at Newegg, in the order of their submission
  content,  \* rows of a paged report, once Newegg has made it
  call      \* the tool's run

vars == <<jobs, content, call, ftpVars>>

Least(a, b) == IF a <= b THEN a ELSE b
Most(a, b) == IF a >= b THEN a ELSE b
Pages(n) == (n + PageSize - 1) \div PageSize

States == {"submitted", "inProgress", "finished", "cancelled"}
Waiting == {"submit", "poll", "sleep", "page", "fetch", "file", "status"}
NoAnswer == [is |-> "none", rows |-> 0, total |-> 0, more |-> FALSE]
Answers == [is : {"none", "rows", "pending", "cancelled", "error", "aborted", "state"},
            rows : Nat, total : Nat, more : BOOLEAN]

TypeOK ==
  /\ jobs \in Seq(States)
  /\ content \in Rows \cup {0}
  /\ call \in [pc : {"idle", "done"} \cup Waiting, file : BOOLEAN, limit : Limits \cup {0},
               id : Nat, attempt : 0 .. MaxAttempts, poll : Nat, left : Nat, nap : Nat,
               pages : Nat, rows : Nat, kept : Answers, answer : Answers,
               resumed : BOOLEAN]
  /\ FtpTypeOK

Init ==
  /\ jobs = <<>>
  /\ content = 0
  /\ call = [pc |-> "idle", file |-> FALSE, limit |-> 0, id |-> 0, attempt |-> 0, poll |-> 0,
             left |-> 0, nap |-> 0, pages |-> 0, rows |-> 0,
             kept |-> NoAnswer, answer |-> NoAnswer, resumed |-> FALSE]
  /\ FtpInit

Done(answer) == call' = [call EXCEPT !.pc = "done", !.answer = answer, !.kept = NoAnswer,
                                     !.attempt = 0, !.poll = 0, !.left = 0, !.nap = 0]
DoneAs(is) == Done([NoAnswer EXCEPT !.is = is])

---------------------------------------------------------------------------
(* Requests are reads: a retryable failure is tried again, the rest ends   *)
(* the run. A submission may reach Newegg and still fail.                   *)

Submit(file, limit, valid) ==
  /\ call.pc = "idle"
  /\ IF valid THEN call' = [call EXCEPT !.pc = "submit", !.file = file, !.limit = limit]
     ELSE DoneAs("error")
  /\ UNCHANGED <<jobs, content, ftpVars>>

RequestFails ==
  /\ call.pc \in {"submit", "poll", "page", "fetch", "status"}
  /\ \/ /\ call.attempt + 1 < MaxAttempts
        /\ call' = [call EXCEPT !.attempt = @ + 1]
     \/ DoneAs("error")
  /\ jobs' \in IF call.pc = "submit" THEN {jobs, Append(jobs, "submitted")} ELSE {jobs}
  /\ UNCHANGED <<content, ftpVars>>

\* The wait starts: deadline and first delay.
Wait(id, budget) ==
  call' = [call EXCEPT !.pc = "poll", !.id = id, !.attempt = 0, !.poll = FirstPoll,
                       !.left = budget]

\* The answer to the submission names the job, or has no request id.
Submitted ==
  /\ call.pc = "submit"
  /\ jobs' = Append(jobs, "submitted")
  /\ Wait(Len(jobs'), Budget) \/ DoneAs("error")
  /\ UNCHANGED <<content, ftpVars>>

---------------------------------------------------------------------------
(* Polling.                                                                *)

\* What a status answer says of the job: its state, or nothing the code knows.
Known(id) == {jobs[id], "unknown"}

Grown(poll) == Least(LastPoll, Most(1, (3 * poll + 1) \div 2))

TooLate(poll) == poll > call.left

\* The wait is over, and with it what it counted.
Finished == [call EXCEPT !.pc = IF call.file THEN "fetch" ELSE "page", !.attempt = 0,
                         !.poll = 0, !.left = 0, !.resumed = FALSE]
Sleeping == [call EXCEPT !.pc = "sleep", !.nap = call.poll, !.poll = Grown(call.poll)]

Polled ==
  /\ call.pc = "poll"
  /\ \E state \in Known(call.id) :
       \/ /\ state = "finished"
          /\ call' = Finished
          /\ content' \in IF call.file THEN {0} ELSE Rows
       \/ /\ state = "cancelled" /\ DoneAs("cancelled")
          /\ UNCHANGED content
       \/ /\ state \notin {"finished", "cancelled"}
          /\ IF TooLate(call.poll) THEN DoneAs(IF call.resumed THEN "error" ELSE "pending")
             ELSE call' = Sleeping
          /\ UNCHANGED content
  /\ UNCHANGED <<jobs, ftpVars>>

Wake ==
  /\ call.pc = "sleep" /\ call.nap = 0
  /\ call' = [call EXCEPT !.pc = "poll", !.attempt = 0]
  /\ UNCHANGED <<jobs, content, ftpVars>>

---------------------------------------------------------------------------
(* The tool's answer: at most the limit of rows, and whether there are more. *)

ToolAnswer(rows, total) ==
  LET n == Least(rows, call.limit)
  IN [is |-> "rows", rows |-> n, total |-> total, more |-> n < total]

MaxPages == Most(1, Pages(call.limit))

\* Mutant: the last page is not fetched
LastPageEarly(page, count) == page + 1 >= count
LastPage(page, count) == page >= count

\* One page of the result. `kept` is what the SDK gives the tool.
PageArrives ==
  /\ call.pc = "page"
  /\ LET page == call.pages + 1
         n == call.rows + Most(0, Least(PageSize, content - call.pages * PageSize))
         last == LastPage(page, Pages(content))
         kept == [is |-> "rows", rows |-> n, total |-> Most(content, n), more |-> ~last]
     IN IF last \/ page >= MaxPages
        THEN call' = [call EXCEPT !.pc = "done", !.pages = page, !.kept = kept,
                                  !.answer = ToolAnswer(n, kept.total)]
        ELSE call' = [call EXCEPT !.pages = page, !.rows = n, !.attempt = 0]
  /\ UNCHANGED <<jobs, content, ftpVars>>

---------------------------------------------------------------------------
(* The file.                                                               *)

\* The result names the file, or not yet; the download starts.
FileNamed ==
  /\ call.pc = "fetch"
  /\ \/ /\ DoneAs("error") /\ UNCHANGED ftpVars
     \/ /\ call' = [call EXCEPT !.pc = "file"]
        /\ FtpStart
  /\ UNCHANGED <<jobs, content>>

\* An archive is only readable when its directory, at its end, arrived. A workbook is refused.
Readable(format) ==
  /\ format /= "xls"
  /\ format = "zip" => data.got = data.whole

FileArrives ==
  /\ call.pc = "file" /\ ftp.settled /= "no"
  /\ \E format \in {"text", "zip", "xls"} : LET n == Least(data.got, call.limit) IN
     IF ftp.settled = "bytes" /\ Readable(format)
     THEN call' = [call EXCEPT !.pc = "done", !.answer = ToolAnswer(n, data.got),
                     !.kept = [is |-> "rows", rows |-> n, total |-> data.got, more |-> n < data.got]]
     ELSE DoneAs(IF ftp.settled = "aborted" THEN "aborted" ELSE "error")
  /\ UNCHANGED <<jobs, content, ftpVars>>

---------------------------------------------------------------------------
(* The status tool goes on with a pending report: one look at the state,   *)
(* and the wait again, shorter, when it is finished.                        *)

Resume ==
  /\ call.pc = "done" /\ call.answer.is = "pending" /\ ~call.resumed
  /\ call' = [call EXCEPT !.pc = "status", !.resumed = TRUE, !.attempt = 0, !.answer = NoAnswer]
  /\ UNCHANGED <<jobs, content, ftpVars>>

StatusKnown ==
  /\ call.pc = "status"
  /\ \E state \in Known(call.id) :
       IF state = "finished" THEN Wait(call.id, StatusBudget) ELSE DoneAs("state")
  /\ UNCHANGED <<jobs, content, ftpVars>>

Abort ==
  /\ call.pc \in {"submit", "poll", "sleep", "page", "fetch", "status"}
  /\ DoneAs("aborted")
  /\ UNCHANGED <<jobs, content, ftpVars>>

---------------------------------------------------------------------------
(* Newegg and time.                                                        *)

\* The job the run asks about moves on; nobody asks about one whose submission failed.
Progress ==
  /\ call.id \in DOMAIN jobs /\ call.pc \in {"poll", "sleep", "status", "done"}
  /\ \/ jobs[call.id] = "submitted" /\ jobs' = [jobs EXCEPT ![call.id] = "inProgress"]
     \/ jobs[call.id] = "inProgress" /\ \E s \in {"finished", "cancelled"} :
                                          jobs' = [jobs EXCEPT ![call.id] = s]
  /\ UNCHANGED <<content, call, ftpVars>>

\* Time is what is left of the budget and of the delay. A late timer is a late Wake.
Tick ==
  /\ call.pc \in {"poll", "sleep"} /\ call.left > 0
  /\ call' = [call EXCEPT !.left = @ - 1, !.nap = Most(0, @ - 1)]
  /\ UNCHANGED <<jobs, content, ftpVars>>

Begin == \E file, valid \in BOOLEAN, limit \in Limits : Submit(file, limit, valid)

Answered == RequestFails \/ Submitted \/ Polled \/ PageArrives \/ FileNamed \/ StatusKnown

Downloading == call.pc \in {"file", "done"} /\ (Work \/ Server \/ Timeout \/ FtpAbort)
               /\ UNCHANGED <<jobs, content, call>>

Next ==
  \/ Begin \/ Answered \/ Wake \/ FileArrives \/ Resume \/ Abort
  \/ Progress \/ Tick \/ Downloading

\* A request settles, a due timer fires, the timer of the download fires, time passes.
Fairness ==
  /\ WF_vars(Answered) /\ WF_vars(Wake) /\ WF_vars(FileArrives) /\ WF_vars(Tick)
  /\ WF_vars(Timeout /\ UNCHANGED <<jobs, content, call>>)

Spec == Init /\ [][Next]_vars /\ Fairness

---------------------------------------------------------------------------

\* A report that is not marked as cut off is complete: what the SDK kept and what the tool
\* answers. The file is complete as far as its length could be compared, and never longer than
\* the limit: a connection cut short looks like a complete one (ftp.ts:447-481, 526).
NothingMissing ==
  /\ ~call.file /\ call.kept.is = "rows" =>
       /\ ~call.kept.more => call.kept.rows = content
       /\ ~call.answer.more => call.answer.rows = content
  /\ call.file /\ call.answer.is = "rows" /\ ~call.answer.more /\ (ftp.ftps \/ ftp.size /= None) =>
       call.answer.rows = data.whole
  /\ ftp.settled = "bytes" => /\ data.got <= MaxBytes
                              /\ (ftp.ftps \/ ftp.size /= None) => data.got = data.whole

\* Every run of a tool ends.
RunEnds == call.pc \in Waiting ~> call.pc = "done"
================================================================================
