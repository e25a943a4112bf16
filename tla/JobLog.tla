--------------------------------- MODULE JobLog ---------------------------------
(***************************************************************************)
(* What is on record of the work done: the jobs manager keeps the latest   *)
(* jobs an operator started, in memory (internal/usecase/jobs), and the    *)
(* run log keeps a row of every sync and scheduled send, and of what other *)
(* programs report, for a while (internal/usecase/taskruns, restapi/v1).   *)
(*                                                                         *)
(* Abstractions: what a job does is MediaSync's, ScheduledSend's and       *)
(* Delivery's part; here it comes out one way or another.  Labels, details *)
(* and audit rows are left out.                                            *)
(***************************************************************************)
EXTENDS Naturals, FiniteSets, SequencesExt

CONSTANTS MaxJobs,    \* maxJobs
          Retention,  \* how long a run is kept
          MaxWork,    \* bound: jobs, scheduled runs and reports of other programs
          MaxLogTime, MaxLogFailures   \* bounds: the clock, failing queries and restarts

\* What is assumed of the constants.
ASSUME JobLogAssumption ==
  /\ MaxJobs \in Nat \ {0} /\ Retention \in Nat
  /\ MaxWork \in Nat /\ MaxLogTime \in Nat /\ MaxLogFailures \in Nat

VARIABLES
  recent,    \* m.recent: ids of jobs, oldest first
  job,       \* a job's record and goroutine, by id; m.seq is their number
  runs,      \* task_runs: [started, status, finished] of each id in it
  book,      \* history: of each run ever inserted, when it started, its job and what
             \* was last said of it
  time, bounds

jobLog == <<recent, job, runs, book, time, bounds>>

Statuses == {"running", "succeeded", "failed"}
Kinds    == {"sync", "schedule_send", "send_test"}
NoJob    == 0    \* a scheduled run, or another program's

LoggingInit ==
  /\ recent = <<>> /\ job = <<>> /\ runs = [i \in {} |-> 0] /\ book = <<>> /\ time = 0
  /\ bounds = [work |-> 0, failures |-> 0]

Bump(what, bound) == bounds[what] < bound /\ bounds' = [bounds EXCEPT ![what] = @ + 1]

\* The latest MaxJobs of s.
LastJobs(s) == IF Len(s) > MaxJobs THEN SubSeq(s, Len(s) - MaxJobs + 1, Len(s)) ELSE s

-----------------------------------------------------------------------------
\* Start, under mu.
Start(kind) ==
  /\ Bump("work", MaxWork)
  /\ job' = Append(job, [kind |-> kind, status |-> "running", pc |-> "work", outcome |-> "ok",
                         begun |-> time])
  /\ recent' = LastJobs(Append(recent, Len(job) + 1))
  /\ UNCHANGED <<runs, book, time>>

\* List: the newest first.
List == Reverse(recent)

\* What comes of the work: a send may also pick an album and post nothing of it,
\* which a preview reports as an error.
TriggerSyncNow     == {"ok", "error"}
TriggerScheduleNow == {"ok", "undelivered", "error"}
SendRuleTest       == {"ok", "error"}
Outcomes(kind) ==
  CASE kind = "sync" -> TriggerSyncNow
    [] kind = "schedule_send" -> TriggerScheduleNow
    [] OTHER -> SendRuleTest

\* Where the goroutine goes from its work: syncs and scheduled sends are recorded, and
\* previews are not.  The faulty variant returns an error before it is recorded.
RecordedIfWell(kind, outcome) == kind # "send_test" /\ outcome # "error"
Recorded(kind, outcome) == kind # "send_test"

Work(j) ==
  /\ job[j].pc = "work"
  /\ \E o \in Outcomes(job[j].kind) :
       job' = [job EXCEPT ![j].outcome = o,
                          ![j].pc = IF Recorded(job[j].kind, o) THEN "record" ELSE "finish"]
  /\ UNCHANGED <<recent, runs, book, time, bounds>>

\* The finish time Normalize gives a status: "running" has none.
IsOver(status) == status # "running"

\* Record, by the goroutine of a job or by nobody's: a row under the next id.
Record(status, started, j) ==
  /\ runs' = [i \in DOMAIN runs \cup {Len(book) + 1} |->
                IF i \in DOMAIN runs THEN runs[i]
                ELSE [started |-> started, status |-> status, finished |-> IsOver(status)]]
  /\ book' = Append(book, [started |-> started, job |-> j, said |-> status])

\* recordSyncRun and doScheduledSend; a failing insert is logged and swallowed.
RecordRun(j) ==
  /\ job[j].pc = "record" /\ job' = [job EXCEPT ![j].pc = "finish"]
  /\ \/ /\ Record(IF job[j].outcome = "ok" THEN "succeeded" ELSE "failed", job[j].begun, j)
        /\ UNCHANGED bounds
     \/ Bump("failures", MaxLogFailures) /\ UNCHANGED <<runs, book>>
  /\ UNCHANGED <<recent, time>>

\* The goroutine's last step, under mu; the job may have left the list long before.
Finish(j) ==
  /\ job[j].pc = "finish"
  /\ job' = [job EXCEPT ![j].pc = "done",
                        ![j].status = IF job[j].outcome = "error" THEN "failed" ELSE "succeeded"]
  /\ UNCHANGED <<recent, runs, book, time, bounds>>

\* A run of the sync scheduler or of a rule: recorded the same way, and no job.
ScheduledRun(status) ==
  /\ IsOver(status) /\ Bump("work", MaxWork) /\ Record(status, time, NoJob)
  /\ UNCHANGED <<recent, job, time>>

\* createRun: another program reports a run, begun now or a while ago.
createRun(status, started) ==
  /\ Bump("work", MaxWork) /\ Record(status, started, NoJob)
  /\ UNCHANGED <<recent, job, time>>

\* The row a report on run i leaves; the faulty variant keeps the finish time it has.
StaysOver(i, status) ==
  [runs[i] EXCEPT !.status = status, !.finished = @ \/ IsOver(status)]
Completed(i, status) ==
  [runs[i] EXCEPT !.status = status, !.finished = IsOver(status)]

\* updateRun: it reports on one of its runs, late or again or to reopen it; a run that
\* has been pruned is not found.
updateRun(i, status) ==
  /\ i \in DOMAIN book /\ book[i].job = NoJob /\ Bump("work", MaxWork)
  /\ IF i \in DOMAIN runs
     THEN runs' = [runs EXCEPT ![i] = Completed(i, status)] /\ book' = [book EXCEPT ![i].said = status]
     ELSE UNCHANGED <<runs, book>>
  /\ UNCHANGED <<recent, job, time>>

Expired(i) == runs[i].started + Retention < time

\* A sweep of runTaskRunRetention, running or not.
Prune ==
  /\ \E i \in DOMAIN runs : Expired(i)
  /\ runs' = [i \in {k \in DOMAIN runs : ~Expired(k)} |-> runs[i]]
  /\ UNCHANGED <<recent, job, book, time, bounds>>

LogTick == time < MaxLogTime /\ time' = time + 1 /\ UNCHANGED <<recent, job, runs, book, bounds>>

\* A restart: the manager is new, and counts from 1 again.  (Histories speak of the
\* jobs of this process only.)
RestartManager ==
  /\ Bump("failures", MaxLogFailures) /\ recent' = <<>> /\ job' = <<>>
  /\ book' = [i \in DOMAIN book |-> IF book[i].job = NoJob THEN book[i]
                                    ELSE [book[i] EXCEPT !.job = NoJob]]
  /\ UNCHANGED <<runs, time>>

LoggingNext ==
  \/ \E k \in Kinds : Start(k)
  \/ \E j \in DOMAIN job : Work(j) \/ RecordRun(j) \/ Finish(j)
  \/ \E s \in Statuses :
       \/ ScheduledRun(s)
       \/ \E t \in 0 .. time : createRun(s, t)
       \/ \E i \in 1 .. MaxWork : updateRun(i, s)
  \/ Prune \/ LogTick \/ RestartManager

LoggingSpec == LoggingInit /\ [][LoggingNext]_jobLog

-----------------------------------------------------------------------------
(* Properties                                                              *)

LoggingTypeOK ==
  /\ recent \in Seq(DOMAIN job)
  /\ \A j \in DOMAIN job : job[j].kind \in Kinds /\ job[j].status \in Statuses
                           /\ job[j].pc \in {"work", "record", "finish", "done"}
  /\ DOMAIN runs \subseteq DOMAIN book
  /\ \A i \in DOMAIN runs : runs[i].status \in Statuses /\ runs[i].finished \in BOOLEAN
  /\ time \in 0 .. MaxLogTime

\* The jobs page shows the latest MaxJobs jobs of this process, the newest first, as
\* running until their goroutines are through.
ListShowsLatest ==
  /\ Len(List) = IF Len(job) < MaxJobs THEN Len(job) ELSE MaxJobs
  /\ \A i \in DOMAIN List : /\ List[i] = Len(job) - i + 1
                            /\ job[List[i]].status = "running" <=> job[List[i]].pc # "done"

\* A job that synced or sent and is over has a single run in the log, of the same
\* verdict, except that a send that posted nothing is a success to the manager and a
\* failure in the log; it has none only if the insert failed.
FinishedJobsLeaveARun ==
  \A j \in DOMAIN job :
    LET mine == {i \in DOMAIN book : book[i].job = j}
    IN  (job[j].kind # "send_test" /\ job[j].status # "running") =>
          /\ Cardinality(mine) <= 1 /\ (mine = {} => bounds.failures > 0)
          /\ \A i \in mine : book[i].said = job[j].status \/ job[j].outcome = "undelivered"

(***************************************************************************)
(* No job goes untraced: the jobs page shows the latest ones, whichever    *)
(* end first and however many run, and what it forgets is in the run log.  *)
(***************************************************************************)
JobsLeaveATrace == ListShowsLatest /\ FinishedJobsLeaveARun

(***************************************************************************)
(* The log is the last that was said of each run: reports that come late,  *)
(* twice or out of order leave no run that is over and running, and a run  *)
(* leaves the log only once it is Retention old.                           *)
(***************************************************************************)
RunLogAgrees ==
  \A i \in DOMAIN book :
    IF i \in DOMAIN runs
    THEN runs[i].status = book[i].said /\ (runs[i].finished <=> book[i].said # "running")
    ELSE book[i].started + Retention < time
================================================================================
