----------------------------- MODULE ConsoleProofs -----------------------------
(***************************************************************************)
(* Proofs about what the dashboard shows, in any number of requests: the  *)
(* jobs and the run log (JobLog), through restarts and prunings; the links *)
(* to media (Links), from a cache that expires; and the audit log          *)
(* (AdminConsole), with handlers that overlap.                             *)
(***************************************************************************)
EXTENDS JobLog, Links, AdminConsole, FiniteSetTheorems, TLAPS

-----------------------------------------------------------------------------
(* Types of the job log                                                    *)

JobState == [kind : Kinds, status : Statuses, pc : {"work", "record", "finish", "done"},
             outcome : {"ok", "undelivered", "error"}, begun : Nat]
RunRow   == [started : Nat, status : Statuses, finished : BOOLEAN]
Told     == [started : Nat, job : Nat, said : Statuses]

LogTypes ==
  /\ recent \in Seq(Nat) /\ job \in Seq(JobState)
  /\ DOMAIN runs \subseteq DOMAIN book /\ runs \in [DOMAIN runs -> RunRow]
  /\ book \in Seq(Told) /\ time \in Nat
  /\ bounds \in [work : Nat, failures : Nat]

\* The rows of the log say of the runs what their histories say, until they expire.
RowsAgree ==
  /\ RunLogAgrees
  /\ \A i \in DOMAIN runs : runs[i].started = book[i].started

\* The manager's list is the tail of its jobs.
RecentIsTail ==
  /\ Len(recent) <= MaxJobs /\ Len(recent) <= Len(job) /\ Len(recent) \in {MaxJobs, Len(job)}
  /\ \A i \in 1 .. Len(recent) : recent[i] = Len(job) - Len(recent) + i

\* A job has no run before it is recorded, and one after it, unless the insert failed.
RunsOfJobs ==
  /\ \A i \in DOMAIN book : book[i].job <= Len(job)
  /\ \A i, k \in DOMAIN book : book[i].job = book[k].job /\ book[i].job # NoJob => i = k
  /\ \A j \in DOMAIN job :
       /\ job[j].status = IF job[j].pc # "done" THEN "running"
                          ELSE IF job[j].outcome = "error" THEN "failed" ELSE "succeeded"
       /\ job[j].pc \in {"work", "record"} => \A i \in DOMAIN book : book[i].job # j
       /\ \A i \in DOMAIN book : book[i].job = j =>
            book[i].said = IF job[j].outcome = "ok" THEN "succeeded" ELSE "failed"
       /\ job[j].pc \in {"finish", "done"} /\ job[j].kind # "send_test" =>
            bounds.failures > 0 \/ \E i \in DOMAIN book : book[i].job = j

LogInv == LogTypes /\ RowsAgree /\ RecentIsTail /\ RunsOfJobs

\* A row that Record inserts keeps the types, and agrees with its history.
LEMMA RecordAgrees ==
  ASSUME LogTypes, RowsAgree, NEW status \in Statuses, NEW started \in Nat, NEW j \in Nat,
         Record(status, started, j)
  PROVE  /\ DOMAIN runs' \subseteq DOMAIN book' /\ runs' \in [DOMAIN runs' -> RunRow]
         /\ book' \in Seq(Told) /\ Len(book') = Len(book) + 1
         /\ \A i \in 1 .. Len(book) : book'[i] = book[i]
         /\ book'[Len(book) + 1] = [started |-> started, job |-> j, said |-> status]
         /\ UNCHANGED time => RowsAgree'
<1> DEFINE new == [started |-> started, job |-> j, said |-> status]
<1>1. new \in Told
  BY DEF Told
<1>2. book \in Seq(Told) /\ book' = Append(book, new)
  BY DEF LogTypes, Record
<1>3. /\ book' \in Seq(Told) /\ Len(book') = Len(book) + 1
      /\ \A i \in 1 .. Len(book) : book'[i] = book[i]
      /\ book'[Len(book) + 1] = new
      /\ DOMAIN book = 1 .. Len(book) /\ DOMAIN book' = 1 .. (Len(book) + 1) /\ Len(book) \in Nat
  <2> HIDE DEF new
  <2> QED BY <1>1, <1>2
<1>4. /\ DOMAIN runs \subseteq 1 .. Len(book) /\ runs \in [DOMAIN runs -> RunRow]
      /\ DOMAIN runs' = DOMAIN runs \cup {Len(book) + 1}
      /\ \A i \in DOMAIN runs : runs'[i] = runs[i]
      /\ runs'[Len(book) + 1] = [started |-> started, status |-> status, finished |-> IsOver(status)]
  BY <1>3 DEF LogTypes, Record
<1>5. runs' \in [DOMAIN runs' -> RunRow]
  <2>1. [started |-> started, status |-> status, finished |-> IsOver(status)] \in RunRow
    BY DEF RunRow, IsOver
  <2> QED BY <1>4, <2>1 DEF Record
<1>6. ASSUME UNCHANGED time
      PROVE  RowsAgree'
  <2>1. ASSUME NEW i \in 1 .. Len(book)
        PROVE  IF i \in DOMAIN runs'
               THEN /\ runs'[i].status = book'[i].said
                    /\ runs'[i].finished <=> book'[i].said # "running"
                    /\ runs'[i].started = book'[i].started
               ELSE book'[i].started + Retention < time'
    BY <1>3, <1>4, <1>6 DEF RowsAgree, RunLogAgrees
  <2>2. LET i == Len(book) + 1
        IN  /\ i \in DOMAIN runs' /\ runs'[i].status = book'[i].said
            /\ runs'[i].finished <=> book'[i].said # "running"
            /\ runs'[i].started = book'[i].started
    <3>1. runs'[Len(book) + 1].finished = IsOver(status)
      BY <1>4
    <3>2. runs'[Len(book) + 1].finished <=> status # "running"
      BY <3>1 DEF IsOver
    <3> QED BY <1>3, <1>4, <3>2
  <2> QED BY <1>3, <1>4, <2>1, <2>2 DEF RowsAgree, RunLogAgrees
<1> QED BY <1>3, <1>4, <1>5, <1>6

\* The log at the start.
LEMMA LogInvInit == JobLogAssumption /\ LoggingInit => LogInv
<1> SUFFICES ASSUME JobLogAssumption, LoggingInit
             PROVE  LogInv
  OBVIOUS
<1>1. /\ recent = <<>> /\ job = <<>> /\ book = <<>> /\ time = 0 /\ DOMAIN runs = {}
      /\ bounds = [work |-> 0, failures |-> 0]
  BY DEF LoggingInit
<1>2. Len(recent) = 0 /\ Len(job) = 0 /\ DOMAIN job = {} /\ DOMAIN book = {}
  BY <1>1
<1>3. LogTypes
  BY <1>1 DEF LoggingInit, LogTypes
<1>4. RowsAgree
  BY <1>1, <1>2 DEF RowsAgree, RunLogAgrees
<1>5. RecentIsTail
  BY <1>2 DEF JobLogAssumption, RecentIsTail
<1>6. RunsOfJobs
  BY <1>2 DEF RunsOfJobs
<1> QED BY <1>3, <1>4, <1>5, <1>6 DEF LogInv

\* A bounded step counts.
LEMMA BumpTyped ==
  ASSUME LogTypes, NEW what \in {"work", "failures"}, NEW n, Bump(what, n)
  PROVE  /\ bounds' \in [work : Nat, failures : Nat]
         /\ bounds.failures > 0 => bounds'.failures > 0
         /\ what = "failures" => bounds'.failures > 0
BY DEF Bump, LogTypes

\* A job starts: the list gains it, and drops the oldest if it is full.
LEMMA StartKeeps ==
  ASSUME JobLogAssumption, LogInv, NEW kind \in Kinds, Start(kind)
  PROVE  LogInv'
<1> DEFINE new == [kind |-> kind, status |-> "running", pc |-> "work", outcome |-> "ok",
                   begun |-> time]
           longer == Append(recent, Len(job) + 1)
<1>1. LogTypes /\ RowsAgree /\ RecentIsTail /\ RunsOfJobs /\ MaxJobs \in Nat \ {0}
  BY DEF LogInv, JobLogAssumption
<1>2. new \in JobState
  BY <1>1 DEF JobState, Statuses, LogTypes
<1>3. /\ job' \in Seq(JobState) /\ Len(job') = Len(job) + 1 /\ Len(job) \in Nat
      /\ DOMAIN job = 1 .. Len(job) /\ DOMAIN job' = 1 .. (Len(job) + 1)
      /\ \A j \in 1 .. Len(job) : job'[j] = job[j]
      /\ job'[Len(job) + 1] = new
  <2>1. job' = Append(job, new) /\ job \in Seq(JobState)
    BY <1>1 DEF Start, LogTypes
  <2> HIDE DEF new
  <2> QED BY <1>2, <2>1
<1>4. /\ longer \in Seq(Nat) /\ Len(longer) = Len(recent) + 1 /\ Len(recent) \in Nat
      /\ \A i \in 1 .. Len(recent) : longer[i] = recent[i]
      /\ longer[Len(recent) + 1] = Len(job) + 1
  BY <1>1, <1>3 DEF LogTypes
<1>5. recent' = LastJobs(longer)
  BY DEF Start
<1>6. recent' \in Seq(Nat) /\ RecentIsTail'
  <2>1. CASE Len(recent) + 1 <= MaxJobs
    <3>1. recent' = longer
      BY <1>1, <1>4, <1>5, <2>1 DEF LastJobs
    <3>2. Len(recent) = Len(job)
      BY <1>1, <1>3, <1>4, <2>1 DEF RecentIsTail
    <3>3. \A i \in 1 .. Len(recent) : recent[i] = i
      BY <1>1, <1>3, <1>4, <3>2 DEF RecentIsTail
    <3> HIDE DEF longer
    <3> QED BY <1>1, <1>3, <1>4, <2>1, <3>1, <3>2, <3>3 DEF RecentIsTail
  <2>2. CASE Len(recent) + 1 > MaxJobs
    <3>1. Len(recent) = MaxJobs
      BY <1>1, <1>3, <1>4, <2>2 DEF RecentIsTail
    <3> HIDE DEF longer
    <3>2. recent' = SubSeq(longer, 2, MaxJobs + 1)
      <4>1. Len(longer) > MaxJobs /\ Len(longer) - MaxJobs + 1 = 2 /\ Len(longer) = MaxJobs + 1
        BY <1>1, <1>4, <3>1
      <4> QED BY <1>5, <4>1 DEF LastJobs
    <3>3. /\ recent' \in Seq(Nat) /\ Len(recent') = MaxJobs
          /\ \A i \in 1 .. MaxJobs : recent'[i] = longer[i + 1]
      BY <1>1, <1>4, <3>1, <3>2
    <3>4. \A i \in 1 .. MaxJobs : longer[i + 1] = Len(job) + 1 - MaxJobs + i
      <4>1. ASSUME NEW i \in 1 .. MaxJobs, i < MaxJobs
            PROVE  longer[i + 1] = Len(job) + 1 - MaxJobs + i
        <5>1. i + 1 \in 1 .. Len(recent) /\ longer[i + 1] = recent[i + 1]
          BY <1>1, <1>4, <3>1, <4>1
        <5>2. recent[i + 1] = Len(job) - Len(recent) + (i + 1)
          BY <1>1, <5>1 DEF RecentIsTail
        <5> QED BY <1>1, <1>3, <3>1, <5>1, <5>2
      <4>2. longer[MaxJobs + 1] = Len(job) + 1 - MaxJobs + MaxJobs
        BY <1>1, <1>3, <1>4, <3>1
      <4> QED BY <1>1, <4>1, <4>2
    <3>5. MaxJobs <= Len(job)
      BY <1>1, <1>3, <3>1 DEF RecentIsTail
    <3>6. Len(recent') <= MaxJobs /\ Len(recent') <= Len(job') /\ Len(recent') \in {MaxJobs, Len(job')}
      BY <1>1, <1>3, <3>3, <3>5
    <3>7. ASSUME NEW i \in 1 .. MaxJobs
          PROVE  recent'[i] = Len(job') - Len(recent') + i
      <4>1. recent'[i] = Len(job) + 1 - MaxJobs + i
        BY <3>3, <3>4
      <4>2. Len(job') = Len(job) + 1 /\ Len(recent') = MaxJobs
        BY <1>3, <3>3
      <4> QED BY <4>1, <4>2
    <3> QED BY <3>3, <3>6, <3>7 DEF RecentIsTail
  <2> QED BY <1>1, <1>4, <2>1, <2>2
<1>7. LogTypes'
  BY <1>1, <1>3, <1>6, BumpTyped DEF LogTypes, Start
<1>8. RowsAgree'
  BY <1>1 DEF RowsAgree, RunLogAgrees, Start
<1>9. RunsOfJobs'
  <2>1. UNCHANGED book /\ (bounds.failures > 0 => bounds'.failures > 0)
    BY <1>1, BumpTyped DEF Start
  <2>2. \A i \in DOMAIN book : book[i].job \in Nat
    <3>1. \A i \in DOMAIN book : book[i] \in Told
      BY <1>1 DEF LogTypes
    <3> QED BY <3>1 DEF Told
  <2> QED BY <1>1, <1>3, <2>1, <2>2 DEF RunsOfJobs
<1> QED BY <1>6, <1>7, <1>8, <1>9 DEF LogInv

\* What a step of job j's goroutine does to the list of jobs.
LEMMA JobStep ==
  ASSUME LogTypes, NEW j \in DOMAIN job, NEW new \in JobState, job' = [job EXCEPT ![j] = new]
  PROVE  /\ job' \in Seq(JobState) /\ Len(job') = Len(job) /\ DOMAIN job' = DOMAIN job
         /\ job'[j] = new /\ \A k \in DOMAIN job : k # j => job'[k] = job[k]
BY DEF LogTypes

\* Its work comes out one way or another, and then the job ends: no row is written.
LEMMA WorkOrFinishKeeps ==
  ASSUME LogInv, NEW j \in DOMAIN job, Work(j) \/ Finish(j)
  PROVE  LogInv'
<1>1. LogTypes /\ RowsAgree /\ RecentIsTail /\ RunsOfJobs /\ job[j] \in JobState
  BY DEF LogInv, LogTypes
<1>2. PICK new \in JobState :
        /\ job' = [job EXCEPT ![j] = new] /\ new.kind = job[j].kind
        /\ new.status = IF new.pc # "done" THEN "running"
                        ELSE IF new.outcome = "error" THEN "failed" ELSE "succeeded"
        /\ \/ job[j].pc = "work" /\ new.pc = "record"
           \/ job[j].pc = "work" /\ new.pc = "finish" /\ new.kind = "send_test"
           \/ job[j].pc = "finish" /\ new.pc = "done" /\ new.outcome = job[j].outcome
  <2>1. CASE Work(j)
    <3>1. PICK o \in {"ok", "undelivered", "error"} :
            job' = [job EXCEPT ![j].outcome = o,
                               ![j].pc = IF Recorded(job[j].kind, o) THEN "record" ELSE "finish"]
      BY <2>1 DEF Work, Outcomes, TriggerSyncNow, TriggerScheduleNow, SendRuleTest
    <3> DEFINE new == [job[j] EXCEPT !.outcome = o,
                                     !.pc = IF Recorded(job[j].kind, o) THEN "record" ELSE "finish"]
    <3>2. job' = [job EXCEPT ![j] = new]
      BY <1>1, <3>1 DEF LogTypes
    <3>3. new \in JobState /\ job[j].pc = "work" /\ job[j].status = "running"
      BY <1>1, <2>1 DEF JobState, Work, RunsOfJobs
    <3>4. /\ new.kind = job[j].kind /\ new.status = "running"
          /\ new.pc = IF Recorded(job[j].kind, o) THEN "record" ELSE "finish"
      BY <1>1, <3>3 DEF JobState
    <3> HIDE DEF new
    <3> QED BY <3>2, <3>3, <3>4 DEF Recorded
  <2>2. CASE Finish(j)
    <3> DEFINE new == [job[j] EXCEPT !.pc = "done",
                         !.status = IF job[j].outcome = "error" THEN "failed" ELSE "succeeded"]
    <3>1. job' = [job EXCEPT ![j] = new] /\ job[j].pc = "finish"
      BY <1>1, <2>2 DEF Finish, LogTypes
    <3>2. /\ new \in JobState /\ new.kind = job[j].kind /\ new.pc = "done"
          /\ new.outcome = job[j].outcome
          /\ new.status = IF job[j].outcome = "error" THEN "failed" ELSE "succeeded"
      BY <1>1 DEF JobState, Statuses
    <3> HIDE DEF new
    <3> QED BY <3>1, <3>2
  <2> QED BY <2>1, <2>2
<1>3. UNCHANGED <<recent, runs, book, time, bounds>>
  BY DEF Work, Finish
<1>4. /\ job' \in Seq(JobState) /\ Len(job') = Len(job) /\ DOMAIN job' = DOMAIN job
      /\ job'[j] = new /\ \A k \in DOMAIN job : k # j => job'[k] = job[k]
  BY <1>1, <1>2, JobStep
<1>5. LogTypes'
  BY <1>1, <1>3, <1>4 DEF LogTypes
<1>6. RowsAgree' /\ RecentIsTail'
  BY <1>1, <1>3, <1>4 DEF RowsAgree, RunLogAgrees, RecentIsTail
<1>7. RunsOfJobs'
  BY <1>1, <1>2, <1>3, <1>4 DEF RunsOfJobs
<1> QED BY <1>5, <1>6, <1>7 DEF LogInv

\* A sync or a scheduled send is recorded, or its insert fails: its row is the only one.
LEMMA RecordRunKeeps ==
  ASSUME LogInv, NEW j \in DOMAIN job, RecordRun(j)
  PROVE  LogInv'
<1> DEFINE new == [job[j] EXCEPT !.pc = "finish"]
           verdict == IF job[j].outcome = "ok" THEN "succeeded" ELSE "failed"
<1>1. LogTypes /\ RowsAgree /\ RecentIsTail /\ RunsOfJobs /\ job[j] \in JobState
  BY DEF LogInv, LogTypes
<1>2. /\ new \in JobState /\ new.pc = "finish" /\ new.kind = job[j].kind
      /\ new.status = job[j].status /\ new.outcome = job[j].outcome
  BY <1>1 DEF JobState
<1>3. /\ job' = [job EXCEPT ![j] = new] /\ job[j].pc = "record" /\ UNCHANGED <<recent, time>>
      /\ \/ Record(verdict, job[j].begun, j) /\ UNCHANGED bounds
         \/ Bump("failures", MaxLogFailures) /\ UNCHANGED <<runs, book>>
  BY <1>1 DEF RecordRun, LogTypes
<1>4. /\ job' \in Seq(JobState) /\ Len(job') = Len(job) /\ DOMAIN job' = DOMAIN job
      /\ job'[j] = new /\ \A k \in DOMAIN job : k # j => job'[k] = job[k]
  BY <1>1, <1>2, <1>3, JobStep
<1>5. /\ Len(job) \in Nat /\ j \in Nat /\ j <= Len(job) /\ j # NoJob
      /\ verdict \in Statuses /\ job[j].begun \in Nat
  BY <1>1 DEF LogTypes, NoJob, Statuses, JobState
<1>6. RecentIsTail'
  BY <1>1, <1>3, <1>4 DEF RecentIsTail
<1> HIDE DEF new, verdict
<1>7. CASE Bump("failures", MaxLogFailures) /\ UNCHANGED <<runs, book>>
  <2>1. bounds' \in [work : Nat, failures : Nat] /\ bounds'.failures > 0
    BY <1>1, <1>7, BumpTyped
  <2>2. LogTypes'
    BY <1>1, <1>3, <1>4, <1>7, <2>1 DEF LogTypes
  <2>3. RowsAgree'
    BY <1>1, <1>3, <1>7 DEF RowsAgree, RunLogAgrees
  <2>4. RunsOfJobs'
    BY <1>1, <1>2, <1>3, <1>4, <1>7, <2>1 DEF RunsOfJobs
  <2> QED BY <1>6, <2>2, <2>3, <2>4 DEF LogInv
<1>8. CASE Record(verdict, job[j].begun, j) /\ UNCHANGED bounds
  <2> DEFINE added == [started |-> job[j].begun, job |-> j, said |-> verdict]
  <2>1. /\ DOMAIN runs' \subseteq DOMAIN book' /\ runs' \in [DOMAIN runs' -> RunRow]
        /\ book' \in Seq(Told) /\ Len(book') = Len(book) + 1
        /\ \A i \in 1 .. Len(book) : book'[i] = book[i]
        /\ book'[Len(book) + 1] = added /\ RowsAgree'
    BY <1>1, <1>3, <1>5, <1>8, RecordAgrees
  <2>2. LogTypes'
    BY <1>1, <1>3, <1>4, <1>8, <2>1 DEF LogTypes
  <2>3. /\ DOMAIN book = 1 .. Len(book) /\ DOMAIN book' = 1 .. (Len(book) + 1) /\ Len(book) \in Nat
        /\ added.job = j /\ added.said = verdict
    BY <1>1, <2>1 DEF LogTypes
  <2> HIDE DEF added
  <2>4. \A i \in DOMAIN book : book[i].job # j
    BY <1>1, <1>3 DEF RunsOfJobs
  <2>5. RunsOfJobs'
    <3>1. \A i \in DOMAIN book' : book'[i].job <= Len(job')
      BY <1>1, <1>4, <1>5, <2>1, <2>3 DEF RunsOfJobs
    <3>2. \A i, k \in DOMAIN book' : book'[i].job = book'[k].job /\ book'[i].job # NoJob => i = k
      BY <1>1, <2>1, <2>3, <2>4 DEF RunsOfJobs
    <3>3. ASSUME NEW k \in DOMAIN job, k # j
          PROVE  /\ job'[k].status = IF job'[k].pc # "done" THEN "running"
                                     ELSE IF job'[k].outcome = "error" THEN "failed" ELSE "succeeded"
                 /\ job'[k].pc \in {"work", "record"} => \A i \in DOMAIN book' : book'[i].job # k
                 /\ \A i \in DOMAIN book' : book'[i].job = k =>
                      book'[i].said = IF job'[k].outcome = "ok" THEN "succeeded" ELSE "failed"
                 /\ job'[k].pc \in {"finish", "done"} /\ job'[k].kind # "send_test" =>
                      bounds'.failures > 0 \/ \E i \in DOMAIN book' : book'[i].job = k
      <4>1. job'[k] = job[k]
        BY <1>4, <3>3
      <4>2. \A i \in DOMAIN book' : book'[i].job = k => i \in DOMAIN book /\ book'[i] = book[i]
        BY <2>1, <2>3, <3>3
      <4>3. \A i \in DOMAIN book : i \in DOMAIN book' /\ book'[i] = book[i]
        BY <2>1, <2>3
      <4>4. /\ job[k].status = IF job[k].pc # "done" THEN "running"
                               ELSE IF job[k].outcome = "error" THEN "failed" ELSE "succeeded"
            /\ job[k].pc \in {"work", "record"} => \A i \in DOMAIN book : book[i].job # k
            /\ \A i \in DOMAIN book : book[i].job = k =>
                 book[i].said = IF job[k].outcome = "ok" THEN "succeeded" ELSE "failed"
            /\ job[k].pc \in {"finish", "done"} /\ job[k].kind # "send_test" =>
                 bounds.failures > 0 \/ \E i \in DOMAIN book : book[i].job = k
        BY <1>1 DEF RunsOfJobs
      <4>5. job[k].pc \in {"work", "record"} => \A i \in DOMAIN book' : book'[i].job # k
        BY <4>2, <4>4
      <4>6. \A i \in DOMAIN book' : book'[i].job = k =>
              book'[i].said = IF job[k].outcome = "ok" THEN "succeeded" ELSE "failed"
        BY <4>2, <4>4
      <4>7. job[k].pc \in {"finish", "done"} /\ job[k].kind # "send_test" =>
              bounds'.failures > 0 \/ \E i \in DOMAIN book' : book'[i].job = k
        BY <1>8, <4>3, <4>4
      <4> QED BY <4>1, <4>4, <4>5, <4>6, <4>7
    <3>4. /\ new.status = "running" /\ new.pc = "finish"
          /\ \A i \in DOMAIN book' : book'[i].job = j => book'[i].said = verdict
          /\ \E i \in DOMAIN book' : book'[i].job = j
      BY <1>1, <1>2, <1>3, <2>1, <2>3, <2>4 DEF RunsOfJobs
    <3>5. verdict = IF new.outcome = "ok" THEN "succeeded" ELSE "failed"
      BY <1>2 DEF verdict
    <3> QED BY <1>4, <3>1, <3>2, <3>3, <3>4, <3>5 DEF RunsOfJobs
  <2> QED BY <1>6, <2>1, <2>2, <2>5 DEF LogInv
<1> QED BY <1>3, <1>7, <1>8

\* A run of a scheduler or of another program is recorded: it is no job's.
LEMMA NobodysRunKeeps ==
  ASSUME LogInv, NEW status \in Statuses, NEW started \in Nat,
         Bump("work", MaxWork), Record(status, started, NoJob), UNCHANGED <<recent, job, time>>
  PROVE  LogInv'
<1> DEFINE added == [started |-> started, job |-> NoJob, said |-> status]
<1>1. LogTypes /\ RowsAgree /\ RecentIsTail /\ RunsOfJobs /\ NoJob \in Nat
  BY DEF LogInv, NoJob
<1>2. /\ DOMAIN runs' \subseteq DOMAIN book' /\ runs' \in [DOMAIN runs' -> RunRow]
      /\ book' \in Seq(Told) /\ Len(book') = Len(book) + 1
      /\ \A i \in 1 .. Len(book) : book'[i] = book[i]
      /\ book'[Len(book) + 1] = added /\ RowsAgree'
  BY <1>1, RecordAgrees
<1>3. bounds' \in [work : Nat, failures : Nat] /\ (bounds.failures > 0 => bounds'.failures > 0)
  BY <1>1, BumpTyped
<1>4. LogTypes' /\ RecentIsTail'
  BY <1>1, <1>2, <1>3 DEF LogTypes, RecentIsTail
<1>5. /\ DOMAIN book = 1 .. Len(book) /\ DOMAIN book' = 1 .. (Len(book) + 1) /\ Len(book) \in Nat
      /\ added.job = NoJob /\ added.job = 0 /\ DOMAIN job = 1 .. Len(job) /\ Len(job) \in Nat
  BY <1>1, <1>2 DEF LogTypes, NoJob
<1> HIDE DEF added
<1>6. RunsOfJobs'
  <2>1. \A i \in DOMAIN book' : book'[i].job <= Len(job)
    BY <1>1, <1>2, <1>5 DEF RunsOfJobs
  <2>2. \A i, k \in DOMAIN book' : book'[i].job = book'[k].job /\ book'[i].job # NoJob => i = k
    BY <1>1, <1>2, <1>5 DEF RunsOfJobs
  <2>3. ASSUME NEW k \in DOMAIN job
        PROVE  /\ job[k].pc \in {"work", "record"} => \A i \in DOMAIN book' : book'[i].job # k
               /\ \A i \in DOMAIN book' : book'[i].job = k =>
                    book'[i].said = IF job[k].outcome = "ok" THEN "succeeded" ELSE "failed"
               /\ job[k].pc \in {"finish", "done"} /\ job[k].kind # "send_test" =>
                    bounds'.failures > 0 \/ \E i \in DOMAIN book' : book'[i].job = k
    <3>1. k # 0
      BY <1>5
    <3> QED BY <1>1, <1>2, <1>3, <1>5, <3>1 DEF RunsOfJobs
  <2> QED BY <1>1, <2>1, <2>2, <2>3 DEF RunsOfJobs
<1> QED BY <1>2, <1>4, <1>6 DEF LogInv

\* A report on a run of another program: the row is what it says, if there is one still.
LEMMA ReportKeeps ==
  ASSUME LogInv, NEW i \in Nat, NEW status \in Statuses, updateRun(i, status)
  PROVE  LogInv'
<1>1. LogTypes /\ RowsAgree /\ RecentIsTail /\ RunsOfJobs
  BY DEF LogInv
<1>2. /\ i \in DOMAIN book /\ book[i].job = NoJob /\ UNCHANGED <<recent, job, time>>
      /\ bounds' \in [work : Nat, failures : Nat] /\ (bounds.failures > 0 => bounds'.failures > 0)
  BY <1>1, BumpTyped DEF updateRun
<1>3. RecentIsTail'
  BY <1>1, <1>2 DEF RecentIsTail
<1>4. CASE i \notin DOMAIN runs
  <2>1. UNCHANGED <<runs, book>>
    BY <1>4 DEF updateRun
  <2>2. LogTypes' /\ RowsAgree'
    BY <1>1, <1>2, <2>1 DEF LogTypes, RowsAgree, RunLogAgrees
  <2>3. RunsOfJobs'
    BY <1>1, <1>2, <2>1 DEF RunsOfJobs
  <2> QED BY <1>3, <2>2, <2>3 DEF LogInv
<1>5. CASE i \in DOMAIN runs
  <2> DEFINE line == Completed(i, status)
             told == [book[i] EXCEPT !.said = status]
  <2>1. /\ runs[i] \in RunRow /\ book[i] \in Told /\ IsOver(status) \in BOOLEAN
        /\ runs' = [runs EXCEPT ![i] = line] /\ book' = [book EXCEPT ![i] = told]
    BY <1>1, <1>2, <1>5 DEF LogTypes, updateRun, IsOver
  <2>2. line \in RunRow
    BY <2>1 DEF RunRow, Completed
  <2>3. line.started = runs[i].started /\ line.status = status
    BY <2>1 DEF RunRow, Completed
  <2>4. line.finished <=> status # "running"
    <3>1. line.finished = IsOver(status)
      BY <2>1 DEF RunRow, Completed
    <3> QED BY <3>1 DEF IsOver
  <2>5. told \in Told /\ told.said = status /\ told.job = NoJob /\ told.started = book[i].started
    BY <1>2, <2>1 DEF Told
  <2> HIDE DEF line, told
  <2>6. /\ DOMAIN runs' = DOMAIN runs /\ runs'[i] = line
        /\ \A k \in DOMAIN runs : k # i => runs'[k] = runs[k]
        /\ runs' \in [DOMAIN runs' -> RunRow]
    BY <1>1, <1>5, <2>1, <2>2 DEF LogTypes
  <2>7. /\ DOMAIN book' = DOMAIN book /\ book'[i] = told
        /\ \A k \in DOMAIN book : k # i => book'[k] = book[k]
        /\ book' \in Seq(Told)
    BY <1>1, <1>2, <2>1, <2>5 DEF LogTypes
  <2>8. LogTypes'
    BY <1>1, <1>2, <2>6, <2>7 DEF LogTypes
  <2>9. RowsAgree'
    <3>1. \A k \in DOMAIN book : k # i =>
            IF k \in DOMAIN runs'
            THEN /\ runs'[k].status = book'[k].said
                 /\ runs'[k].finished <=> book'[k].said # "running"
                 /\ runs'[k].started = book'[k].started
            ELSE book'[k].started + Retention < time
      BY <1>1, <2>6, <2>7 DEF RowsAgree, RunLogAgrees
    <3>2. /\ runs'[i].status = book'[i].said /\ runs'[i].started = book'[i].started
          /\ runs'[i].finished <=> book'[i].said # "running"
      BY <1>1, <1>5, <2>3, <2>4, <2>5, <2>6, <2>7 DEF RowsAgree
    <3> QED BY <1>1, <1>2, <1>5, <2>6, <2>7, <3>1, <3>2 DEF RowsAgree, RunLogAgrees, LogTypes
  <2>10. RunsOfJobs'
    <3>1. \A k \in DOMAIN book : /\ book'[k].job = book[k].job
                                 /\ book[k].job # NoJob => book'[k] = book[k]
      BY <1>2, <2>5, <2>7
    <3>2. \A k \in DOMAIN job : k # NoJob
      BY <1>1 DEF LogTypes, NoJob
    <3>3. /\ \A k \in DOMAIN book' : book'[k].job <= Len(job)
          /\ \A k, m \in DOMAIN book' : book'[k].job = book'[m].job /\ book'[k].job # NoJob => k = m
      BY <1>1, <2>7, <3>1 DEF RunsOfJobs
    <3>4. ASSUME NEW j \in DOMAIN job
          PROVE  \A k \in DOMAIN book' :
                   /\ book'[k].job = j <=> book[k].job = j
                   /\ book'[k].job = j => book'[k].said = book[k].said
      BY <2>7, <3>1, <3>2
    <3>5. ASSUME NEW j \in DOMAIN job
          PROVE  /\ job[j].pc \in {"work", "record"} => \A k \in DOMAIN book' : book'[k].job # j
                 /\ \A k \in DOMAIN book' : book'[k].job = j =>
                      book'[k].said = IF job[j].outcome = "ok" THEN "succeeded" ELSE "failed"
                 /\ job[j].pc \in {"finish", "done"} /\ job[j].kind # "send_test" =>
                      bounds'.failures > 0 \/ \E k \in DOMAIN book' : book'[k].job = j
      BY <1>1, <1>2, <2>7, <3>4 DEF RunsOfJobs
    <3> QED BY <1>1, <1>2, <3>3, <3>5 DEF RunsOfJobs
  <2> QED BY <1>3, <2>8, <2>9, <2>10 DEF LogInv
<1> QED BY <1>4, <1>5

\* A sweep drops the rows that have expired, and no others.
LEMMA PruneKeeps ==
  ASSUME LogInv, Prune
  PROVE  LogInv'
<1>1. LogTypes /\ RowsAgree /\ RecentIsTail /\ RunsOfJobs
  BY DEF LogInv
<1>2. /\ DOMAIN runs' = {k \in DOMAIN runs : ~Expired(k)}
      /\ \A k \in DOMAIN runs' : runs'[k] = runs[k]
      /\ runs' = [k \in DOMAIN runs' |-> runs[k]]
      /\ UNCHANGED <<recent, job, book, time, bounds>>
  BY DEF Prune
<1>3. runs' \in [DOMAIN runs' -> RunRow]
  BY <1>1, <1>2 DEF LogTypes
<1>4. LogTypes'
  BY <1>1, <1>2, <1>3 DEF LogTypes
<1>5. \A k \in DOMAIN runs : k \notin DOMAIN runs' => book[k].started + Retention < time
  BY <1>1, <1>2 DEF RowsAgree, Expired
<1>6. RowsAgree'
  BY <1>1, <1>2, <1>5 DEF RowsAgree, RunLogAgrees
<1>7. RecentIsTail' /\ RunsOfJobs'
  BY <1>1, <1>2 DEF RecentIsTail, RunsOfJobs
<1> QED BY <1>4, <1>6, <1>7 DEF LogInv

\* Time passes, and what was expired is still.
LEMMA TickKeeps ==
  ASSUME JobLogAssumption, LogInv, LogTick
  PROVE  LogInv'
<1>1. LogTypes /\ RowsAgree /\ RecentIsTail /\ RunsOfJobs /\ Retention \in Nat
  BY DEF LogInv, JobLogAssumption
<1>2. time' = time + 1 /\ UNCHANGED <<recent, job, runs, book, bounds>>
  BY DEF LogTick
<1>3. LogTypes'
  BY <1>1, <1>2 DEF LogTypes
<1>4. ASSUME NEW i \in DOMAIN book, book[i].started + Retention < time
      PROVE  book[i].started + Retention < time'
  <2>1. book[i] \in Told /\ time \in Nat
    BY <1>1 DEF LogTypes
  <2>2. book[i].started \in Nat
    BY <2>1 DEF Told
  <2> QED BY <1>1, <1>2, <1>4, <2>1, <2>2
<1>5. RowsAgree'
  BY <1>1, <1>2, <1>4 DEF RowsAgree, RunLogAgrees
<1>6. RecentIsTail' /\ RunsOfJobs'
  BY <1>1, <1>2 DEF RecentIsTail, RunsOfJobs
<1> QED BY <1>3, <1>5, <1>6 DEF LogInv

\* A restart forgets the jobs, and the log keeps their runs.
LEMMA RestartKeeps ==
  ASSUME JobLogAssumption, LogInv, RestartManager
  PROVE  LogInv'
<1>1. LogTypes /\ RowsAgree /\ RunsOfJobs /\ MaxJobs \in Nat
  BY DEF LogInv, JobLogAssumption
<1>2. recent' = <<>> /\ job' = <<>> /\ UNCHANGED <<runs, time>>
  BY DEF RestartManager
<1>3. bounds' \in [work : Nat, failures : Nat]
  BY <1>1, BumpTyped DEF RestartManager
<1>4. /\ DOMAIN book' = DOMAIN book
      /\ \A i \in DOMAIN book : /\ book'[i] \in Told /\ book'[i].job = NoJob
                                /\ book'[i].said = book[i].said /\ book'[i].started = book[i].started
  <2>1. \A i \in DOMAIN book : book[i] \in Told
    BY <1>1 DEF LogTypes
  <2>2. book' = [i \in DOMAIN book |-> IF book[i].job = NoJob THEN book[i]
                                       ELSE [book[i] EXCEPT !.job = NoJob]]
    BY DEF RestartManager
  <2>3. ASSUME NEW i \in DOMAIN book
        PROVE  /\ book'[i] \in Told /\ book'[i].job = NoJob
               /\ book'[i].said = book[i].said /\ book'[i].started = book[i].started
    <3>1. CASE book[i].job = NoJob
      BY <2>1, <2>2, <3>1
    <3>2. CASE book[i].job # NoJob
      <4>1. book'[i] = [book[i] EXCEPT !.job = NoJob]
        BY <2>2, <3>2
      <4> QED BY <2>1, <4>1 DEF Told, NoJob
    <3> QED BY <3>1, <3>2
  <2> QED BY <2>2, <2>3
<1>5. book' \in Seq(Told)
  <2>1. DOMAIN book = 1 .. Len(book) /\ Len(book) \in Nat
    BY <1>1 DEF LogTypes
  <2>2. book' = [i \in 1 .. Len(book) |-> book'[i]]
    BY <2>1 DEF RestartManager
  <2> QED BY <1>4, <2>1, <2>2
<1>6. Len(job') = 0 /\ DOMAIN job' = {} /\ Len(recent') = 0
  BY <1>2
<1>7. LogTypes'
  BY <1>1, <1>2, <1>3, <1>4, <1>5 DEF LogTypes
<1>8. RowsAgree'
  <2>1. ASSUME NEW i \in DOMAIN book
        PROVE  IF i \in DOMAIN runs
               THEN /\ runs[i].status = book'[i].said
                    /\ runs[i].finished <=> book'[i].said # "running"
                    /\ runs[i].started = book'[i].started
               ELSE book'[i].started + Retention < time
    BY <1>1, <1>4 DEF RowsAgree, RunLogAgrees
  <2>2. DOMAIN runs \subseteq DOMAIN book
    BY <1>1 DEF LogTypes
  <2> QED BY <1>2, <1>4, <2>1, <2>2 DEF RowsAgree, RunLogAgrees
<1>9. RecentIsTail'
  BY <1>1, <1>6 DEF RecentIsTail
<1>10. RunsOfJobs'
  BY <1>4, <1>6 DEF RunsOfJobs, NoJob
<1> QED BY <1>7, <1>8, <1>9, <1>10 DEF LogInv

\* The log of jobs is right whatever happens to it.
LEMMA LogInvNext ==
  ASSUME JobLogAssumption, LogInv, [LoggingNext]_jobLog
  PROVE  LogInv'
<1>1. ASSUME NEW k \in Kinds, Start(k)
      PROVE  LogInv'
  BY <1>1, StartKeeps
<1>2. ASSUME NEW j \in DOMAIN job, Work(j) \/ RecordRun(j) \/ Finish(j)
      PROVE  LogInv'
  BY <1>2, WorkOrFinishKeeps, RecordRunKeeps
<1>3. ASSUME NEW s \in Statuses, ScheduledRun(s)
      PROVE  LogInv'
  <2>1. time \in Nat
    BY DEF LogInv, LogTypes
  <2> QED BY <1>3, <2>1, NobodysRunKeeps DEF ScheduledRun
<1>4. ASSUME NEW s \in Statuses, NEW t \in 0 .. time, createRun(s, t)
      PROVE  LogInv'
  BY <1>4, NobodysRunKeeps DEF createRun
<1>5. ASSUME NEW s \in Statuses, NEW i \in 1 .. MaxWork, updateRun(i, s)
      PROVE  LogInv'
  BY <1>5, ReportKeeps
<1>6. CASE UNCHANGED jobLog
  <2>1. UNCHANGED <<recent, job, runs, book, time, bounds>>
    BY <1>6 DEF jobLog
  <2>2. LogTypes' /\ RowsAgree'
    BY <2>1 DEF LogInv, LogTypes, RowsAgree, RunLogAgrees
  <2>3. RecentIsTail' /\ RunsOfJobs'
    BY <2>1 DEF LogInv, RecentIsTail, RunsOfJobs
  <2> QED BY <2>2, <2>3 DEF LogInv
<1> QED BY <1>1, <1>2, <1>3, <1>4, <1>5, <1>6, PruneKeeps, TickKeeps, RestartKeeps DEF LoggingNext

(***************************************************************************)
(* The run log says what was last said of each run, for any number of      *)
(* jobs, scheduled runs, late, repeated and contradicting reports, failed  *)
(* inserts, sweeps and restarts (internal/usecase/taskruns, restapi/v1).   *)
(***************************************************************************)
THEOREM RunLogIsTrue ==
  ASSUME JobLogAssumption
  PROVE  LoggingSpec => []RunLogAgrees
<1>1. LoggingInit => LogInv
  BY LogInvInit
<1>2. LogInv /\ [LoggingNext]_jobLog => LogInv'
  BY LogInvNext
<1>3. LogInv => RunLogAgrees
  BY DEF LogInv, RowsAgree
<1> QED BY <1>1, <1>2, <1>3, PTL DEF LoggingSpec

\* The jobs page, from the list's being the tail of the jobs.
LEMMA TailIsShown ==
  ASSUME JobLogAssumption, LogInv
  PROVE  ListShowsLatest
<1>1. /\ recent \in Seq(Nat) /\ job \in Seq(JobState) /\ MaxJobs \in Nat
      /\ RecentIsTail /\ RunsOfJobs
  BY DEF LogInv, LogTypes, JobLogAssumption
<1>2. /\ Len(recent) \in Nat /\ Len(job) \in Nat /\ DOMAIN job = 1 .. Len(job)
      /\ Len(recent) <= MaxJobs /\ Len(recent) <= Len(job) /\ Len(recent) \in {MaxJobs, Len(job)}
  BY <1>1 DEF RecentIsTail
<1>3. /\ Len(List) = Len(recent) /\ DOMAIN List = 1 .. Len(recent)
      /\ \A i \in 1 .. Len(recent) : List[i] = recent[Len(recent) - i + 1]
  BY <1>1, <1>2 DEF List, Reverse
<1>4. \A i \in 1 .. Len(recent) : List[i] = Len(job) - i + 1
  <2> TAKE i \in 1 .. Len(recent)
  <2>1. Len(recent) - i + 1 \in 1 .. Len(recent)
    BY <1>2
  <2>2. recent[Len(recent) - i + 1] = Len(job) - Len(recent) + (Len(recent) - i + 1)
    BY <1>1, <2>1 DEF RecentIsTail
  <2>3. List[i] = recent[Len(recent) - i + 1]
    BY <1>3
  <2>4. Len(job) - Len(recent) + (Len(recent) - i + 1) = Len(job) - i + 1
    BY <1>2
  <2> QED BY <2>2, <2>3, <2>4
<1>5. \A i \in 1 .. Len(recent) : Len(job) - i + 1 \in DOMAIN job
  BY <1>2
<1>6. \A j \in DOMAIN job : job[j].status = "running" <=> job[j].pc # "done"
  BY <1>1 DEF RunsOfJobs
<1>7. Len(recent) = IF Len(job) < MaxJobs THEN Len(job) ELSE MaxJobs
  BY <1>1, <1>2
<1> QED BY <1>3, <1>4, <1>5, <1>6, <1>7 DEF ListShowsLatest

(***************************************************************************)
(* No job goes untraced: whichever jobs end first, however many there are  *)
(* and whatever inserts fail, the page lists the latest MaxJobs, and a     *)
(* sync or send that is over has one run in the log, of its verdict        *)
(* (internal/usecase/jobs Start and List, recordSyncRun, doScheduledSend). *)
(***************************************************************************)
THEOREM JobsAreTraced ==
  ASSUME JobLogAssumption
  PROVE  LoggingSpec => []JobsLeaveATrace
<1>1. LoggingInit => LogInv
  BY LogInvInit
<1>2. LogInv /\ [LoggingNext]_jobLog => LogInv'
  BY LogInvNext
<1>3. ASSUME LogInv
      PROVE  JobsLeaveATrace
  <2>1. RunsOfJobs /\ LogTypes
    BY <1>3 DEF LogInv
  <2>2. ASSUME NEW j \in DOMAIN job, job[j].kind # "send_test", job[j].status # "running"
        PROVE  LET mine == {i \in DOMAIN book : book[i].job = j}
               IN  /\ Cardinality(mine) <= 1 /\ (mine = {} => bounds.failures > 0)
                   /\ \A i \in mine : book[i].said = job[j].status \/ job[j].outcome = "undelivered"
    <3> DEFINE mine == {i \in DOMAIN book : book[i].job = j}
    <3>1. job[j] \in JobState /\ j # NoJob
      BY <2>1 DEF LogTypes, NoJob
    <3>2. job[j].pc = "done"
      BY <2>1, <2>2 DEF RunsOfJobs
    <3>3. Cardinality(mine) <= 1
      <4>1. CASE mine = {}
        <5>1. Cardinality(mine) = 0
          BY <4>1, FS_EmptySet
        <5> QED BY <5>1
      <4>2. CASE mine # {}
        <5>1. PICK i \in mine : TRUE
          BY <4>2
        <5>2. mine = {i}
          BY <2>1, <3>1, <5>1 DEF RunsOfJobs
        <5>3. Cardinality(mine) = 1
          BY <5>2, FS_Singleton
        <5> QED BY <5>3
      <4> QED BY <4>1, <4>2
    <3>4. mine = {} => bounds.failures > 0
      BY <2>1, <2>2, <3>2 DEF RunsOfJobs
    <3>5. ASSUME NEW i \in mine, job[j].outcome # "undelivered"
          PROVE  book[i].said = job[j].status
      <4>1. book[i].said = IF job[j].outcome = "ok" THEN "succeeded" ELSE "failed"
        BY <2>1 DEF RunsOfJobs
      <4>2. job[j].status = IF job[j].outcome = "error" THEN "failed" ELSE "succeeded"
        BY <2>1, <3>2 DEF RunsOfJobs
      <4> QED BY <3>1, <3>5, <4>1, <4>2 DEF JobState
    <3> QED BY <3>3, <3>4, <3>5
  <2>3. FinishedJobsLeaveARun
    BY <2>2 DEF FinishedJobsLeaveARun
  <2> QED BY <1>3, <2>3, TailIsShown DEF JobsLeaveATrace
<1> QED BY <1>1, <1>2, <1>3, PTL DEF LoggingSpec

-----------------------------------------------------------------------------
(* Links to media                                                          *)

CallState ==
  [pc : {"idle", "getlink", "put", "share", "store", "done"}, want : Wants, id : Images,
   file : Files \cup {NoLink}, kind : {"none", "download", "share", "thumb"},
   leads : Files \cup {NoLink}, minted : Nat, age : Nat]

LinkTypes ==
  /\ imageRow \in [Images -> [file : Files, public : Files \cup {NoLink}]]
  /\ had \in [Images -> SUBSET Files]
  /\ DOMAIN cache \subseteq Files /\ cache \in [DOMAIN cache -> [minted : Nat, expires : Nat]]
  /\ clock \in Nat

\* A row names a file, and has the public link of one, that it has named.
RowsNamed == \A i \in Images : imageRow[i].file \in had[i] /\ imageRow[i].public \in had[i] \cup {NoLink}

\* What is cached expires within TTL of an answer that took Timeout at most.
CacheExpires ==
  \A f \in DOMAIN cache :
    cache[f].minted <= clock /\ cache[f].expires <= cache[f].minted + Timeout + TTL

\* A call under way is for a file that its image has named, and its answer is due; one that
\* is over has a link of that file that works.
WorksFor(l) ==
  /\ l \in CallState
  /\ l.pc \notin {"idle", "done"} => l.file \in had[l.id]
  /\ l.pc = "put" => l.minted <= clock /\ clock <= l.minted + Timeout
  /\ l.pc = "store" => l.leads = l.file
  /\ l.pc = "done" => /\ l.kind = "download" => l.leads = l.file /\ l.age < Life
                      /\ l.kind \in {"share", "thumb"} => l.leads \in had[l.id]

CallersServed == DOMAIN caller = Callers /\ \A c \in Callers : WorksFor(caller[c])

LinkInv == LinkTypes /\ RowsNamed /\ CacheExpires /\ CallersServed

\* An answer with a link to show.
LEMMA AnswerWorks ==
  ASSUME LinkTypes, NEW l \in CallState, NEW kind \in {"share", "thumb"}, NEW link \in had[l.id]
  PROVE  WorksFor(Answer(l, kind, link, 0))
<1>1. link \in Files
  BY DEF LinkTypes, CallState
<1> DEFINE a == Answer(l, kind, link, 0)
<1>2. /\ a \in CallState /\ a.pc = "done" /\ a.kind = kind /\ a.leads = link /\ a.id = l.id
  BY <1>1 DEF Answer, CallState, Wants
<1>3. Answer(l, kind, link, 0) = a
  OBVIOUS
<1> HIDE DEF a
<1> QED BY <1>2, <1>3 DEF WorksFor

\* A download link from the cache works still, and is asked for otherwise.
LEMMA DownloadWorks ==
  ASSUME LinksAssumption, LinkTypes, CacheExpires, NEW l \in CallState, l.file \in had[l.id]
  PROVE  WorksFor(Download(l))
<1> DEFINE f == l.file
           a == Answer(l, "download", f, clock - cache[f].minted)
           g == [l EXCEPT !.pc = "getlink"]
<1>1. f \in Files /\ {TTL, Timeout, Life} \subseteq Nat /\ Life > TTL + Timeout /\ clock \in Nat
  BY DEF LinkTypes, CallState, LinksAssumption
<1>2. CASE Cached(f)
  <2>1. /\ f \in DOMAIN cache /\ clock <= cache[f].expires
        /\ cache[f].minted \in Nat /\ cache[f].expires \in Nat
        /\ cache[f].minted <= clock /\ cache[f].expires <= cache[f].minted + Timeout + TTL
    BY <1>2 DEF Cached, LinkTypes, CacheExpires
  <2>2. clock - cache[f].minted \in Nat /\ clock - cache[f].minted < Life
    BY <1>1, <2>1
  <2>3. a \in CallState /\ a.pc = "done" /\ a.kind = "download" /\ a.leads = f /\ a.file = f
        /\ a.age = clock - cache[f].minted
    BY <1>1, <2>2 DEF Answer, CallState, Wants
  <2>4. Download(l) = a
    BY <1>2 DEF Download
  <2> HIDE DEF a
  <2> QED BY <2>2, <2>3, <2>4 DEF WorksFor
<1>3. CASE ~Cached(f)
  <2>1. g \in CallState /\ g.pc = "getlink" /\ g.file = l.file /\ g.id = l.id
    BY DEF CallState
  <2>2. Download(l) = g
    BY <1>3 DEF Download
  <2> HIDE DEF g
  <2> QED BY <2>1, <2>2 DEF WorksFor
<1> QED BY <1>2, <1>3

\* What is made of a public link works.
LEMMA ShownWorks ==
  ASSUME LinksAssumption, LinkTypes, CacheExpires, NEW l \in CallState,
         l.file \in had[l.id], NEW link \in had[l.id], NEW next \in Shown(l, link)
  PROVE  WorksFor(next)
<1>1. \/ next = Answer(l, "thumb", link, 0) \/ next = Answer(l, "share", link, 0)
      \/ next = Download(l)
  BY DEF Shown, Previews
<1> QED BY <1>1, AnswerWorks, DownloadWorks

\* One caller goes on, the files that rows have named are the same or more, and time stands.
LEMMA CallersStay ==
  ASSUME CallersServed, NEW c \in Callers, NEW l, WorksFor(l), CallBecomes(c, l), UNCHANGED <<had, clock>>
  PROVE  CallersServed'
<1>1. DOMAIN caller' = Callers /\ caller'[c] = l /\ \A d \in Callers : d # c => caller'[d] = caller[d]
  BY DEF CallBecomes, CallersServed
<1>2. \A k : WorksFor(k) => /\ k \in CallState
                            /\ k.pc \notin {"idle", "done"} => k.file \in had'[k.id]
                            /\ k.pc = "put" => k.minted <= clock' /\ clock' <= k.minted + Timeout
                            /\ k.pc = "store" => k.leads = k.file
                            /\ k.pc = "done" =>
                                 /\ k.kind = "download" => k.leads = k.file /\ k.age < Life
                                 /\ k.kind \in {"share", "thumb"} => k.leads \in had'[k.id]
  BY DEF WorksFor
<1>3. \A d \in Callers : WorksFor(caller'[d])
  BY <1>1 DEF CallersServed
<1> QED BY <1>1, <1>2, <1>3 DEF CallersServed, WorksFor

\* The other parts, when rows, cache and clock are as they were.
LEMMA TablesStay ==
  ASSUME LinkInv, UNCHANGED <<imageRow, had, cache, clock>>
  PROVE  LinkTypes' /\ RowsNamed' /\ CacheExpires'
BY DEF LinkInv, LinkTypes, RowsNamed, CacheExpires

\* A call begins, with the row as its caller read it.
LEMMA ResolveKeeps ==
  ASSUME LinksAssumption, LinkInv, NEW c \in Callers, NEW i \in Images,
         NEW want \in Wants, Resolve(c, i, want)
  PROVE  LinkInv'
<1> DEFINE l == [IdleCall EXCEPT !.want = want, !.id = i, !.file = imageRow[i].file]
<1>1. LinkTypes /\ RowsNamed /\ CacheExpires /\ CallersServed
  BY DEF LinkInv
<1>2. imageRow[i].file \in had[i] /\ imageRow[i].file \in Files /\ imageRow[i].public \in had[i] \cup {NoLink}
  BY <1>1 DEF RowsNamed, LinkTypes
<1>3. l \in CallState /\ l.file = imageRow[i].file /\ l.id = i
  BY <1>2 DEF CallState, IdleCall
<1>4. \/ CallBecomes(c, Download(l))
      \/ \E next \in Public(l, imageRow[i].public) : CallBecomes(c, next)
  BY DEF Resolve
<1>5. UNCHANGED <<imageRow, had, cache, clock>>
  BY DEF Resolve
<1> HIDE DEF l
<1>6. CASE CallBecomes(c, Download(l))
  BY <1>1, <1>2, <1>3, <1>5, <1>6, DownloadWorks, CallersStay, TablesStay DEF LinkInv
<1>7. ASSUME NEW next \in Public(l, imageRow[i].public), CallBecomes(c, next)
      PROVE  LinkInv'
  <2>1. WorksFor(next)
    <3>1. CASE imageRow[i].public = NoLink
      <4>1. next = [l EXCEPT !.pc = "share"]
        BY <1>7, <3>1 DEF Public
      <4>2. next \in CallState /\ next.pc = "share" /\ next.file = l.file /\ next.id = l.id
        BY <1>3, <4>1 DEF CallState
      <4> QED BY <1>2, <1>3, <4>2 DEF WorksFor
    <3>2. CASE imageRow[i].public # NoLink
      <4>1. next \in Shown(l, imageRow[i].public)
        BY <1>7, <3>2 DEF Public
      <4>2. imageRow[i].public \in had[l.id] /\ l.file \in had[l.id]
        BY <1>2, <1>3, <3>2
      <4> QED BY <1>1, <1>3, <4>1, <4>2, ShownWorks
    <3> QED BY <3>1, <3>2
  <2>2. CallersServed'
    BY <1>1, <1>5, <1>7, <2>1, CallersStay
  <2> QED BY <1>5, <2>2, TablesStay DEF LinkInv
<1> QED BY <1>4, <1>6, <1>7

\* pCloud answers with a download link, or with a public one.
LEMMA AnswerKeeps ==
  ASSUME LinksAssumption, LinkInv, NEW c \in Callers,
         GetFileLink(c) \/ GetFilePublicLink(c)
  PROVE  LinkInv'
<1> DEFINE l == caller[c]
<1>1. LinkTypes /\ CallersServed /\ WorksFor(l) /\ l \in CallState /\ clock \in Nat /\ Timeout \in Nat
  BY DEF LinkInv, LinkTypes, CallersServed, WorksFor, LinksAssumption
<1>2. UNCHANGED <<imageRow, had, cache, clock>>
  BY DEF GetFileLink, GetFilePublicLink
<1>3. PICK next \in CallState : WorksFor(next) /\ CallBecomes(c, next)
  <2>1. CASE GetFileLink(c)
    <3> DEFINE n == [l EXCEPT !.pc = "put", !.minted = clock]
    <3>1. n \in CallState /\ n.pc = "put" /\ n.minted = clock /\ n.file = l.file /\ n.id = l.id
      BY <1>1 DEF CallState
    <3>2. l.file \in had[l.id] /\ CallBecomes(c, n)
      BY <1>1, <2>1 DEF WorksFor, GetFileLink
    <3> HIDE DEF n, l
    <3>3. WorksFor(n)
      BY <1>1, <3>1, <3>2 DEF WorksFor
    <3> QED BY <3>1, <3>2, <3>3
  <2>2. CASE GetFilePublicLink(c)
    <3> DEFINE n == [l EXCEPT !.pc = "store", !.leads = l.file]
    <3>1. l.file \in had[l.id] /\ l.file \in Files /\ CallBecomes(c, n)
      BY <1>1, <2>2 DEF WorksFor, LinkTypes, CallState, GetFilePublicLink
    <3>2. n \in CallState /\ n.pc = "store" /\ n.leads = l.file /\ n.file = l.file /\ n.id = l.id
      BY <1>1, <3>1 DEF CallState
    <3> HIDE DEF n, l
    <3>3. WorksFor(n)
      BY <3>1, <3>2 DEF WorksFor
    <3> QED BY <3>1, <3>2, <3>3
  <2> QED BY <2>1, <2>2
<1> QED BY <1>1, <1>2, <1>3, CallersStay, TablesStay DEF LinkInv

\* A download link arrives and is cached, whatever another caller has cached meanwhile.
LEMMA PutKeeps ==
  ASSUME LinksAssumption, LinkInv, NEW c \in Callers, Put(c)
  PROVE  LinkInv'
<1> DEFINE l == caller[c]
           a == Answer(l, "download", l.file, clock - l.minted)
<1>1. /\ LinkTypes /\ RowsNamed /\ CacheExpires /\ CallersServed
      /\ {TTL, Timeout, Life} \subseteq Nat /\ Life > TTL + Timeout /\ clock \in Nat
  BY DEF LinkInv, LinkTypes, LinksAssumption
<1>2. /\ l \in CallState /\ l.pc = "put" /\ l.file \in had[l.id]
      /\ l.minted <= clock /\ clock <= l.minted + Timeout
  BY <1>1 DEF CallersServed, WorksFor, Put
<1>3. l.file \in Files /\ l.minted \in Nat
  BY <1>1, <1>2 DEF LinkTypes, CallState
<1>4. /\ UNCHANGED <<imageRow, had, clock>> /\ CallBecomes(c, a)
      /\ cache' = [f \in DOMAIN cache \cup {l.file} |->
                     IF f = l.file THEN [minted |-> l.minted, expires |-> clock + TTL] ELSE cache[f]]
  BY DEF Put
<1>5. clock - l.minted \in Nat /\ clock - l.minted < Life
  BY <1>1, <1>2, <1>3
<1>6. a \in CallState /\ a.pc = "done" /\ a.kind = "download" /\ a.leads = a.file /\ a.age < Life
  BY <1>2, <1>3, <1>5 DEF Answer, CallState, Wants
<1> HIDE DEF a
<1>7. WorksFor(a)
  BY <1>6 DEF WorksFor
<1>8. CallersServed'
  BY <1>1, <1>4, <1>7, CallersStay
<1> HIDE DEF l
<1>9. /\ DOMAIN cache' = DOMAIN cache \cup {l.file}
      /\ cache'[l.file] = [minted |-> l.minted, expires |-> clock + TTL]
      /\ \A f \in DOMAIN cache : f # l.file => cache'[f] = cache[f]
  BY <1>4
<1>10. LinkTypes'
  <2>1. cache' \in [DOMAIN cache' -> [minted : Nat, expires : Nat]]
    BY <1>1, <1>3, <1>4 DEF LinkTypes
  <2> QED BY <1>1, <1>3, <1>4, <1>9, <2>1 DEF LinkTypes
<1>11. CacheExpires'
  <2>1. clock + TTL <= l.minted + Timeout + TTL
    BY <1>1, <1>2, <1>3
  <2> QED BY <1>1, <1>2, <1>4, <1>9, <2>1 DEF CacheExpires
<1>12. RowsNamed'
  BY <1>1, <1>4 DEF RowsNamed
<1> QED BY <1>8, <1>10, <1>11, <1>12 DEF LinkInv

\* A public link is stored, over whatever the row says by now: its image has named the file.
LEMMA SetPublicLinkKeeps ==
  ASSUME LinksAssumption, LinkInv, NEW c \in Callers, SetPublicLink(c)
  PROVE  LinkInv'
<1> DEFINE l == caller[c]
<1>1. LinkTypes /\ RowsNamed /\ CacheExpires /\ CallersServed
  BY DEF LinkInv
<1>2. l \in CallState /\ l.file \in had[l.id] /\ l.leads = l.file /\ l.id \in Images
  BY <1>1 DEF CallersServed, WorksFor, SetPublicLink, CallState
<1>3. /\ imageRow' = [imageRow EXCEPT ![l.id].public = l.leads] /\ UNCHANGED <<had, cache, clock>>
  BY DEF SetPublicLink
<1>4. PICK next \in Shown(l, l.leads) : CallBecomes(c, next)
  BY DEF SetPublicLink
<1> HIDE DEF l
<1>5. WorksFor(next)
  BY <1>1, <1>2, ShownWorks
<1>6. CallersServed'
  BY <1>1, <1>3, <1>4, <1>5, CallersStay
<1>7. /\ imageRow' \in [Images -> [file : Files, public : Files \cup {NoLink}]]
      /\ \A i \in Images : imageRow'[i].file = imageRow[i].file
      /\ imageRow'[l.id].public = l.leads /\ \A i \in Images : i # l.id => imageRow'[i] = imageRow[i]
  <2>1. l.leads \in Files
    BY <1>1, <1>2 DEF LinkTypes
  <2> QED BY <1>1, <1>2, <1>3, <2>1 DEF LinkTypes
<1>8. LinkTypes' /\ CacheExpires'
  BY <1>1, <1>3, <1>7 DEF LinkTypes, CacheExpires
<1>9. RowsNamed'
  BY <1>1, <1>2, <1>3, <1>7 DEF RowsNamed
<1> QED BY <1>6, <1>8, <1>9 DEF LinkInv

\* A call fails, an image is edited, or time passes, for answers under way no longer than
\* they take.
LEMMA OthersKeep ==
  ASSUME LinksAssumption, LinkInv,
         \/ \E c \in Callers : Fail(c)
         \/ \E i \in Images, f \in Files : EditImage(i, f)
         \/ LinkTick
  PROVE  LinkInv'
<1>1. LinkTypes /\ RowsNamed /\ CacheExpires /\ CallersServed /\ Images # {} /\ Timeout \in Nat
  BY DEF LinkInv, LinksAssumption
<1>2. ASSUME NEW c \in Callers, Fail(c)
      PROVE  LinkInv'
  <2>1. CallBecomes(c, IdleCall) /\ UNCHANGED <<imageRow, had, cache, clock>>
    BY <1>2 DEF Fail
  <2>2. WorksFor(IdleCall)
    <3>1. (CHOOSE i \in Images : TRUE) \in Images
      BY <1>1
    <3> QED BY <3>1 DEF WorksFor, IdleCall, CallState, Wants
  <2> QED BY <1>1, <2>1, <2>2, CallersStay, TablesStay DEF LinkInv
<1>3. ASSUME NEW i \in Images, NEW f \in Files, EditImage(i, f)
      PROVE  LinkInv'
  <2>1. /\ imageRow' = [imageRow EXCEPT ![i].file = f] /\ had' = [had EXCEPT ![i] = @ \cup {f}]
        /\ UNCHANGED <<cache, caller, clock>>
    BY <1>3 DEF EditImage
  <2>2. /\ had' \in [Images -> SUBSET Files] /\ \A k \in Images : had[k] \subseteq had'[k]
        /\ f \in had'[i] /\ imageRow' \in [Images -> [file : Files, public : Files \cup {NoLink}]]
        /\ imageRow'[i].file = f /\ imageRow'[i].public = imageRow[i].public
        /\ \A k \in Images : k # i => imageRow'[k] = imageRow[k]
    BY <1>1, <2>1 DEF LinkTypes
  <2>3. LinkTypes' /\ CacheExpires'
    BY <1>1, <2>1, <2>2 DEF LinkTypes, CacheExpires
  <2>4. RowsNamed'
    BY <1>1, <2>2 DEF RowsNamed
  <2>5. CallersServed'
    <3>1. ASSUME NEW d \in Callers
          PROVE  WorksFor(caller[d])'
      <4> DEFINE k == caller[d]
      <4>1. WorksFor(k) /\ k \in CallState /\ k.id \in Images
        BY <1>1 DEF CallersServed, WorksFor, CallState
      <4>2. had[k.id] \subseteq had'[k.id]
        BY <2>2, <4>1
      <4> QED BY <2>1, <4>1, <4>2 DEF WorksFor
    <3> QED BY <1>1, <2>1, <3>1 DEF CallersServed
  <2> QED BY <2>3, <2>4, <2>5 DEF LinkInv
<1>4. CASE LinkTick
  <2>1. /\ clock' = clock + 1 /\ clock \in Nat /\ UNCHANGED <<imageRow, had, cache, caller>>
        /\ \A c \in Callers : caller[c].pc = "put" => clock < caller[c].minted + Timeout
    BY <1>1, <1>4 DEF LinkTick, LinkTypes
  <2>2. LinkTypes' /\ RowsNamed'
    BY <1>1, <2>1 DEF LinkTypes, RowsNamed
  <2>3. CacheExpires'
    <3>1. \A f \in DOMAIN cache : cache[f].minted \in Nat
      BY <1>1 DEF LinkTypes
    <3> QED BY <1>1, <2>1, <3>1 DEF CacheExpires
  <2>4. CallersServed'
    <3>1. ASSUME NEW d \in Callers
          PROVE  WorksFor(caller[d])'
      <4> DEFINE k == caller[d]
      <4>1. WorksFor(k) /\ k \in CallState /\ k.minted \in Nat
        BY <1>1 DEF CallersServed, WorksFor, CallState
      <4>2. k.pc = "put" => k.minted <= clock + 1 /\ clock + 1 <= k.minted + Timeout
        BY <1>1, <2>1, <4>1 DEF WorksFor
      <4> QED BY <2>1, <4>1, <4>2 DEF WorksFor
    <3> QED BY <1>1, <2>1, <3>1 DEF CallersServed
  <2> QED BY <2>2, <2>3, <2>4 DEF LinkInv
<1> QED BY <1>2, <1>3, <1>4

\* At the start no call has been made, nothing is cached and no row has a public link.
LEMMA LinkInvInit == LinksAssumption /\ LinkingInit => LinkInv
<1> SUFFICES ASSUME LinksAssumption, LinkingInit
             PROVE  LinkInv
  OBVIOUS
<1>1. /\ imageRow \in [Images -> [file : Files, public : {NoLink}]] /\ had = [i \in Images |-> {imageRow[i].file}]
      /\ DOMAIN cache = {} /\ cache = [f \in {} |-> NoLink] /\ clock = 0
      /\ caller = [c \in Callers |-> IdleCall]
  BY DEF LinkingInit
<1>2. LinkTypes
  BY <1>1 DEF LinkTypes
<1>3. RowsNamed /\ CacheExpires
  BY <1>1 DEF RowsNamed, CacheExpires
<1>4. CallersServed
  <2>1. (CHOOSE i \in Images : TRUE) \in Images
    BY DEF LinksAssumption
  <2>2. WorksFor(IdleCall)
    BY <2>1 DEF WorksFor, IdleCall, CallState, Wants
  <2> QED BY <1>1, <2>2 DEF CallersServed
<1> QED BY <1>2, <1>3, <1>4 DEF LinkInv

\* Every step keeps the links' invariant.
LEMMA LinkInvNext ==
  ASSUME LinksAssumption, LinkInv, [LinkingNext]_linking
  PROVE  LinkInv'
<1>1. CASE UNCHANGED linking
  <2>1. UNCHANGED <<imageRow, had, cache, caller, clock>>
    BY <1>1 DEF linking
  <2>2. CallersServed'
    BY <2>1 DEF LinkInv, CallersServed, WorksFor
  <2> QED BY <2>1, <2>2, TablesStay DEF LinkInv
<1>2. ASSUME NEW c \in Callers, NEW i \in Images, NEW w \in Wants, Resolve(c, i, w)
      PROVE  LinkInv'
  BY <1>2, ResolveKeeps
<1>3. ASSUME NEW c \in Callers,
             \/ GetFileLink(c) \/ GetFilePublicLink(c)
             \/ Put(c) \/ SetPublicLink(c)
      PROVE  LinkInv'
  BY <1>3, AnswerKeeps, PutKeeps, SetPublicLinkKeeps
<1>4. ASSUME \/ \E c \in Callers : Fail(c)
             \/ \E i \in Images, f \in Files : EditImage(i, f)
             \/ LinkTick
      PROVE  LinkInv'
  BY <1>4, OthersKeep
<1> QED BY <1>1, <1>2, <1>3, <1>4 DEF LinkingNext

(***************************************************************************)
(* However many callers resolve links at once, from rows that are edited   *)
(* meanwhile, each gets a link that works and leads where it should        *)
(* (ResolveDownloadURL, ResolvePublicURL and ResolvePreviewURL of          *)
(* usecase/images, over the link cache of repo/webapi/pcloud).             *)
(***************************************************************************)
THEOREM LinksWork ==
  ASSUME LinksAssumption
  PROVE  LinkingSpec => []LinksLeadToTheFile
<1>1. LinkingInit => LinkInv
  BY LinkInvInit
<1>2. ASSUME LinkInv, [LinkingNext]_linking
      PROVE  LinkInv'
  BY <1>2, LinkInvNext
<1>3. ASSUME LinkInv
      PROVE  LinksLeadToTheFile
  <2>1. \A c \in Callers : WorksFor(caller[c])
    BY <1>3 DEF LinkInv, CallersServed
  <2> QED BY <2>1 DEF LinksLeadToTheFile, WorksFor
<1> QED BY <1>1, <1>2, <1>3, PTL DEF LinkingSpec

-----------------------------------------------------------------------------
(* The audit                                                               *)

Tables == {"album", "image", "rule"}
Audited == [kind : Tables, op : {"create", "update", "delete"}, id : Nat, value : Values \cup {0}]

\* What the last entry about row i of a table is, and that there is one.
SaidOf(k, i, e) == LastWord(k, i) # 0 /\ log[LastWord(k, i)] = e

\* Whether row i of a table is there and holds v, or is not.
RowsOf(k) == IF k = "album" THEN albums ELSE IF k = "image" THEN images ELSE rules
Is(k, i, v) == i \in DOMAIN RowsOf(k) /\ v = IF k = "image" THEN images[i].url ELSE RowsOf(k)[i]
Absent(k, i) == i \notin DOMAIN RowsOf(k)

\* Rows the audit speaks of: commands make and remove the other rules.
Spoken(k, i) == i \in Ids(k) /\ (k = "rule" => i \notin commanded)

AuditTypes ==
  /\ made \in [Tables -> Nat] /\ log \in Seq(Audited) /\ lost \in Nat /\ overlapped \in BOOLEAN
  /\ DOMAIN request = ConsoleHandlers
  /\ \A h \in ConsoleHandlers : request[h] \in Audited \cup {Nothing}
  /\ \A h \in ConsoleHandlers, e \in Audited : request[h] = e => e.id \in Ids(e.kind)
  /\ \A k \in Tables : \A i : LastWord(k, i) \in 0 .. Len(log)

\* The entry that is to come says what the row holds, unless another edit raced it.
PendingIsTrue ==
  \A h \in ConsoleHandlers, e \in Audited :
    request[h] = e /\ Spoken(e.kind, e.id) =>
      IF e.op = "delete" THEN Absent(e.kind, e.id) ELSE Is(e.kind, e.id, e.value)

\* So does the last entry there is, if none is to come; images are also gone with an album.
LogIsTrue ==
  \A k \in Tables, i \in Nat :
    Spoken(k, i) /\ ~Pending(k, i) =>
      \/ \E e \in Audited : SaidOf(k, i, e) /\ e.op # "delete" /\ Is(k, i, e.value)
      \/ Absent(k, i) /\ \E e \in Audited : SaidOf(k, i, e) /\ e.op = "delete"
      \/ Absent(k, i) /\ k = "image" /\ \E a \in Ids("album") : Absent("album", a)

AuditInv == AuditTypes /\ (~overlapped /\ lost = 0 => PendingIsTrue /\ LogIsTrue)

\* Nothing is an entry of no row.
LEMMA NothingIsAboutNone ==
  \A k \in Tables : \A i : ~About(Nothing, k, i)
BY DEF Tables, About, Nothing

\* An entry is the last word about its row, and about no other.
LEMMA LastWordAppended ==
  ASSUME AuditTypes, NEW e \in Audited, log' = Append(log, e), NEW k \in Tables, NEW i
  PROVE  /\ About(e, k, i) => LastWord(k, i)' = Len(log) + 1
         /\ ~About(e, k, i) => LastWord(k, i)' = LastWord(k, i)
<1> DEFINE J == {x \in 1 .. Len(log) : About(log[x], k, i)}
           K == {x \in 1 .. Len(log') : About(log'[x], k, i)}
<1>1. /\ Len(log) \in Nat /\ Len(log') = Len(log) + 1 /\ log'[Len(log) + 1] = e
      /\ \A x \in 1 .. Len(log) : log'[x] = log[x]
  BY DEF AuditTypes
<1>2. LastWord(k, i) = IF J # {} THEN CHOOSE x \in J : \A y \in J : x >= y ELSE 0
  BY DEF LastWord, SelectLastInSeq, Max
<1>3. LastWord(k, i)' = IF K # {} THEN CHOOSE x \in K : \A y \in K : x >= y ELSE 0
  BY DEF LastWord, SelectLastInSeq, Max
<1>4. CASE About(e, k, i)
  <2>1. Len(log) + 1 \in K /\ \A y \in K : y \in Nat /\ Len(log) + 1 >= y
    BY <1>1, <1>4
  <2>2. \A x \in K : (\A y \in K : x >= y) => x = Len(log) + 1
    BY <1>1, <2>1
  <2> HIDE DEF K
  <2>3. (CHOOSE x \in K : \A y \in K : x >= y) = Len(log) + 1
    BY <2>1, <2>2
  <2> QED BY <1>3, <1>4, <2>1, <2>3
<1>5. CASE ~About(e, k, i)
  <2>1. K = J
    BY <1>1, <1>5
  <2> HIDE DEF J, K
  <2> QED BY <1>2, <1>3, <1>5, <2>1
<1> QED BY <1>4, <1>5

\* An entry to come is about its row.
LEMMA PendingIs ==
  ASSUME AuditTypes, NEW h \in ConsoleHandlers, NEW k \in Tables, NEW i, About(request[h], k, i)
  PROVE  /\ request[h] \in Audited /\ request[h].kind = k /\ request[h].id = i
         /\ i \in Ids(k) /\ Pending(k, i)
<1>1. request[h] # Nothing
  BY NothingIsAboutNone
<1>2. PICK e \in Audited : request[h] = e
  BY <1>1 DEF AuditTypes
<1> QED BY <1>2 DEF AuditTypes, Pending, About

\* An entry is inserted: its row has its last word, the others keep theirs.
LEMMA RecordAuditKeeps ==
  ASSUME AuditInv, NEW h \in ConsoleHandlers, RecordAudit(h)
  PROVE  AuditInv'
<1>0. PICK e \in Audited : request[h] = e
  BY DEF AuditInv, AuditTypes, RecordAudit
<1>1. /\ AuditTypes /\ e.id \in Ids(e.kind)
      /\ e.kind \in Tables /\ e.id \in Nat /\ Len(log) \in Nat
      /\ log' = Append(log, e) /\ request' = [request EXCEPT ![h] = Nothing]
      /\ UNCHANGED <<albums, images, rules, made, overlapped, commanded, asked, lost>>
  BY <1>0 DEF AuditInv, AuditTypes, RecordAudit, Audited
<1>2. /\ log' \in Seq(Audited) /\ Len(log') = Len(log) + 1 /\ log'[Len(log) + 1] = e
      /\ \A x \in 1 .. Len(log) : log'[x] = log[x]
  BY <1>1 DEF AuditTypes
<1>3. /\ request'[h] = Nothing /\ DOMAIN request' = ConsoleHandlers
      /\ \A g \in ConsoleHandlers : g # h => request'[g] = request[g]
  BY <1>1 DEF AuditTypes
<1>4. ASSUME NEW k \in Tables, NEW i
      PROVE  /\ k = e.kind /\ i = e.id => LastWord(k, i)' = Len(log) + 1
             /\ ~(k = e.kind /\ i = e.id) => LastWord(k, i)' = LastWord(k, i)
             /\ LastWord(k, i) \in 0 .. Len(log)
  <2>1. About(e, k, i) <=> k = e.kind /\ i = e.id
    BY DEF About
  <2> QED BY <1>1, <2>1, LastWordAppended DEF AuditTypes
<1>5. AuditTypes'
  <2>1. \A k \in Tables : \A i : LastWord(k, i)' \in 0 .. Len(log')
    <3> TAKE k \in Tables
    <3> TAKE i
    <3>1. Len(log) + 1 \in 0 .. Len(log') /\ 0 .. Len(log) \subseteq 0 .. Len(log')
      BY <1>1, <1>2
    <3> QED BY <1>4, <3>1
  <2>2. \A g \in ConsoleHandlers : request'[g] \in Audited \cup {Nothing}
    BY <1>1, <1>3 DEF AuditTypes
  <2>3. \A g \in ConsoleHandlers, d \in Audited : request'[g] = d => d.id \in Ids(d.kind)
    <3>1. Nothing \notin Audited
      BY DEF Nothing, Audited, Tables
    <3> QED BY <1>1, <1>3, <3>1 DEF AuditTypes
  <2> QED BY <1>1, <1>2, <1>3, <2>1, <2>2, <2>3 DEF AuditTypes, Ids
<1>6. ASSUME ~overlapped, lost = 0
      PROVE  PendingIsTrue' /\ LogIsTrue'
  <2>1. PendingIsTrue /\ LogIsTrue
    BY <1>6 DEF AuditInv
  <2>2. PendingIsTrue'
    <3>1. Nothing \notin Audited
      BY DEF Nothing, Audited, Tables
    <3>2. ASSUME NEW g \in ConsoleHandlers, NEW d \in Audited, request'[g] = d
          PROVE  request[g] = d
      BY <1>3, <3>1, <3>2
    <3> QED BY <1>1, <2>1, <3>2 DEF PendingIsTrue, Spoken, Is, Absent, RowsOf, Ids
  <2>3. ASSUME NEW k \in Tables, NEW i \in Nat, Spoken(k, i)', ~Pending(k, i)'
        PROVE  \/ \E d \in Audited : SaidOf(k, i, d)' /\ d.op # "delete" /\ Is(k, i, d.value)
               \/ Absent(k, i) /\ \E d \in Audited : SaidOf(k, i, d)' /\ d.op = "delete"
               \/ Absent(k, i) /\ k = "image" /\ \E a \in Ids("album") : Absent("album", a)
    <3>1. Spoken(k, i)
      BY <1>1, <2>3 DEF Spoken, Ids
    <3>2. CASE k = e.kind /\ i = e.id
      <4>1. SaidOf(k, i, e)'
        <5>1. LastWord(k, i)' = Len(log) + 1
          BY <1>4, <3>2
        <5> QED BY <1>1, <1>2, <5>1 DEF SaidOf
      <4>2. IF e.op = "delete" THEN Absent(k, i) ELSE Is(k, i, e.value)
        BY <1>0, <2>1, <3>1, <3>2 DEF PendingIsTrue
      <4> QED BY <4>1, <4>2
    <3>3. CASE ~(k = e.kind /\ i = e.id)
      <4>1. ~Pending(k, i)
        <5>1. \A g \in ConsoleHandlers : ~About(request'[g], k, i)
          BY <2>3 DEF Pending
        <5>2. ~About(request[h], k, i)
          BY <1>0, <3>3 DEF About
        <5> QED BY <1>3, <5>1, <5>2 DEF Pending
      <4>2. \A d \in Audited : SaidOf(k, i, d) => SaidOf(k, i, d)'
        <5> TAKE d \in Audited
        <5>1. LastWord(k, i)' = LastWord(k, i) /\ LastWord(k, i) \in 0 .. Len(log)
          BY <1>4, <3>3
        <5>2. LastWord(k, i) # 0 => LastWord(k, i) \in 1 .. Len(log)
          BY <1>1, <5>1
        <5> QED BY <1>2, <5>1, <5>2 DEF SaidOf
      <4> QED BY <2>1, <3>1, <4>1, <4>2 DEF LogIsTrue
    <3> QED BY <3>2, <3>3
  <2>4. LogIsTrue'
    BY <1>1, <2>3 DEF LogIsTrue, Is, Absent, RowsOf, Ids
  <2> QED BY <2>2, <2>4
<1> QED BY <1>1, <1>5, <1>6 DEF AuditInv

\* A statement has left row i gone or with the value, and the other rows as they were, but
\* for images that go with their album.
Obeyed(k, i, op, value) == IF op = "delete" THEN Absent(k, i)' ELSE Is(k, i, value)'
OthersKept(k, i, op) ==
  \A t \in Tables, j \in Nat : (t # k \/ j # i) /\ j \in Ids(t)' =>
    \/ /\ j \in Ids(t) /\ (Absent(t, j) <=> Absent(t, j)')
       /\ \A v : Is(t, j, v) <=> Is(t, j, v)'
    \/ /\ t = "image" /\ k = "album" /\ op = "delete" /\ Absent(t, j)'
       /\ j \in Ids(t) /\ (Pending(t, j) => overlapped')

\* A statement on row i of a table, whose entry its handler is about to insert: other rows
\* stay, but images that go with their album.
LEMMA StatementKeeps ==
  ASSUME AuditInv, NEW h \in ConsoleHandlers, NEW k \in Tables, NEW i \in Nat,
         NEW op \in {"create", "update", "delete"}, NEW value \in Values \cup {0},
         request[h] = Nothing,
         request' = [request EXCEPT ![h] = Entry(k, op, i, value)],
         overlapped' \in BOOLEAN, overlapped \/ Pending(k, i) => overlapped',
         UNCHANGED <<log, commanded, lost>>, made' \in [Tables -> Nat],
         \A t \in Tables : Ids(t) \subseteq Ids(t)', i \in Ids(k)',
         Obeyed(k, i, op, value),
         OthersKept(k, i, op),
         k # "album" \/ op = "delete" \/ i \notin Ids("album") \/ ~Absent("album", i)
  PROVE  AuditInv'
<1> USE DEF Obeyed, OthersKept
<1> DEFINE e == Entry(k, op, i, value)
<1>1. /\ AuditTypes /\ e \in Audited /\ e.kind = k /\ e.id = i /\ e.op = op /\ e.value = value
  BY DEF AuditInv, Audited, Entry
<1>2. e # Nothing
  BY <1>1 DEF Tables, Nothing
<1> HIDE DEF e
<1>3. /\ request'[h] = e /\ DOMAIN request' = ConsoleHandlers
      /\ \A g \in ConsoleHandlers : g # h => request'[g] = request[g]
  BY DEF AuditInv, AuditTypes, e
<1>4. \A t \in Tables : \A j : LastWord(t, j)' = LastWord(t, j)
  BY DEF LastWord, SelectLastInSeq, Max
<1>5. AuditTypes'
  <2>1. \A g \in ConsoleHandlers : request'[g] \in Audited \cup {Nothing}
    BY <1>1, <1>3 DEF AuditTypes
  <2>2. ASSUME NEW g \in ConsoleHandlers, NEW d \in Audited, request'[g] = d
        PROVE  d.id \in Ids(d.kind)'
    <3>1. CASE g = h
      BY <1>1, <1>3, <2>2, <3>1
    <3>2. CASE g # h
      <4>1. d.id \in Ids(d.kind) /\ d.kind \in Tables
        BY <1>1, <1>3, <2>2, <3>2 DEF AuditTypes, Audited
      <4> QED BY <4>1
    <3> QED BY <3>1, <3>2
  <2>3. \A t \in Tables : \A j : LastWord(t, j)' \in 0 .. Len(log')
    BY <1>1, <1>4 DEF AuditTypes
  <2> QED BY <1>1, <1>3, <2>1, <2>2, <2>3 DEF AuditTypes
<1>6. ASSUME ~overlapped', lost = 0
      PROVE  PendingIsTrue' /\ LogIsTrue'
  <2>1. PendingIsTrue /\ LogIsTrue /\ ~Pending(k, i)
    BY <1>1, <1>6 DEF AuditInv
  <2>2. ASSUME NEW t \in Tables, NEW j \in Nat, t # k \/ j # i, j \in Ids(t)'
        PROVE  Pending(t, j)' <=> Pending(t, j)
    <3>1. ~About(request'[h], t, j) /\ ~About(request[h], t, j)
      BY <1>1, <1>3, <2>2, NothingIsAboutNone DEF About
    <3> QED BY <1>3, <3>1 DEF Pending
  <2>3. PendingIsTrue'
    <3>1. ASSUME NEW g \in ConsoleHandlers, g # h, NEW d \in Audited, request[g] = d, Spoken(d.kind, d.id)'
          PROVE  IF d.op = "delete" THEN Absent(d.kind, d.id)' ELSE Is(d.kind, d.id, d.value)'
      <4> DEFINE t == d.kind
                 j == d.id
      <4>1. t \in Tables /\ j \in Nat /\ j \in Ids(t) /\ Pending(t, j)
        BY <1>1, <3>1 DEF AuditTypes, Audited, Pending, About
      <4>2. t # k \/ j # i
        BY <2>1, <4>1
      <4>3. Spoken(t, j)
        BY <3>1, <4>1 DEF Spoken
      <4>4. j \in Ids(t)'
        BY <4>1
      <4>5. IF d.op = "delete" THEN Absent(t, j) ELSE Is(t, j, d.value)
        BY <2>1, <3>1, <4>3 DEF PendingIsTrue
      <4> HIDE DEF t, j
      <4>6. (Absent(t, j) <=> Absent(t, j)') /\ \A v : Is(t, j, v) <=> Is(t, j, v)'
        BY <1>6, <4>1, <4>2, <4>4
      <4>7. IF d.op = "delete" THEN Absent(t, j)' ELSE Is(t, j, d.value)'
        BY <4>5, <4>6
      <4> QED BY <4>7 DEF t, j
    <3>2. ASSUME NEW d \in Audited, e = d
          PROVE  IF d.op = "delete" THEN Absent(d.kind, d.id)' ELSE Is(d.kind, d.id, d.value)'
      <4>1. d.op = op /\ d.kind = k /\ d.id = i /\ d.value = value
        BY <1>1, <3>2
      <4> QED BY <4>1
    <3> QED BY <1>3, <3>1, <3>2 DEF PendingIsTrue
  <2>4. LogIsTrue'
    <3>1. ASSUME NEW a \in Ids("album"), Absent("album", a)
          PROVE  a \in Ids("album")' /\ Absent("album", a)'
      <4>1. a \in Ids("album")' /\ a \in Nat /\ "album" \in Tables
        BY <3>1, <1>1 DEF AuditTypes, Ids, Tables
      <4>2. CASE k = "album" /\ a = i
        BY <3>1, <4>1, <4>2
      <4>3. CASE ~(k = "album" /\ a = i)
        <5>1. Absent("album", a) <=> Absent("album", a)'
          BY <4>1, <4>3
        <5> QED BY <3>1, <4>1, <5>1
      <4> QED BY <4>2, <4>3
    <3>2. ASSUME NEW t \in Tables, NEW j \in Nat, Spoken(t, j)', ~Pending(t, j)'
          PROVE  \/ \E d \in Audited : SaidOf(t, j, d) /\ d.op # "delete" /\ Is(t, j, d.value)'
                 \/ Absent(t, j)' /\ \E d \in Audited : SaidOf(t, j, d) /\ d.op = "delete"
                 \/ /\ Absent(t, j)' /\ t = "image"
                    /\ \E a \in Ids("album")' : Absent("album", a)'
      <4>1. t # k \/ j # i
        <5>1. Pending(k, i)'
          BY <1>1, <1>3 DEF Pending, About
        <5> QED BY <3>2, <5>1
      <4>2. j \in Ids(t)'
        BY <3>2 DEF Spoken
      <4>3. ~Pending(t, j)
        BY <2>2, <3>2, <4>1, <4>2
      <4>4. CASE /\ j \in Ids(t) /\ (Absent(t, j) <=> Absent(t, j)')
                 /\ \A v : Is(t, j, v) <=> Is(t, j, v)'
        <5>1. Spoken(t, j)
          BY <3>2, <4>4 DEF Spoken
        <5>2. \/ \E d \in Audited : SaidOf(t, j, d) /\ d.op # "delete" /\ Is(t, j, d.value)
              \/ Absent(t, j) /\ \E d \in Audited : SaidOf(t, j, d) /\ d.op = "delete"
              \/ Absent(t, j) /\ t = "image" /\ \E a \in Ids("album") : Absent("album", a)
          BY <2>1, <4>3, <5>1 DEF LogIsTrue
        <5> QED BY <3>1, <4>4, <5>2
      <4>5. CASE t = "image" /\ k = "album" /\ op = "delete" /\ Absent(t, j)'
        BY <4>5
      <4> QED BY <4>1, <4>2, <4>4, <4>5
    <3> QED BY <1>4, <3>2 DEF LogIsTrue, SaidOf
  <2> QED BY <2>3, <2>4
<1> QED BY <1>5, <1>6 DEF AuditInv

\* Tables that are as they were, or differ in one row only.
LEMMA OneRowDiffers ==
  ASSUME NEW k \in Tables, NEW i,
         \A t \in Tables : t # k => UNCHANGED RowsOf(t),
         \A x : x # i => /\ x \in DOMAIN RowsOf(k)' <=> x \in DOMAIN RowsOf(k)
                         /\ x \in DOMAIN RowsOf(k) => RowsOf(k)'[x] = RowsOf(k)[x]
  PROVE  \A t \in Tables : \A j : (t # k \/ j # i) =>
           (Absent(t, j) <=> Absent(t, j)') /\ \A v : Is(t, j, v) <=> Is(t, j, v)'
<1> SUFFICES ASSUME NEW t \in Tables, NEW j, t # k \/ j # i
             PROVE  (Absent(t, j) <=> Absent(t, j)') /\ \A v : Is(t, j, v) <=> Is(t, j, v)'
  OBVIOUS
<1>1. RowsOf("image") = images /\ RowsOf("image")' = images'
  BY DEF RowsOf
<1>2. CASE t # k
  BY <1>1, <1>2 DEF Absent, Is
<1>3. CASE t = k /\ j # i
  <2>1. /\ j \in DOMAIN RowsOf(t)' <=> j \in DOMAIN RowsOf(t)
        /\ j \in DOMAIN RowsOf(t) => RowsOf(t)'[j] = RowsOf(t)[j]
    BY <1>3
  <2> QED BY <1>1, <2>1 DEF Absent, Is
<1> QED BY <1>2, <1>3

\* The next id of a table, and those there are.
LEMMA IdsGrow ==
  ASSUME AuditTypes, NEW k \in Tables, Made(k)
  PROVE  /\ made' \in [Tables -> Nat] /\ NextId(k) \in Nat
         /\ \A t \in Tables : Ids(t) \subseteq Ids(t)'
         /\ NextId(k) \in Ids(k)' /\ NextId(k) \notin Ids(k)
         /\ \A t \in Tables : \A j : (t # k \/ j # NextId(k)) =>
              (j \in Ids(t)' => j \in Ids(t))
<1>1. made \in [Tables -> Nat] /\ made' = [made EXCEPT ![k] = @ + 1]
  BY DEF AuditTypes, Made
<1>2. made' \in [Tables -> Nat] /\ made[k] \in Nat /\ made'[k] = made[k] + 1
      /\ \A t \in Tables : t # k => made'[t] = made[t]
  BY <1>1
<1> QED BY <1>1, <1>2 DEF Ids, NextId

\* A statement that makes, changes or drops a single row.
LEMMA RowStatementKeeps ==
  ASSUME AuditInv, NEW h \in ConsoleHandlers, NEW k \in Tables, NEW i \in Nat,
         NEW op \in {"create", "update", "delete"}, NEW value \in Values \cup {0},
         Executed(h, k, op, i, value),
         IF op = "create" THEN Made(k) /\ i = NextId(k)
         ELSE i \in Ids(k) /\ UNCHANGED made,
         op = "update" => ~Absent(k, i),
         IF op = "delete" THEN Absent(k, i)' ELSE Is(k, i, value)',
         \A t \in Tables : \A j : (t # k \/ j # i) =>
           (Absent(t, j) <=> Absent(t, j)') /\ \A v : Is(t, j, v) <=> Is(t, j, v)'
  PROVE  AuditInv'
<1>1. AuditTypes /\ overlapped \in BOOLEAN
  BY DEF AuditInv, AuditTypes
<1>2. /\ made' \in [Tables -> Nat] /\ i \in Ids(k)'
      /\ \A t \in Tables : Ids(t) \subseteq Ids(t)'
      /\ \A t \in Tables : \A j : (t # k \/ j # i) => (j \in Ids(t)' => j \in Ids(t))
      /\ op = "create" => i \notin Ids(k)
  <2>1. CASE op = "create"
    BY <1>1, <2>1, IdsGrow
  <2>2. CASE op # "create"
    <3>1. UNCHANGED made /\ i \in Ids(k)
      BY <2>2
    <3>2. \A t : Ids(t)' = Ids(t)
      BY <3>1 DEF Ids
    <3> QED BY <1>1, <2>2, <3>1, <3>2 DEF AuditTypes
  <2> QED BY <2>1, <2>2
<1>3. /\ request[h] = Nothing
      /\ request' = [request EXCEPT ![h] = Entry(k, op, i, value)]
      /\ overlapped' = (overlapped \/ Pending(k, i)) /\ UNCHANGED <<log, commanded, lost>>
  BY DEF Executed, HasEntry
<1>4. overlapped' \in BOOLEAN /\ (overlapped \/ Pending(k, i) => overlapped')
  BY <1>1, <1>3
<1>5. k # "album" \/ op = "delete" \/ i \notin Ids("album") \/ ~Absent("album", i)
  BY <1>2
<1>6. OthersKept(k, i, op)
  BY <1>2 DEF OthersKept
<1>7. Obeyed(k, i, op, value)
  BY DEF Obeyed
<1>8. UNCHANGED <<log, commanded, lost>> /\ made' \in [Tables -> Nat] /\ i \in Ids(k)'
      /\ \A t \in Tables : Ids(t) \subseteq Ids(t)'
  BY <1>2, <1>3
<1> QED BY <1>3, <1>4, <1>5, <1>6, <1>7, <1>8, StatementKeeps

\* A row is put or dropped, and the rest of the tables is as it was.
LEMMA PutOrDropped ==
  ASSUME NEW k \in Tables, NEW i, NEW held, NEW v,
         \A t \in Tables : t # k => UNCHANGED RowsOf(t)
  PROVE  /\ RowsOf(k)' = With(RowsOf(k), i, held) \/ RowsOf(k)' = Without(RowsOf(k), {i}) =>
              \A t \in Tables : \A j : (t # k \/ j # i) =>
                (Absent(t, j) <=> Absent(t, j)') /\ \A w : Is(t, j, w) <=> Is(t, j, w)'
         /\ /\ RowsOf(k)' = With(RowsOf(k), i, held)
            /\ v = IF k = "image" THEN held.url ELSE held
            => Is(k, i, v)'
         /\ RowsOf(k)' = Without(RowsOf(k), {i}) => Absent(k, i)'
<1>1. ASSUME RowsOf(k)' = With(RowsOf(k), i, held)
      PROVE  \A x : x # i => /\ x \in DOMAIN RowsOf(k)' <=> x \in DOMAIN RowsOf(k)
                             /\ x \in DOMAIN RowsOf(k) => RowsOf(k)'[x] = RowsOf(k)[x]
  BY <1>1 DEF With
<1>2. ASSUME RowsOf(k)' = Without(RowsOf(k), {i})
      PROVE  \A x : x # i => /\ x \in DOMAIN RowsOf(k)' <=> x \in DOMAIN RowsOf(k)
                             /\ x \in DOMAIN RowsOf(k) => RowsOf(k)'[x] = RowsOf(k)[x]
  BY <1>2 DEF Without
<1>3. RowsOf(k)' = With(RowsOf(k), i, held) \/ RowsOf(k)' = Without(RowsOf(k), {i}) =>
        \A t \in Tables : \A j : (t # k \/ j # i) =>
          (Absent(t, j) <=> Absent(t, j)') /\ \A w : Is(t, j, w) <=> Is(t, j, w)'
  BY <1>1, <1>2, OneRowDiffers
<1>4. ASSUME RowsOf(k)' = With(RowsOf(k), i, held), v = IF k = "image" THEN held.url ELSE held
      PROVE  Is(k, i, v)'
  <2>1. i \in DOMAIN RowsOf(k)' /\ RowsOf(k)'[i] = held
    BY <1>4 DEF With
  <2>2. k = "image" => images'[i] = held
    BY <2>1 DEF RowsOf
  <2> QED BY <1>4, <2>1, <2>2 DEF Is
<1>5. ASSUME RowsOf(k)' = Without(RowsOf(k), {i})
      PROVE  Absent(k, i)'
  BY <1>5 DEF Absent, Without
<1> QED BY <1>3, <1>4, <1>5

\* The tables by name.
LEMMA RowsByName ==
  /\ RowsOf("album") = albums /\ RowsOf("image") = images /\ RowsOf("rule") = rules
  /\ RowsOf("album")' = albums' /\ RowsOf("image")' = images' /\ RowsOf("rule")' = rules'
BY DEF RowsOf

\* An edit of the dashboard puts or drops a row, and is about to be recorded.
LEMMA EditKeeps ==
  ASSUME AuditInv, NEW h \in ConsoleHandlers, NEW k \in Tables, NEW i \in Nat,
         NEW op \in {"create", "update", "delete"}, NEW value \in Values \cup {0}, NEW held,
         Executed(h, k, op, i, value),
         IF op = "create" THEN Made(k) /\ i = NextId(k)
         ELSE i \in Ids(k) /\ UNCHANGED made,
         op = "update" => i \in DOMAIN RowsOf(k),
         \A t \in Tables : t # k => UNCHANGED RowsOf(t),
         IF op = "delete" THEN RowsOf(k)' = Without(RowsOf(k), {i})
         ELSE RowsOf(k)' = With(RowsOf(k), i, held) /\ value = IF k = "image" THEN held.url ELSE held
  PROVE  AuditInv'
<1>1. op = "update" => ~Absent(k, i)
  BY DEF Absent
<1>2. IF op = "delete" THEN Absent(k, i)' ELSE Is(k, i, value)'
  BY PutOrDropped
<1>3. \A t \in Tables : \A j : (t # k \/ j # i) =>
        (Absent(t, j) <=> Absent(t, j)') /\ \A v : Is(t, j, v) <=> Is(t, j, v)'
  BY PutOrDropped
<1> QED BY <1>1, <1>2, <1>3, RowStatementKeeps

\* The edits of albums, images and rules, but their deletions.
LEMMA EditsKeep ==
  ASSUME AuditInv, NEW h \in ConsoleHandlers, NEW v \in Values, NEW a, NEW i \in Nat,
         \/ createAlbum(h, v) \/ (i \in Ids("album") /\ updateAlbum(h, i, v))
         \/ createImage(h, v, a)
         \/ (i \in Ids("image") /\ updateImage(h, i, v, a))
         \/ createRule(h, v)
         \/ (i \in Ids("rule") /\ updateRule(h, i, v))
  PROVE  AuditInv'
<1>1. /\ {"album", "image", "rule"} = Tables /\ v \in Values \cup {0} /\ 0 \in Values \cup {0}
      /\ [url |-> v, album |-> a].url = v
  BY DEF Tables
<1>2. \A k \in Tables : NextId(k) \in Nat
  BY DEF AuditInv, AuditTypes, NextId
<1>3. UNCHANGED <<images, rules>> => \A t \in Tables : t # "album" => UNCHANGED RowsOf(t)
  BY <1>1, RowsByName
<1>4. UNCHANGED <<albums, rules>> => \A t \in Tables : t # "image" => UNCHANGED RowsOf(t)
  BY <1>1, RowsByName
<1>5. UNCHANGED <<albums, images>> => \A t \in Tables : t # "rule" => UNCHANGED RowsOf(t)
  BY <1>1, RowsByName
<1>6. CASE createAlbum(h, v)
  <2>1. PICK n \in Nat : n = NextId("album")
    BY <1>1, <1>2
  <2> QED BY <1>1, <1>3, <1>6, <2>1, RowsByName, EditKeeps DEF createAlbum
<1>7. CASE i \in Ids("album") /\ updateAlbum(h, i, v)
  BY <1>1, <1>3, <1>7, RowsByName, EditKeeps DEF updateAlbum
<1>8. CASE createImage(h, v, a)
  <2>1. PICK n \in Nat : n = NextId("image")
    BY <1>1, <1>2
  <2> QED BY <1>1, <1>4, <1>8, <2>1, RowsByName, EditKeeps DEF createImage
<1>9. CASE i \in Ids("image") /\ updateImage(h, i, v, a)
  BY <1>1, <1>4, <1>9, RowsByName, EditKeeps DEF updateImage
<1>10. CASE createRule(h, v)
  <2>1. PICK n \in Nat : n = NextId("rule")
    BY <1>1, <1>2
  <2> QED BY <1>1, <1>5, <1>10, <2>1, RowsByName, EditKeeps DEF createRule
<1>11. CASE i \in Ids("rule") /\ updateRule(h, i, v)
  BY <1>1, <1>5, <1>11, RowsByName, EditKeeps DEF updateRule
<1> QED BY <1>6, <1>7, <1>8, <1>9, <1>10, <1>11

\* The deletions of images and rules.
LEMMA DeletionsKeep ==
  ASSUME AuditInv, NEW h \in ConsoleHandlers,
         \/ \E i \in Ids("image") : deleteImage(h, i)
         \/ \E i \in Ids("rule") : deleteRule(h, i)
  PROVE  AuditInv'
<1>1. "image" \in Tables /\ "rule" \in Tables /\ 0 \in Values \cup {0} /\ \A t : Ids(t) \subseteq Nat
  BY DEF Tables, Ids
<1>2. ASSUME NEW i \in Ids("image"), deleteImage(h, i)
      PROVE  AuditInv'
  <2>1. /\ Executed(h, "image", "delete", i, 0) /\ images' = Without(images, {i})
        /\ UNCHANGED <<albums, rules, made>> /\ i \in Nat
    BY <1>1, <1>2 DEF deleteImage
  <2>2. \A t \in Tables : t # "image" => UNCHANGED RowsOf(t)
    BY <2>1, RowsByName DEF Tables
  <2> QED BY <1>1, <2>1, <2>2, RowsByName, EditKeeps
<1>3. ASSUME NEW i \in Ids("rule"), deleteRule(h, i)
      PROVE  AuditInv'
  <2>1. /\ Executed(h, "rule", "delete", i, 0) /\ rules' = Without(rules, {i})
        /\ UNCHANGED <<albums, images, made>> /\ i \in Nat
    BY <1>1, <1>3 DEF deleteRule
  <2>2. \A t \in Tables : t # "rule" => UNCHANGED RowsOf(t)
    BY <2>1, RowsByName DEF Tables
  <2> QED BY <1>1, <2>1, <2>2, RowsByName, EditKeeps
<1> QED BY <1>2, <1>3

\* An album is deleted, its images with it.
LEMMA DeleteAlbumKeeps ==
  ASSUME AuditInv, NEW h \in ConsoleHandlers, NEW i \in Ids("album"), deleteAlbum(h, i)
  PROVE  AuditInv'
<1>1. /\ AuditTypes /\ overlapped \in BOOLEAN /\ made \in [Tables -> Nat] /\ i \in Nat
      /\ Tables = {"album", "image", "rule"} /\ 0 \in Values \cup {0}
  BY DEF AuditInv, AuditTypes, Tables, Ids
<1>2. /\ albums' = Without(albums, {i}) /\ images' = Without(images, Inside(i))
      /\ request[h] = Nothing
      /\ request' = [request EXCEPT ![h] = Entry("album", "delete", i, 0)]
      /\ overlapped' = (overlapped \/ Pending("album", i)
                     \/ \E x \in Inside(i) : Pending("image", x))
      /\ UNCHANGED <<rules, made, log, commanded, lost>>
  BY DEF deleteAlbum, HasEntry
<1>3. /\ overlapped' \in BOOLEAN /\ (overlapped \/ Pending("album", i) => overlapped')
      /\ \A x \in Inside(i) : Pending("image", x) => overlapped'
  BY <1>1, <1>2
<1>4. \A t : Ids(t)' = Ids(t)
  BY <1>2 DEF Ids
<1>5. Obeyed("album", i, "delete", 0)
  BY <1>2, RowsByName DEF Obeyed, Absent, Without
<1>6. ASSUME NEW t \in Tables, NEW j \in Nat, t # "album" \/ j # i, j \in Ids(t)'
      PROVE  \/ /\ j \in Ids(t) /\ (Absent(t, j) <=> Absent(t, j)')
                /\ \A v : Is(t, j, v) <=> Is(t, j, v)'
             \/ /\ t = "image" /\ "album" = "album" /\ "delete" = "delete" /\ Absent(t, j)'
                /\ j \in Ids(t) /\ (Pending(t, j) => overlapped')
  <2>1. j \in Ids(t)
    BY <1>4, <1>6
  <2>2. CASE t = "album"
    <3>1. /\ j \in DOMAIN albums' <=> j \in DOMAIN albums
          /\ j \in DOMAIN albums => albums'[j] = albums[j]
      BY <1>2, <1>6, <2>2 DEF Without
    <3> QED BY <2>1, <2>2, <3>1, RowsByName DEF Absent, Is
  <2>4. CASE t = "image" /\ j \in Inside(i)
    <3>1. j \notin DOMAIN images'
      BY <1>2, <2>4 DEF Without
    <3> QED BY <1>3, <2>1, <2>4, <3>1, RowsByName DEF Absent
  <2>5. CASE t = "image" /\ j \notin Inside(i)
    <3>1. /\ j \in DOMAIN images' <=> j \in DOMAIN images
          /\ j \in DOMAIN images => images'[j] = images[j]
      BY <1>2, <2>5 DEF Without
    <3> QED BY <2>1, <2>5, <3>1, RowsByName DEF Absent, Is
  <2>6. CASE t = "rule"
    BY <1>2, <2>1, <2>6, RowsByName DEF Absent, Is
  <2> QED BY <1>1, <2>2, <2>4, <2>5, <2>6
<1>7. OthersKept("album", i, "delete")
  BY <1>6 DEF OthersKept
<1>8. UNCHANGED <<log, commanded, lost>> /\ made' \in [Tables -> Nat] /\ i \in Ids("album")'
      /\ \A t \in Tables : Ids(t) \subseteq Ids(t)'
  BY <1>1, <1>2, <1>4
<1> QED BY <1>1, <1>2, <1>3, <1>5, <1>7, <1>8, StatementKeeps

\* A command edits rules that the audit no longer speaks of.
LEMMA CommandKeeps ==
  ASSUME AuditInv, NEW i \in Nat, i \in Ids("rule")', Commanded(i),
         made' \in [Tables -> Nat], \A t \in Tables : Ids(t) \subseteq Ids(t)',
         \A t \in Tables, j \in Nat : j \in Ids(t)' /\ (t # "rule" \/ j # i) => j \in Ids(t),
         \A t \in Tables : \A j : (t # "rule" \/ j # i) =>
           (Absent(t, j) <=> Absent(t, j)') /\ \A v : Is(t, j, v) <=> Is(t, j, v)'
  PROVE  AuditInv'
<1>1. /\ AuditTypes /\ commanded' = commanded \cup {i}
      /\ UNCHANGED <<request, log, overlapped, lost>>
  BY DEF AuditInv, Commanded
<1>2. \A t \in Tables : \A j : LastWord(t, j)' = LastWord(t, j)
  BY <1>1 DEF LastWord, SelectLastInSeq, Max
<1>3. AuditTypes'
  <2>1. \A g \in ConsoleHandlers, d \in Audited : request[g] = d => d.id \in Ids(d.kind)'
    BY <1>1 DEF AuditTypes, Audited
  <2> QED BY <1>1, <1>2, <2>1 DEF AuditTypes
<1>4. ASSUME NEW t \in Tables, NEW j \in Nat, Spoken(t, j)'
      PROVE  /\ Spoken(t, j) /\ (Absent(t, j) <=> Absent(t, j)')
             /\ \A v : Is(t, j, v) <=> Is(t, j, v)'
  <2>1. t # "rule" \/ j # i
    BY <1>1, <1>4 DEF Spoken
  <2>2. j \in Ids(t)'
    BY <1>4 DEF Spoken
  <2>3. Spoken(t, j)
    BY <1>1, <1>4, <2>1, <2>2 DEF Spoken
  <2> QED BY <2>1, <2>3
<1>5. ASSUME ~overlapped, lost = 0
      PROVE  PendingIsTrue' /\ LogIsTrue'
  <2>1. PendingIsTrue /\ LogIsTrue
    BY <1>5 DEF AuditInv
  <2>2. ASSUME NEW g \in ConsoleHandlers, NEW d \in Audited, request[g] = d, Spoken(d.kind, d.id)'
        PROVE  IF d.op = "delete" THEN Absent(d.kind, d.id)' ELSE Is(d.kind, d.id, d.value)'
    <3>1. PICK t \in Tables, j \in Nat : t = d.kind /\ j = d.id
      BY DEF Audited
    <3>2. Spoken(t, j)'
      BY <2>2, <3>1
    <3>3. Spoken(t, j) /\ (Absent(t, j) <=> Absent(t, j)') /\ \A v : Is(t, j, v) <=> Is(t, j, v)'
      BY <1>4, <3>2
    <3>4. IF d.op = "delete" THEN Absent(t, j) ELSE Is(t, j, d.value)
      BY <2>1, <2>2, <3>1, <3>3 DEF PendingIsTrue
    <3>5. IF d.op = "delete" THEN Absent(t, j)' ELSE Is(t, j, d.value)'
      BY <3>3, <3>4
    <3> QED BY <3>1, <3>5
  <2>3. PendingIsTrue'
    BY <1>1, <2>2 DEF PendingIsTrue
  <2>4. ASSUME NEW a \in Ids("album"), Absent("album", a)
        PROVE  a \in Ids("album")' /\ Absent("album", a)'
    <3>1. "album" \in Tables
      BY DEF Tables
    <3> QED BY <2>4, <3>1
  <2>5. ASSUME NEW t \in Tables, NEW j \in Nat, Spoken(t, j)', ~Pending(t, j)
        PROVE  \/ \E d \in Audited : SaidOf(t, j, d) /\ d.op # "delete" /\ Is(t, j, d.value)'
               \/ Absent(t, j)' /\ \E d \in Audited : SaidOf(t, j, d) /\ d.op = "delete"
               \/ /\ Absent(t, j)' /\ t = "image"
                  /\ \E a \in Ids("album")' : Absent("album", a)'
    <3>1. Spoken(t, j) /\ (Absent(t, j) <=> Absent(t, j)') /\ \A v : Is(t, j, v) <=> Is(t, j, v)'
      BY <1>4, <2>5
    <3>2. \/ \E d \in Audited : SaidOf(t, j, d) /\ d.op # "delete" /\ Is(t, j, d.value)
          \/ Absent(t, j) /\ \E d \in Audited : SaidOf(t, j, d) /\ d.op = "delete"
          \/ Absent(t, j) /\ t = "image" /\ \E a \in Ids("album") : Absent("album", a)
      BY <2>1, <2>5, <3>1 DEF LogIsTrue
    <3> QED BY <2>4, <3>1, <3>2
  <2>6. \A t, j : Pending(t, j)' <=> Pending(t, j)
    BY <1>1 DEF Pending
  <2>7. LogIsTrue'
    BY <1>1, <1>2, <2>5, <2>6 DEF LogIsTrue, SaidOf
  <2> QED BY <2>3, <2>7
<1> QED BY <1>1, <1>3, <1>5 DEF AuditInv

\* The two commands.
LEMMA CommandsKeep ==
  ASSUME AuditInv, (\E v \in Values : scheduleAdd(v))
                     \/ (\E i \in Ids("rule") : scheduleRemove(i))
  PROVE  AuditInv'
<1>1. AuditTypes /\ "rule" \in Tables /\ Tables = {"album", "image", "rule"}
  BY DEF AuditInv, Tables
<1>2. UNCHANGED <<albums, images>> => \A t \in Tables : t # "rule" => UNCHANGED RowsOf(t)
  BY <1>1, RowsByName
<1>3. ASSUME NEW v \in Values, scheduleAdd(v)
      PROVE  AuditInv'
  <2>1. PICK n : n = NextId("rule")
    OBVIOUS
  <2>2. /\ Made("rule") /\ rules' = With(rules, n, v) /\ Commanded(n)
        /\ UNCHANGED <<albums, images>>
    BY <1>3, <2>1 DEF scheduleAdd, Commanded
  <2>3. \A t \in Tables : \A j : (t # "rule" \/ j # n) =>
          (Absent(t, j) <=> Absent(t, j)') /\ \A w : Is(t, j, w) <=> Is(t, j, w)'
    BY <1>1, <1>2, <2>2, RowsByName, PutOrDropped
  <2>4. /\ made' \in [Tables -> Nat] /\ n \in Nat /\ n \in Ids("rule")'
        /\ \A t \in Tables : Ids(t) \subseteq Ids(t)'
        /\ \A t \in Tables : \A j : (t # "rule" \/ j # n) => (j \in Ids(t)' => j \in Ids(t))
    BY <1>1, <2>1, <2>2, IdsGrow
  <2> QED BY <2>2, <2>3, <2>4, CommandKeeps
<1>4. ASSUME NEW i \in Ids("rule"), scheduleRemove(i)
      PROVE  AuditInv'
  <2>1. /\ rules' = Without(rules, {i}) /\ Commanded(i)
        /\ UNCHANGED <<albums, images, made>>
    BY <1>4 DEF scheduleRemove, Commanded
  <2>2. \A t \in Tables : \A j : (t # "rule" \/ j # i) =>
          (Absent(t, j) <=> Absent(t, j)') /\ \A w : Is(t, j, w) <=> Is(t, j, w)'
    BY <1>1, <1>2, <2>1, RowsByName, PutOrDropped
  <2>3. /\ made' \in [Tables -> Nat] /\ i \in Nat /\ \A t : Ids(t)' = Ids(t)
    BY <1>1, <2>1 DEF AuditTypes, Ids
  <2> QED BY <1>4, <2>1, <2>2, <2>3, CommandKeeps
<1> QED BY <1>3, <1>4

\* Entries are lost, after which the log is not believed.
LEMMA LossesKeep ==
  ASSUME AuditInv, ConsoleCrash \/ \E h \in ConsoleHandlers : RecordAuditError(h)
  PROVE  AuditInv'
<1>1. AuditTypes /\ Lose /\ UNCHANGED <<made, log, overlapped>>
  BY DEF AuditInv, ConsoleCrash, RecordAuditError
<1>2. lost' \in Nat /\ lost' # 0
  BY <1>1 DEF AuditTypes, Lose
<1>3. /\ DOMAIN request' = ConsoleHandlers
      /\ \A g \in ConsoleHandlers : request'[g] \in {request[g], Nothing}
  <2>1. CASE ConsoleCrash
    BY <2>1 DEF ConsoleCrash
  <2>2. ASSUME NEW h \in ConsoleHandlers, RecordAuditError(h)
        PROVE  /\ DOMAIN request' = ConsoleHandlers
               /\ \A g \in ConsoleHandlers : request'[g] \in {request[g], Nothing}
    BY <1>1, <2>2 DEF RecordAuditError, AuditTypes
  <2> QED BY <2>1, <2>2
<1>4. \A t, j : LastWord(t, j)' = LastWord(t, j)
  BY <1>1 DEF LastWord, SelectLastInSeq, Max
<1>5. Nothing \notin Audited
  BY DEF Nothing, Audited, Tables
<1>6. \A g \in ConsoleHandlers : request'[g] \in Audited \cup {Nothing}
  BY <1>1, <1>3 DEF AuditTypes
<1>7. \A g \in ConsoleHandlers, d \in Audited : request'[g] = d => d.id \in Ids(d.kind)'
  BY <1>1, <1>3, <1>5 DEF AuditTypes, Ids
<1>8. AuditTypes'
  BY <1>1, <1>2, <1>3, <1>4, <1>6, <1>7 DEF AuditTypes
<1> QED BY <1>2, <1>8 DEF AuditInv

\* At first there is no row and no entry.
LEMMA AuditInvInit == ConsoleInit => AuditInv
<1> SUFFICES ASSUME ConsoleInit
             PROVE  AuditInv
  OBVIOUS
<1>1. /\ made = [album |-> 0, image |-> 0, rule |-> 0]
      /\ request = [h \in ConsoleHandlers |-> Nothing] /\ log = <<>> /\ overlapped = FALSE /\ lost = 0
  BY DEF ConsoleInit
<1>2. made \in [Tables -> Nat] /\ \A t \in Tables : made[t] = 0
  BY <1>1 DEF Tables
<1>3. \A t \in Tables : \A j : ~Spoken(t, j)
  BY <1>2 DEF Spoken, Ids
<1>4. \A t, j : LastWord(t, j) = 0
  <2> SUFFICES ASSUME NEW t, NEW j
               PROVE  LastWord(t, j) = 0
    OBVIOUS
  <2>1. {x \in 1 .. Len(log) : About(log[x], t, j)} = {}
    BY <1>1
  <2> QED BY <2>1 DEF LastWord, SelectLastInSeq
<1>5. Nothing \notin Audited /\ \A h \in ConsoleHandlers : request[h] = Nothing
  BY <1>1 DEF Nothing, Audited, Tables
<1>6. log \in Seq(Audited) /\ Len(log) = 0
  BY <1>1
<1>7. AuditTypes
  <2>1. DOMAIN request = ConsoleHandlers /\ lost \in Nat /\ overlapped \in BOOLEAN
    BY <1>1
  <2>2. \A t \in Tables : \A j : LastWord(t, j) \in 0 .. Len(log)
    BY <1>4, <1>6
  <2>3. \A h \in ConsoleHandlers : request[h] \in Audited \cup {Nothing}
    BY <1>5
  <2>4. \A h \in ConsoleHandlers, e \in Audited : request[h] = e => e.id \in Ids(e.kind)
    BY <1>5
  <2> QED BY <1>2, <1>6, <2>1, <2>2, <2>3, <2>4 DEF AuditTypes
<1>8. PendingIsTrue
  BY <1>5 DEF PendingIsTrue
<1>9. LogIsTrue
  BY <1>3 DEF LogIsTrue
<1> QED BY <1>7, <1>8, <1>9 DEF AuditInv

\* Every step keeps the audit's invariant.
LEMMA AuditInvNext == AuditInv /\ [ConsoleNext]_console => AuditInv'
<1> SUFFICES ASSUME AuditInv, [ConsoleNext]_console
             PROVE  AuditInv'
  OBVIOUS
<1>1. CASE UNCHANGED console
  <2>1. UNCHANGED <<albums, images, rules, made, request, log, overlapped, commanded, asked, lost>>
    BY <1>1 DEF console
  <2>2. \A t, j : LastWord(t, j)' = LastWord(t, j)
    BY <2>1 DEF LastWord, SelectLastInSeq, Max
  <2>3. AuditTypes'
    BY <2>1, <2>2 DEF AuditInv, AuditTypes, Ids
  <2>4. ASSUME ~overlapped, lost = 0
        PROVE  PendingIsTrue' /\ LogIsTrue'
    <3>1. PendingIsTrue /\ LogIsTrue
      BY <2>4 DEF AuditInv
    <3>2. /\ \A t, j : (Spoken(t, j)' <=> Spoken(t, j)) /\ (Absent(t, j)' <=> Absent(t, j))
          /\ \A t, j : Pending(t, j)' <=> Pending(t, j)
          /\ \A t, j, v : Is(t, j, v)' <=> Is(t, j, v)
          /\ \A t, j, e : SaidOf(t, j, e)' <=> SaidOf(t, j, e)
          /\ Ids("album")' = Ids("album")
      BY <2>1, <2>2 DEF Spoken, Absent, Is, SaidOf, RowsOf, Ids, Pending
    <3>3. PendingIsTrue'
      BY <2>1, <3>1 DEF PendingIsTrue, Spoken, Absent, Is, RowsOf, Ids
    <3>4. LogIsTrue'
      BY <3>1, <3>2 DEF LogIsTrue
    <3> QED BY <3>3, <3>4
  <2> QED BY <2>1, <2>3, <2>4 DEF AuditInv
<1>2. ASSUME NEW h \in ConsoleHandlers, NEW v \in Values, NEW a, NEW i \in Nat,
             \/ createAlbum(h, v) \/ (i \in Ids("album") /\ updateAlbum(h, i, v))
             \/ createImage(h, v, a)
             \/ (i \in Ids("image") /\ updateImage(h, i, v, a))
             \/ createRule(h, v)
             \/ (i \in Ids("rule") /\ updateRule(h, i, v))
      PROVE  AuditInv'
  BY <1>2, EditsKeep
<1>3. CASE ConsoleNext
  <2>1. CASE \E h \in ConsoleHandlers, v \in Values :
               \/ createAlbum(h, v) \/ createRule(h, v)
               \/ \E a \in 0 .. made.album :
                    \/ createImage(h, v, a)
                    \/ \E i \in Ids("image") : updateImage(h, i, v, a)
               \/ \E i \in Ids("album") : updateAlbum(h, i, v)
               \/ \E i \in Ids("rule") : updateRule(h, i, v)
    <3>1. \A t : Ids(t) \subseteq Nat
      BY DEF Ids
    <3>2. 0 \in Nat
      OBVIOUS
    <3> QED BY <1>2, <2>1, <3>1, <3>2
  <2>2. CASE \E h \in ConsoleHandlers :
               \/ \E i \in Ids("image") : deleteImage(h, i)
               \/ \E i \in Ids("rule") : deleteRule(h, i)
    BY <2>2, DeletionsKeep
  <2>3. CASE \E h \in ConsoleHandlers : \E i \in Ids("album") : deleteAlbum(h, i)
    BY <2>3, DeleteAlbumKeeps
  <2>4. CASE \E h \in ConsoleHandlers : RecordAudit(h)
    BY <2>4, RecordAuditKeeps
  <2>5. CASE ConsoleCrash \/ \E h \in ConsoleHandlers : RecordAuditError(h)
    BY <2>5, LossesKeep
  <2>6. CASE \/ \E v \in Values : scheduleAdd(v)
             \/ \E i \in Ids("rule") : scheduleRemove(i)
    BY <2>6, CommandsKeep
  <2> QED BY <1>3, <2>1, <2>2, <2>3, <2>4, <2>5, <2>6 DEF ConsoleNext
<1> QED BY <1>1, <1>3

(***************************************************************************)
(* The audit of the dashboard tells the truth: unless an entry was lost or *)
(* edits of one row overlapped, the last entry about a row says what it    *)
(* holds or that it is gone.                                               *)
(***************************************************************************)
THEOREM AuditIsTrue == ConsoleSpec => []AuditTellsTheTruth
<1>1. ASSUME AuditInv
      PROVE  AuditTellsTheTruth
  <2> SUFFICES ASSUME ~overlapped, lost = 0
               PROVE  AuditTellsTheTruth
    BY DEF AuditTellsTheTruth
  <2>1. AuditTypes /\ LogIsTrue /\ Tables = {"album", "image", "rule"}
    BY <1>1 DEF AuditInv, Tables
  <2>2. ASSUME NEW k \in Tables, NEW i, Spoken(k, i)
        PROVE  \/ Pending(k, i)
               \/ /\ i \in DOMAIN RowsOf(k)
                  /\ LastWord(k, i) # 0
                  /\ log[LastWord(k, i)].op # "delete"
                  /\ Is(k, i, log[LastWord(k, i)].value)
               \/ /\ i \notin DOMAIN RowsOf(k)
                  /\ \/ LastWord(k, i) # 0 /\ log[LastWord(k, i)].op = "delete"
                     \/ k = "image" /\ \E a \in Ids("album") : Absent("album", a)
    <3>1. i \in Nat
      BY <2>2 DEF Spoken, Ids
    <3> QED BY <2>1, <2>2, <3>1 DEF LogIsTrue, SaidOf, Is, Absent
  <2>3. ASSUME NEW a \in Ids("album"), Absent("album", a)
        PROVE  \/ LastWord("album", a) # 0 /\ log[LastWord("album", a)].op = "delete"
               \/ Pending("album", a)
    <3>1. Spoken("album", a)
      BY <2>3 DEF Spoken
    <3> QED BY <2>1, <2>2, <2>3, <3>1 DEF Absent
  <2>4. \A i \in Ids("album") : Spoken("album", i)
    BY DEF Spoken
  <2>5. \A i \in Ids("image") : Spoken("image", i)
    BY DEF Spoken
  <2>6. \A i \in Ids("rule") \ commanded : Spoken("rule", i)
    BY DEF Spoken
  <2> QED BY <2>1, <2>2, <2>3, <2>4, <2>5, <2>6, RowsByName DEF Is, AuditTellsTheTruth
<1> QED BY <1>1, AuditInvInit, AuditInvNext, PTL DEF ConsoleSpec

================================================================================
