------------------------------ MODULE DeployJob ------------------------------
(***************************************************************************)
(* Device drivers of the CyberController: upload of a JAR into the         *)
(* backend's directory, and the background jobs that deploy JARs over SSH  *)
(* (backend/app/routes/cybercontroller.py, backend/app/utils/              *)
(* device_driver.py).                                                      *)
(*                                                                         *)
(* A job runs in a thread of the executor; two jobs for one CyberController *)
(* use the same SSH client, which lets one command of either through at a  *)
(* time, and the same file upload_DD.sh on the host.                       *)
(***************************************************************************)
EXTENDS Integers, Sequences, FiniteSets

CONSTANTS
  Drivers,     \* names of JAR files
  Jobs,        \* deploy requests
  Orders,      \* lists of drivers a request may name
  MaxUploads   \* bound on the uploads

\* A request that names no driver is refused.
ASSUME DeployAssumption ==
  /\ \A o \in Orders : o \in Seq(Drivers) /\ o # <<>>
  /\ MaxUploads \in Nat

VARIABLES
  reading,   \* uploads[d]: requests between the check of the name and the write
  uploads,   \* number of uploads begun
  jar,       \* JARs in the backend's directory
  meta,      \* meta[d]: number of documents with upload metadata of d
  order,     \* order[j]: driver_filenames of the request
  job,       \* job[j]: its document in driver_deploy_jobs
  thread,    \* thread[j]: what its thread does next
  done,      \* done[j]: results of the thread so far, TRUE for success
  script,    \* upload_DD.sh on the CyberController
  installed, \* drivers the CyberController has
  deployed   \* drivers whose document says "deployed"

deployVars == <<reading, uploads, jar, meta, order, job, thread, done, script, installed, deployed>>

NoJob == [status |-> "none", succeeded |-> 0, failed |-> 0, results |-> <<>>]
Statuses == {"none", "pending", "running", "completed", "failed"}
ThreadStates == {"none", "begin", "script", "ending", "run", "record", "finish", "gone"}
Successes(results) == Cardinality({i \in 1 .. Len(results) : results[i]})

JobDocuments == [status : Statuses, succeeded : Nat, failed : Nat, results : Seq(BOOLEAN)]

DeployTypeOK ==
  /\ uploads \in 0 .. MaxUploads
  /\ reading \in [Drivers -> Nat] /\ meta \in [Drivers -> Nat]
  /\ \A d \in Drivers : reading[d] + meta[d] <= uploads
  /\ jar \subseteq Drivers
  /\ order \in [Jobs -> Orders \cup {<<>>}]
  /\ job \in [Jobs -> JobDocuments]
  /\ thread \in [Jobs -> ThreadStates]
  /\ done \in [Jobs -> Seq(BOOLEAN)]
  /\ \A j \in Jobs : Len(done[j]) <= Len(order[j])
  /\ script \in {"none", "crlf", "lf"}
  /\ installed \subseteq Drivers
  /\ deployed \subseteq Drivers

DeployInit ==
  /\ reading = [d \in Drivers |-> 0] /\ uploads = 0
  /\ jar = {} /\ meta = [d \in Drivers |-> 0]
  /\ order = [j \in Jobs |-> <<>>]
  /\ job = [j \in Jobs |-> NoJob]
  /\ thread = [j \in Jobs |-> "none"]
  /\ done = [j \in Jobs |-> <<>>]
  /\ script = "none" /\ installed = {} /\ deployed = {}

-----------------------------------------------------------------------------
(* Uploads.                                                                *)

uploadVars == <<reading, uploads, jar, meta>>
jobVars    == <<order, job, thread, done, script, installed, deployed>>

\* save_uploaded_driver looks for the file and then awaits the request's body;
\* a file that is there is answered as success and left alone.
BeginUpload(d) ==
  /\ uploads < MaxUploads
  /\ d \notin jar
  /\ uploads' = uploads + 1
  /\ reading' = [reading EXCEPT ![d] = @ + 1]
  /\ UNCHANGED <<jar, meta, jobVars>>

\* The file is written and its metadata stored; MongoDB's failure is not fatal.
EndUpload(d) ==
  /\ reading[d] > 0
  /\ reading' = [reading EXCEPT ![d] = @ - 1]
  /\ jar' = jar \cup {d}
  /\ \/ meta' = [meta EXCEPT ![d] = @ + 1]
     \/ UNCHANGED meta
  /\ UNCHANGED <<uploads, jobVars>>

-----------------------------------------------------------------------------
(* The request and its job.                                                *)

\* deploy_device_drivers: every file must exist; the job's document is made and
\* its task created, without an await.
Deploy(j) ==
  /\ job[j].status = "none"
  /\ \E o \in Orders :
       /\ \A i \in 1 .. Len(o) : o[i] \in jar
       /\ order' = [order EXCEPT ![j] = o]
  /\ job' = [job EXCEPT ![j].status = "pending"]
  /\ thread' = [thread EXCEPT ![j] = "begin"]
  /\ UNCHANGED <<done, script, installed, deployed, uploadVars>>

\* _run_deploy_job: "running", then deploy_multiple_drivers in a thread.
Begin(j) ==
  /\ thread[j] = "begin"
  /\ job' = [job EXCEPT ![j].status = "running"]
  /\ thread' = [thread EXCEPT ![j] = "script"]
  /\ UNCHANGED <<order, done, script, installed, deployed, uploadVars>>

\* The first write raises: the job has failed and deploys nothing.
BeginFails(j) ==
  /\ thread[j] = "begin"
  /\ job' = [job EXCEPT ![j].status = "failed"]
  /\ thread' = [thread EXCEPT ![j] = "none"]
  /\ UNCHANGED <<order, done, script, installed, deployed, uploadVars>>

Current(j) == order[j][Len(done[j]) + 1]

\* One result of deploy_driver_to_cc; the next step records it.
Result(j, success) ==
  /\ done' = [done EXCEPT ![j] = Append(@, success)]
  /\ thread' = [thread EXCEPT ![j] = "record"]

\* Any step of deploy_driver_to_cc that fails or raises.
DriverFails(j) ==
  /\ thread[j] \in {"script", "run"}
  /\ Result(j, FALSE)
  /\ UNCHANGED <<order, job, script, installed, deployed, uploadVars>>

PutScript(j) ==
  /\ thread[j] = "script"
  /\ script' = "crlf"
  /\ thread' = [thread EXCEPT ![j] = "ending"]
  /\ UNCHANGED <<order, job, done, installed, deployed, uploadVars>>

\* sed on the host; its failure is only logged.
ConvertEndings(j) ==
  /\ thread[j] = "ending"
  /\ script' \in {"lf", script}
  /\ thread' = [thread EXCEPT ![j] = "run"]
  /\ UNCHANGED <<order, job, done, installed, deployed, uploadVars>>

\* The JAR is copied and the script run on it.  A script another job has just put
\* there again does not run; "already exists" is a success too.
RunScript(j) ==
  /\ thread[j] = "run"
  /\ Current(j) \in jar
  /\ script = "lf"
  /\ installed' = installed \cup {Current(j)}
  /\ Result(j, TRUE)
  /\ UNCHANGED <<order, job, script, deployed, uploadVars>>

\* The script did install the driver, but its answer came too late or was unreadable.
AnswerLost(j) ==
  /\ thread[j] = "run"
  /\ script = "lf"
  /\ installed' = installed \cup {Current(j)}
  /\ Result(j, FALSE)
  /\ UNCHANGED <<order, job, script, deployed, uploadVars>>

\* The result is pushed and both counters are set to the thread's own; a failed
\* write is only logged.
ProgressIncremented(j) ==
  LET last == done[j][Len(done[j])] IN
  [job[j] EXCEPT !.results = Append(@, last),
                 !.succeeded = @ + (IF last THEN 1 ELSE 0),
                 !.failed = @ + (IF last THEN 0 ELSE 1)]
Progress(j) ==
  [job[j] EXCEPT !.results = Append(@, done[j][Len(done[j])]),
                 !.succeeded = Successes(done[j]),
                 !.failed = Len(done[j]) - Successes(done[j])]

Record(j) ==
  /\ thread[j] = "record"
  /\ \/ job' = [job EXCEPT ![j] = Progress(j)]
     \/ UNCHANGED job
  /\ thread' = [thread EXCEPT ![j] = IF Len(done[j]) = Len(order[j]) THEN "finish" ELSE "script"]
  /\ UNCHANGED <<order, done, script, installed, deployed, uploadVars>>

\* The drivers that succeeded are marked as deployed and the job as completed,
\* or a write fails on the way and the job is marked as failed.
MarkedBy(j) == {order[j][i] : i \in {k \in 1 .. Len(done[j]) : done[j][k]}}

FinishUnguarded(j) ==
  /\ thread[j] = "finish"
  /\ \/ /\ deployed' = deployed \cup MarkedBy(j)
        /\ job' = [job EXCEPT ![j].status = "completed"]
     \/ /\ deployed' = deployed
        /\ UNCHANGED job
  /\ thread' = [thread EXCEPT ![j] = "none"]
  /\ UNCHANGED <<order, done, script, installed, uploadVars>>
Finish(j) ==
  /\ thread[j] = "finish"
  /\ \/ /\ deployed' = deployed \cup MarkedBy(j)
        /\ job' = [job EXCEPT ![j].status = "completed"]
     \/ /\ \E marked \in SUBSET MarkedBy(j) : deployed' = deployed \cup marked
        /\ job' = [job EXCEPT ![j].status = "failed"]
  /\ thread' = [thread EXCEPT ![j] = "none"]
  /\ UNCHANGED <<order, done, script, installed, uploadVars>>

\* A restart of the backend, or a database that refuses even the last write:
\* nothing resumes the job, whose document keeps its status.
Abandon(j) ==
  /\ thread[j] \notin {"none", "gone"}
  /\ thread' = [thread EXCEPT ![j] = "gone"]
  /\ UNCHANGED <<order, job, done, script, installed, deployed, uploadVars>>

-----------------------------------------------------------------------------
JobStep(j) ==
  \/ Begin(j) \/ BeginFails(j) \/ PutScript(j) \/ ConvertEndings(j) \/ RunScript(j)
  \/ AnswerLost(j) \/ DriverFails(j) \/ Record(j) \/ Finish(j)

DeployNext ==
  \/ \E d \in Drivers : BeginUpload(d) \/ EndUpload(d)
  \/ \E j \in Jobs : Deploy(j) \/ JobStep(j) \/ Abandon(j)

DeploySpec == DeployInit /\ [][DeployNext]_deployVars

\* The executor has threads enough for the jobs, and every command has a timeout.
DeployFairness == \A j \in Jobs : WF_deployVars(JobStep(j))

-----------------------------------------------------------------------------
(* Properties.                                                             *)

\* Whichever progress writes are lost, a job's counters are those of the thread
\* at some time: they never say more or other than what has happened, they count
\* every result the document lists, and the next write makes them right again.
CountersHeal ==
  \A j \in Jobs :
    \E k \in Len(job[j].results) .. Len(done[j]) :
      /\ job[j].succeeded = Successes(SubSeq(done[j], 1, k))
      /\ job[j].succeeded + job[j].failed = k

\* A job that is not abandoned by a restart ends, and its document says so.
JobsEnd ==
  \A j \in Jobs : job[j].status = "pending" ~>
                    job[j].status \in {"completed", "failed"} \/ thread[j] = "gone"
=============================================================================
