----------------------------- MODULE ReportJobs -----------------------------
(***************************************************************************)
(* Report jobs of the reporting service and their workers.  A worker keeps *)
(* the row it claimed while it queries and renders, and saves it whole.    *)
(***************************************************************************)
CONSTANTS
    Jobs,          \* rows of report_jobs
    Workers,       \* replicas of the reporting service
    Owners,
    Nobody

VARIABLES
    job,           \* owner and status of a row
    work           \* per worker: the job it has claimed and the owner it read

jobVars == <<job, work>>

\* DONE stands for COMPLETED, FAILED and EXPIRED.
JobStatuses == {"NONE", "QUEUED", "RUNNING", "DONE"}

NoJob == [owner |-> Nobody, status |-> "NONE"]
NoWork == [job |-> Nobody, owner |-> Nobody]

JobsTypeOK ==
    /\ job \in [Jobs -> [owner : Owners \cup {Nobody}, status : JobStatuses]]
    /\ work \in [Workers -> [job : Jobs \cup {Nobody}, owner : Owners \cup {Nobody}]]

JobsInit ==
    /\ job = [j \in Jobs |-> NoJob]
    /\ work = [w \in Workers |-> NoWork]

-----------------------------------------------------------------------------

CreateJob(j, u) ==
    /\ job[j] = NoJob
    /\ job' = [job EXCEPT ![j] = [owner |-> u, status |-> "QUEUED"]]
    /\ UNCHANGED work

Claim(w, j) ==
    /\ work[w] = NoWork
    /\ job[j].status = "QUEUED"
    /\ job' = [job EXCEPT ![j].status = "RUNNING"]
    /\ work' = [work EXCEPT ![w] = [job |-> j, owner |-> job[j].owner]]

\* The save of the outcome writes the owner back as it was claimed.
Finish(w) ==
    /\ work[w] # NoWork
    /\ job' = [job EXCEPT ![work[w].job] = [owner |-> work[w].owner, status |-> "DONE"]]
    /\ work' = [work EXCEPT ![w] = NoWork]

\* A worker stops, or cannot save the outcome.
StopWorking(w) ==
    /\ work[w] # NoWork
    /\ work' = [work EXCEPT ![w] = NoWork]
    /\ UNCHANGED job

RunningFor(u) == \E j \in Jobs : job[j] = [owner |-> u, status |-> "RUNNING"]

OwnedBy(u) == {j \in Jobs : job[j].owner = u}

\* Every job of one user becomes another user's.
MoveJobs(u, v) == job' = [j \in Jobs |-> IF job[j].owner = u THEN [job[j] EXCEPT !.owner = v] ELSE job[j]]
=============================================================================
