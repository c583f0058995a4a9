------------------------------ MODULE ManagedJob ------------------------------
(***************************************************************************)
(* "ocm backplane managedjob create" (cmd/ocm-backplane/managedJob/        *)
(* createManagedJob.go): the job is created at the backplane API, which    *)
(* runs it on its own, and the command may wait for its end and follow its *)
(* logs by polling its status.  Every request may fail on the way or be    *)
(* answered with an error, somebody else may delete the job, and with      *)
(* --raw an API error that can be printed as JSON is no error any more     *)
(* (TryPrintAPIError).                                                     *)
(***************************************************************************)

VARIABLES
    opts,      \* the flags --wait, --logs and --raw
    pc,        \* where runCreateManagedJob is
    known,     \* createJob returned a job, not nil
    job,       \* the job at the server
    told,      \* the end of the job that waitForCreateJob reports
    timer,     \* the context of the poll the command is in
    outcome    \* how the command ended

vars == <<opts, pc, known, job, told, timer, outcome>>

Ends == {"Succeeded", "Failed"}

TypeOK ==
    /\ opts \in [wait : BOOLEAN, logs : BOOLEAN, raw : BOOLEAN]
    /\ pc \in {"start", "create", "wait", "logs", "fetch", "stream", "ended"}
    /\ known \in BOOLEAN
    /\ job \in {"none", "Pending", "Running", "deleted"} \cup Ends
    /\ told \in {"none"} \cup Ends
    /\ timer \in {"live", "expired"}
    /\ outcome \in {"none", "ok", "error", "panic"}

Init ==
    /\ opts \in [wait : BOOLEAN, logs : BOOLEAN, raw : BOOLEAN]
    /\ pc = "start"
    /\ known = FALSE
    /\ job = "none"
    /\ told = "none"
    /\ timer = "live"
    /\ outcome = "none"

-----------------------------------------------------------------------------
(* The server *)

JobRuns ==
    /\ job \in {"Pending", "Running"}
    /\ job' \in IF job = "Pending" THEN {"Running"} \cup Ends ELSE Ends
    /\ UNCHANGED <<opts, pc, known, told, timer, outcome>>

\* managedjob delete, by anybody.
JobDeleted ==
    /\ job \notin {"none", "deleted"}
    /\ job' = "deleted"
    /\ UNCHANGED <<opts, pc, known, told, timer, outcome>>

-----------------------------------------------------------------------------
(* The command *)

End(o) ==
    /\ pc' = "ended"
    /\ outcome' = o

\* What follows the creation, s being where the command is now.  Both the wait
\* and the logs begin by dereferencing the job.
GoOn(s, job_known) ==
    LET stage == IF s = "create" /\ opts.wait THEN "wait"
                 ELSE IF s # "fetch" /\ opts.logs THEN "logs" ELSE "ended" IN
    /\ timer' = "live"
    /\ IF stage = "ended" THEN End("ok")
       ELSE IF ~job_known THEN End("panic")
       ELSE pc' = stage /\ UNCHANGED outcome

\* Parameters, cluster, hibernation and the script's own parameters are checked.
Prepare ==
    /\ pc = "start"
    /\ \/ pc' = "create" /\ UNCHANGED outcome
       \/ End("error")
    /\ UNCHANGED <<opts, known, job, told, timer>>

JobCreated ==
    /\ pc = "create"
    /\ job' = "Pending"
    /\ known' = TRUE
    /\ GoOn("create", TRUE)
    /\ UNCHANGED <<opts, told>>

\* No answer, or none that can be parsed, whether or not there is a job now.
CreateFails ==
    /\ pc = "create"
    /\ job' \in {"none", "Pending"}
    /\ End("error")
    /\ UNCHANGED <<opts, known, told, timer>>

\* The API refuses.  If the refusal could be printed as raw JSON, createJob
\* returns neither a job nor an error.
CreateRefused ==
    /\ pc = "create"
    /\ \/ opts.raw /\ GoOn("create", FALSE)
       \/ End("error") /\ UNCHANGED timer
    /\ UNCHANGED <<opts, known, job, told>>

\* The condition of either poll fails: no answer, or an error answer.
PollFails ==
    /\ pc \in {"wait", "logs"}
    /\ End("error")
    /\ UNCHANGED <<opts, known, job, told, timer>>

\* An error answer printed as raw JSON leaves getJobStatus with an empty status
\* and no error: the wait goes on, the logs are given up.
RawErrorPrinted ==
    /\ pc \in {"wait", "logs"} /\ opts.raw
    /\ IF pc = "wait" THEN UNCHANGED <<pc, outcome>> ELSE End("error")
    /\ UNCHANGED <<opts, known, job, told, timer>>

\* Mutant: every status the poll sees is reported.
WaitReportsAnyStatus ==
    /\ pc = "wait"
    /\ job # "deleted"
    /\ told' = job
    /\ IF job \in Ends THEN GoOn("wait", TRUE)
                       ELSE UNCHANGED <<pc, timer, outcome>>
    /\ UNCHANGED <<opts, known, job>>

WaitSeesJob ==
    /\ pc = "wait"
    /\ job # "deleted"
    /\ IF job \in Ends
         THEN told' = job /\ GoOn("wait", TRUE)
         ELSE UNCHANGED <<pc, told, timer, outcome>>
    /\ UNCHANGED <<opts, known, job>>

\* Mutant: the logs of a job that is still pending are followed.
LogsSeeAnyJob ==
    /\ pc = "logs"
    /\ job # "deleted"
    /\ pc' = "fetch"
    /\ UNCHANGED <<opts, known, job, told, timer, outcome>>

LogsSeeJob ==
    /\ pc = "logs"
    /\ job # "deleted"
    /\ pc' = IF job = "Pending" THEN "logs" ELSE "fetch"
    /\ UNCHANGED <<opts, known, job, told, timer, outcome>>

\* Ten minutes for the wait, one for the logs.
TimerExpires ==
    /\ pc \in {"wait", "logs"}
    /\ timer' = "expired"
    /\ UNCHANGED <<opts, pc, known, job, told, outcome>>

\* Mutant: only the wait has a timeout.
OnlyWaitTimesOut ==
    /\ pc = "wait"
    /\ timer = "expired"
    /\ End("error")
    /\ UNCHANGED <<opts, known, job, told, timer>>

PollTimesOut ==
    /\ pc \in {"wait", "logs"}
    /\ timer = "expired"
    /\ End("error")
    /\ UNCHANGED <<opts, known, job, told, timer>>

\* GetJobLogs.  An error answer is always printed raw: then the command ends
\* well, without logs.
FetchLogs ==
    /\ pc = "fetch"
    /\ \/ job # "deleted" /\ pc' = "stream" /\ UNCHANGED outcome
       \/ End("ok")
       \/ End("error")
    /\ UNCHANGED <<opts, known, job, told, timer>>

\* The answer is followed until the job is over or the connection breaks.
StreamEnds ==
    /\ pc = "stream"
    /\ \/ job \in Ends \cup {"deleted"} /\ End("ok")
       \/ End("error")
    /\ UNCHANGED <<opts, known, job, told, timer>>

Steps ==
    \/ Prepare \/ JobCreated \/ CreateFails \/ CreateRefused
    \/ PollFails \/ RawErrorPrinted \/ WaitSeesJob \/ LogsSeeJob
    \/ PollTimesOut \/ FetchLogs \/ StreamEnds

Next == Steps \/ TimerExpires \/ JobRuns \/ JobDeleted

Spec == Init /\ [][Next]_vars

\* Every request gets an answer or an error (they have no timeout of their own,
\* and the poll looks at its timer only between two of them), and the timers
\* fire.  Jobs need not end: one that runs for ever is followed for ever.
Fairness ==
    /\ WF_vars(Prepare)
    /\ WF_vars(JobCreated \/ CreateFails \/ CreateRefused)
    /\ WF_vars(FetchLogs)
    /\ WF_vars(TimerExpires)
    /\ WF_vars(PollTimesOut)

FairSpec == Spec /\ Fairness

-----------------------------------------------------------------------------
(* Properties *)

\* A command with --wait that ended well has reported the end of the job, and
\* the end the job really came to.  Without a job it cannot end well.
WaitReportsTheEnd ==
    (outcome = "ok" /\ opts.wait) =>
        told # "none" /\ job \in {told, "deleted"}

\* Logs are followed only once the job has left Pending, through both polls and
\* whatever happens to the job after the last of them.
LogsOfAStartedJob == pc \in {"fetch", "stream"} => job \notin {"none", "Pending"}

\* Without --raw nobody dereferences a job that was not created.
PanicsOnlyInRawMode == outcome = "panic" => opts.raw

\* The command and the job agree, whatever errors --raw swallowed on the way and
\* whoever deleted the job in between: the end it reports is the job's, the logs
\* it follows are of a job that has started, and only --raw can make it work on a
\* job that was never made (createManagedJob.go:136-155, 206-290).
CommandAndJobAgree == WaitReportsTheEnd /\ LogsOfAStartedJob /\ PanicsOnlyInRawMode

\* Whatever becomes of the job, the command ends or follows its logs.
EndsOrStreams == <>(pc \in {"ended", "stream"})
=============================================================================
