----------------------------- MODULE IngestionJobs -----------------------------
(***************************************************************************)
(* What the ingestion pipeline promises about the jobs of one document,    *)
(* without workers, broker, requests or sweeps: a job row is created only  *)
(* when the document has no job that still has to run, it starts at most   *)
(* once, it ends once, and where it ended it stays.  The promise is the    *)
(* one behind the message "An ingestion job is already running for this    *)
(* document." (ingestion_job_service.py) and behind TERMINAL_JOB_STATUSES  *)
(* (job_progress_notifier.py).                                             *)
(* The full builds of a document keep the same promise while they run one  *)
(* after the other (EvidenceRuns_proofs).                                  *)
(***************************************************************************)
CONSTANT Jobs                \* the job rows the document may ever have

VARIABLE status              \* status[j]: the status column of row j

Statuses == {"none", "queued", "running", "completed", "failed"}
Active   == {"queued", "running"}

ActiveJobs == {j \in Jobs : status[j] \in Active}

Init == status = [j \in Jobs |-> "none"]

Create(j) == /\ ActiveJobs = {}
             /\ status[j] = "none"
             /\ status' = [status EXCEPT ![j] = "queued"]

Begin(j) == /\ status[j] = "queued"
            /\ status' = [status EXCEPT ![j] = "running"]

Complete(j) == /\ status[j] = "running"
               /\ status' = [status EXCEPT ![j] = "completed"]

Fail(j) == /\ status[j] \in Active
           /\ status' = [status EXCEPT ![j] = "failed"]

Next == \E j \in Jobs : Create(j) \/ Begin(j) \/ Complete(j) \/ Fail(j)

Spec == Init /\ [][Next]_status

================================================================================
