------------------------- MODULE SubmissionProcessing -------------------------
(***************************************************************************)
(* A submission on its way through the pipeline: the entry points and      *)
(* _run_pipeline of src/application/service.py, the transactions of        *)
(* src/infrastructure/processing.py, the stage table of                    *)
(* src/infrastructure/pipeline.py and the loop of src/application/worker.py*)
(* over the job queue of JobQueue.tla.                                     *)
(*                                                                         *)
(* A submission has one job (job:compliance:<submission_id>), so the id of *)
(* the submission stands for the id and the idempotency key of its job.    *)
(* advance_stage and fail_submission read the row and write all of it back *)
(* without a lock or a version (PostgreSQL at READ COMMITTED), so each is  *)
(* two steps.  A call that raises before it writes is a stuttering step.   *)
(***************************************************************************)
EXTENDS Integers, Sequences, FiniteSets

CONSTANTS Queued,        \* submissions clients hand to enqueue_submission
          Direct,        \* submissions clients hand to process_bid
          Clients,       \* threads that serve the callers of the service
          WorkerProcs,   \* processes that run SubmissionWorker
          WorkerIds,     \* worker ids
          WorkerId,      \* the id each process claims with
          Failures,      \* the kinds of exception the steps may raise
          NoWorker, NoKey, NoJob, NoTime, NoRecord,
          MaxAttempts,   \* Job.max_attempts = RetryPolicy.max_attempts
          LeaseSeconds,  \* the lease of a claim
          MaxDelay       \* RetryPolicy.max_delay_seconds

FAULTS == {"crash",      \* a process dies between two steps
           "stall",      \* a step takes longer than the lease
           "db"}         \* the database is down while a failure is recorded

Submissions == Queued \cup Direct
Processes == Clients \cup WorkerProcs

VARIABLES jobs, pending, byKey,  \* the queue
          rows,                  \* the submissions table
          outputs,               \* what is persisted for each submission
          proc,                  \* what each process is doing
          faults                 \* what the environment may do, from FAULTS

system == <<jobs, pending, byKey, rows, outputs, proc>>
vars == <<jobs, pending, byKey, rows, outputs, proc, faults>>
queueVars == <<jobs, pending, byKey>>

Queue == INSTANCE JobQueue WITH
    Jobs <- Submissions, Keys <- Submissions, Workers <- WorkerIds

-------------------------------------------------------------------------------
(* pipeline.py: the stages and the moves between them.                     *)

LINEAR_STAGES ==
    <<"INGESTED", "NORMALIZED", "VERIFICATION_PENDING", "VERIFIED",
      "AI_ANALYSIS_PENDING", "AI_ANALYZED", "EXPLANATION_PENDING",
      "EXPLANATION_READY", "COMPLETE">>

Linear == {LINEAR_STAGES[i] : i \in DOMAIN LINEAR_STAGES}
ProcessingStage == Linear \cup {"FAILED"}

\* validate_transition over ALLOWED_TRANSITIONS.
Allowed(current, target) ==
    \/ current = target
    \/ current = "FAILED" /\ target \in Linear
    \/ target = "FAILED" /\ current # "COMPLETE"
    \/ \E i \in 1 .. Len(LINEAR_STAGES) - 1 :
          current = LINEAR_STAGES[i] /\ target = LINEAR_STAGES[i + 1]

COMPLETABLE_STAGES ==
    {"INGESTED", "NORMALIZED", "VERIFIED", "AI_ANALYZED", "EXPLANATION_READY",
     "COMPLETE"}

\* What the steps of _run_pipeline leave in the database.
Outputs == {"evidence", "results", "findings", "snapshot", "explanations"}

\* Variant for the mutation runs: VERIFIED is entered before its results are
\* persisted.
PlanTooEarly ==
    <<"NORMALIZED", "evidence",
      "VERIFICATION_PENDING", "VERIFIED", "results",
      "AI_ANALYSIS_PENDING", "findings", "AI_ANALYZED",
      "EXPLANATION_PENDING", "snapshot", "explanations", "EXPLANATION_READY",
      "COMPLETE">>

\* _run_pipeline: the stages it enters and the outputs it persists, in order.
\* It is the same whatever stage the submission is in.
Plan ==
    <<"NORMALIZED", "evidence",
      "VERIFICATION_PENDING", "results", "VERIFIED",
      "AI_ANALYSIS_PENDING", "findings", "AI_ANALYZED",
      "EXPLANATION_PENDING", "snapshot", "explanations", "EXPLANATION_READY",
      "COMPLETE">>

-------------------------------------------------------------------------------
(* State.                                                                  *)

Row == [stage : ProcessingStage,
        last_completed_stage : Linear \cup {NoRecord},
        attempt_count : Nat]

\* sub is the submission worked on, attempt the attempt_count of the claimed
\* job (0 when there is none), step the position in Plan, seen the row
\* advance_stage or fail_submission has read, error the kind that was raised.
Activity == [doing : {"idle", "submitting", "running", "failing", "reporting"},
             sub : Submissions \cup {NoJob},
             attempt : Nat,
             step : 1 .. Len(Plan) + 1,
             seen : Row \cup {NoRecord},
             error : {"none", "retryable", "permanent"}]

ASSUME SubmissionAssumption ==
    /\ Queue!JobQueueAssumption
    /\ WorkerId \in [WorkerProcs -> WorkerIds]
    /\ Clients \cap WorkerProcs = {}
    /\ Failures \subseteq {"retryable", "permanent"}
    /\ NoRecord \notin Row
    /\ NoRecord \notin ProcessingStage

Idle == [doing |-> "idle", sub |-> NoJob, attempt |-> 0, step |-> 1,
         seen |-> NoRecord, error |-> "none"]

Started(s, attempt) ==
    [Idle EXCEPT !.doing = "running", !.sub = s, !.attempt = attempt]

TypeOK ==
    /\ Queue!TypeOK
    /\ rows \in [Submissions -> Row \cup {NoRecord}]
    /\ outputs \in [Submissions -> SUBSET Outputs]
    /\ proc \in [Processes -> Activity]
    /\ faults \subseteq FAULTS

Init ==
    /\ Queue!Init
    /\ rows = [s \in Submissions |-> NoRecord]
    /\ outputs = [s \in Submissions |-> {}]
    /\ proc = [p \in Processes |-> Idle]
    /\ faults \in SUBSET FAULTS

Becomes(p, activity) == proc' = [proc EXCEPT ![p] = activity]

-------------------------------------------------------------------------------
(* The entry points.                                                       *)

Ingested == [stage |-> "INGESTED", last_completed_stage |-> NoRecord,
             attempt_count |-> 0]

\* enqueue_submission up to its enqueue: the row is created in a transaction
\* of its own.  A submission that exists and is not COMPLETE is accepted
\* again; if its job exists the call returns that and changes nothing.  (The
\* look-up and the insertion are one step: an insertion that comes second
\* raises DuplicateRecordError and changes nothing.)
EnqueueSubmission(c, s) ==
    /\ proc[c] = Idle
    /\ jobs[s].state = "ABSENT"
    /\ \/ rows[s] = NoRecord /\ rows' = [rows EXCEPT ![s] = Ingested]
       \/ rows[s] # NoRecord /\ rows[s].stage # "COMPLETE" /\ UNCHANGED rows
    /\ Becomes(c, [Idle EXCEPT !.doing = "submitting", !.sub = s])
    /\ UNCHANGED <<queueVars, outputs>>

\* The rest of enqueue_submission: a known key returns the job it names.
EnqueueStageJob(c) ==
    LET s == proc[c].sub IN
    /\ proc[c].doing = "submitting"
    /\ IF jobs[s].state = "ABSENT" THEN Queue!Enqueue(s, s)
                                   ELSE UNCHANGED queueVars
    /\ Becomes(c, Idle)
    /\ UNCHANGED <<rows, outputs>>

\* process_bid: a submission that exists is rejected or answered from the
\* database; a new one is ingested and run in the caller's thread.
ProcessBid(c, s) ==
    /\ proc[c] = Idle
    /\ rows[s] = NoRecord
    /\ rows' = [rows EXCEPT ![s] = Ingested]
    /\ Becomes(c, Started(s, 0))
    /\ UNCHANGED <<queueVars, outputs>>

\* Variant for the mutation runs: the worker passes over submissions that an
\* earlier run has touched.
ClaimFreshJob(p) ==
    /\ proc[p] = Idle
    /\ Queue!Claim(WorkerId[p])
    /\ \E s \in Submissions :
          /\ jobs[s].state # "RUNNING" /\ jobs'[s].state = "RUNNING"
          /\ rows[s] = Ingested
          /\ Becomes(p, Started(s, jobs'[s].attempt_count))
    /\ UNCHANGED <<rows, outputs>>

\* run_once up to the pipeline.  Only compliance jobs are enqueued here.
ClaimJob(p) ==
    /\ proc[p] = Idle
    /\ Queue!Claim(WorkerId[p])
    /\ \E s \in Submissions :
          /\ jobs[s].state # "RUNNING" /\ jobs'[s].state = "RUNNING"
          /\ Becomes(p, Started(s, jobs'[s].attempt_count))
    /\ UNCHANGED <<rows, outputs>>

-------------------------------------------------------------------------------
(* _run_pipeline.                                                          *)

Running(p) == proc[p].doing = "running" /\ proc[p].step <= Len(Plan)
At(p, kind) == Running(p) /\ Plan[proc[p].step] \in kind

Failing(p, kind) ==
    [proc[p] EXCEPT !.doing = "failing", !.error = kind, !.seen = NoRecord]

\* advance_stage up to its save.  InvalidStateTransitionError is a ValueError,
\* which classify_failure takes for malformed data: never retried.
ReadStage(p) ==
    LET row == rows[proc[p].sub] IN
    /\ At(p, ProcessingStage) /\ proc[p].seen = NoRecord
    /\ IF Allowed(row.stage, Plan[proc[p].step])
       THEN Becomes(p, [proc[p] EXCEPT !.seen = row])
       ELSE Becomes(p, Failing(p, "permanent"))
    /\ UNCHANGED <<queueVars, rows, outputs>>

Advanced(row, target) ==
    [row EXCEPT !.stage = target,
                !.last_completed_stage = IF target \in COMPLETABLE_STAGES
                                         THEN target ELSE @]

\* The save of advance_stage: the row as it was read, with the new stage.
WriteStage(p) ==
    /\ At(p, ProcessingStage) /\ proc[p].seen # NoRecord
    /\ rows' = [rows EXCEPT ![proc[p].sub] =
                   Advanced(proc[p].seen, Plan[proc[p].step])]
    /\ Becomes(p, [proc[p] EXCEPT !.seen = NoRecord, !.step = @ + 1])
    /\ UNCHANGED <<queueVars, outputs>>

\* An engine runs and its output is persisted.  Rows are upserted under
\* deterministic ids, so a second run of the step adds nothing.
Persist(p) ==
    /\ At(p, Outputs)
    /\ outputs' = [outputs EXCEPT ![proc[p].sub] = @ \cup {Plan[proc[p].step]}]
    /\ Becomes(p, [proc[p] EXCEPT !.step = @ + 1])
    /\ UNCHANGED <<queueVars, rows>>

\* An engine or a provider raises, or the database does: an exception leaves
\* the step undone.
Raise(p, kind) ==
    /\ \/ At(p, Outputs)
       \/ At(p, ProcessingStage) /\ kind = "retryable"
    /\ Becomes(p, Failing(p, kind))
    /\ UNCHANGED <<queueVars, rows, outputs>>

-------------------------------------------------------------------------------
(* The end of a run.                                                       *)

\* fail_submission up to its save; it does not validate the transition.
ReadFailed(p) ==
    /\ proc[p].doing = "failing" /\ proc[p].seen = NoRecord
    /\ Becomes(p, [proc[p] EXCEPT !.seen = rows[proc[p].sub]])
    /\ UNCHANGED <<queueVars, rows, outputs>>

\* Variant for the mutation runs: the failure is not counted.
FailedRowUncounted(row) == [row EXCEPT !.stage = "FAILED"]

FailedRow(row) ==
    [row EXCEPT !.stage = "FAILED", !.attempt_count = @ + 1]

\* Variant for the mutation runs: the transaction is run again.
WriteFailedAgain(p) ==
    /\ proc[p].doing = "failing" /\ proc[p].seen # NoRecord
    /\ rows' = [rows EXCEPT ![proc[p].sub] = FailedRow(proc[p].seen)]
    /\ \E next \in {"failing", "reporting"} :
          Becomes(p, [proc[p] EXCEPT !.doing = next, !.seen = NoRecord])
    /\ UNCHANGED <<queueVars, outputs>>

WriteFailed(p) ==
    /\ proc[p].doing = "failing" /\ proc[p].seen # NoRecord
    /\ rows' = [rows EXCEPT ![proc[p].sub] = FailedRow(proc[p].seen)]
    /\ Becomes(p, [proc[p] EXCEPT !.doing = "reporting", !.seen = NoRecord])
    /\ UNCHANGED <<queueVars, outputs>>

\* _fail_submission swallows what fail_submission raises.
SwallowFailure(p) ==
    /\ "db" \in faults
    /\ proc[p].doing = "failing"
    /\ Becomes(p, [proc[p] EXCEPT !.doing = "reporting", !.seen = NoRecord])
    /\ UNCHANGED <<queueVars, rows, outputs>>

\* RetryPolicy.delay_for_attempt with a base of one unit.
Delay(attempt) ==
    IF 2 ^ (attempt - 1) \in 0 .. MaxDelay THEN 2 ^ (attempt - 1) ELSE MaxDelay

\* decide_failure, and the queue's fail in the name of this worker.  A lost
\* lease raises JobConflictError out of the worker's loop.
ReportFailure(p) ==
    LET s == proc[p].sub
        retryable == /\ proc[p].error = "retryable"
                     /\ proc[p].attempt < MaxAttempts
    IN
    /\ proc[p].doing = "reporting"
    /\ IF proc[p].attempt > 0 /\ Queue!HoldsLease(s, WorkerId[p])
       THEN Queue!Fail(s, WorkerId[p], retryable,
                       IF retryable THEN Delay(proc[p].attempt) ELSE 0)
       ELSE UNCHANGED queueVars
    /\ Becomes(p, Idle)
    /\ UNCHANGED <<rows, outputs>>

\* Variant for the mutation runs: the lease is not checked.
FinishUnchecked(p) ==
    LET s == proc[p].sub IN
    /\ proc[p].doing = "running" /\ proc[p].step > Len(Plan)
    /\ IF proc[p].attempt > 0 /\ jobs[s].state = "RUNNING"
       THEN jobs' = [jobs EXCEPT ![s] = Queue!Released(@, "SUCCEEDED", NoTime)]
       ELSE jobs' = jobs
    /\ Becomes(p, Idle)
    /\ UNCHANGED <<pending, byKey, rows, outputs>>

\* The run is over: the worker acknowledges its job.
Finish(p) ==
    LET s == proc[p].sub IN
    /\ proc[p].doing = "running" /\ proc[p].step > Len(Plan)
    /\ IF proc[p].attempt > 0 /\ Queue!HoldsLease(s, WorkerId[p])
       THEN Queue!Ack(s, WorkerId[p])
       ELSE UNCHANGED queueVars
    /\ Becomes(p, Idle)
    /\ UNCHANGED <<rows, outputs>>

-------------------------------------------------------------------------------
(* The environment.                                                        *)

\* A process dies; what it replaces starts idle, under the same id.
Crash(p) ==
    /\ "crash" \in faults
    /\ proc[p] # Idle
    /\ Becomes(p, Idle)
    /\ UNCHANGED <<queueVars, rows, outputs>>

\* Unless runs may outlast their lease, time passes between runs only.
Tick ==
    /\ \/ "stall" \in faults
       \/ \A p \in WorkerProcs : proc[p] = Idle
    /\ Queue!Tick
    /\ UNCHANGED <<rows, outputs, proc>>

RecoverStale ==
    /\ Queue!RecoverStale
    /\ UNCHANGED <<rows, outputs, proc>>

Submit(c) ==
    \/ \E s \in Queued : EnqueueSubmission(c, s)
    \/ \E s \in Direct : ProcessBid(c, s)

Step(p) ==
    \/ ReadStage(p)
    \/ WriteStage(p)
    \/ Persist(p)
    \/ ReadFailed(p)
    \/ WriteFailed(p)
    \/ ReportFailure(p)
    \/ Finish(p)

Work ==
    \/ \E c \in Clients : Submit(c)
    \/ \E c \in Clients : EnqueueStageJob(c)
    \/ \E p \in WorkerProcs : ClaimJob(p)
    \/ \E p \in Processes : Step(p)
    \/ RecoverStale

Disturb ==
    \/ \E p \in Processes : SwallowFailure(p)
    \/ \E p \in Processes : Crash(p)

Next ==
    /\ \/ Work
       \/ \E p \in Processes, kind \in Failures : Raise(p, kind)
       \/ Disturb
       \/ Tick
    /\ UNCHANGED faults

Spec == Init /\ [][Next]_vars

\* Processes take their next step, some worker polls, time passes and a
\* sweep calls recover_stale again and again.
Fairness ==
    /\ \A p \in Processes : WF_system(Step(p))
    /\ WF_system(\E p \in WorkerProcs : ClaimJob(p))
    /\ WF_system(Tick)
    /\ WF_system(RecoverStale)

-------------------------------------------------------------------------------
(* Correctness.                                                            *)

\* What must be in the database before a submission may show a stage: the
\* stages *_PENDING owe what came before them, VERIFIED the results of the
\* rules, AI_ANALYZED the findings, EXPLANATION_READY snapshot and texts.
\* (NORMALIZED is entered before the evidence is stored and owes nothing.)
Owed(stage) ==
    LET reached(other) ==
            \E h, i \in DOMAIN LINEAR_STAGES :
                /\ LINEAR_STAGES[i] = stage /\ LINEAR_STAGES[h] = other
                /\ h <= i
    IN  {o \in Outputs :
           \/ o = "evidence" /\ reached("VERIFICATION_PENDING")
           \/ o = "results" /\ reached("VERIFIED")
           \/ o = "findings" /\ reached("AI_ANALYZED")
           \/ o \in {"snapshot", "explanations"} /\ reached("EXPLANATION_READY")}

\* Neither the stage nor the resumability anchor runs ahead of the database,
\* whatever runs of the same submission overlap, die or overwrite each other's
\* row; and a job that SUCCEEDED left everything behind.
DoneMeansPersisted ==
    \A s \in Submissions :
        /\ rows[s] # NoRecord =>
              /\ Owed(rows[s].stage) \subseteq outputs[s]
              /\ Owed(rows[s].last_completed_stage) \subseteq outputs[s]
        /\ jobs[s].state = "SUCCEEDED" => outputs[s] = Outputs

\* The row and the job of a submission tell the same story when no run is
\* disturbed and each submission has one entry point: the worker writes the
\* row first and the queue second, and a retry finds the row FAILED.
JobAndRowAgree ==
    faults = {} => \A s \in Queued :
        /\ jobs[s].state = "PENDING" => rows[s] = Ingested
        /\ jobs[s].state \in {"RETRYABLE", "FAILED"} =>
              /\ rows[s].stage = "FAILED"
              /\ rows[s].attempt_count = jobs[s].attempt_count
        /\ jobs[s].state = "SUCCEEDED" =>
              /\ rows[s].stage = "COMPLETE"
              /\ rows[s].attempt_count = jobs[s].attempt_count - 1
        /\ (rows[s] # NoRecord /\ rows[s].stage = "COMPLETE") =>
              jobs[s].state \in {"RUNNING", "SUCCEEDED"}

\* The row counts no more failures than there were runs, although overlapping
\* runs count on stale copies of it.
FailuresAreRuns ==
    \A s \in Submissions : rows[s] # NoRecord =>
        rows[s].attempt_count <=
            jobs[s].attempt_count + (IF s \in Direct THEN 1 ELSE 0)

\* A job is settled only by the run it was last claimed for: a worker that was
\* overtaken while it was slow does not end the job of its successor.
Settles(p, s) ==
    /\ proc[p].sub = s
    /\ proc'[p] # proc[p]
    /\ jobs[s].state = "RUNNING"
    /\ jobs'[s].state # "RUNNING"

OnlyHolderSettles ==
    [][\A p \in WorkerProcs, s \in Submissions :
         Settles(p, s) => proc[p].attempt = jobs[s].attempt_count]_vars

\* An accepted job is over in the end, whatever its runs meet: crashes and
\* stalls end in the recovery, failures in a retry or in FAILED.
EveryJobEnds ==
    \A s \in Queued :
        jobs[s].state = "PENDING" ~>
            jobs[s].state \in {"SUCCEEDED", "FAILED"}

\* pipeline.py: "Terminal stages; no further transitions are allowed out of
\* them."
CompleteIsTerminal ==
    [][\A s \in Submissions :
         rows[s] # NoRecord /\ rows[s].stage = "COMPLETE" =>
            rows'[s].stage = "COMPLETE"]_vars

\* processing-pipeline.md: "Process crash -> durable submission/job state ->
\* resume from last_completed_stage".  A crash alone then costs attempts and
\* never fails a job that has attempts left.
CrashIsResumed ==
    \A s \in Queued :
        jobs[s].state = "FAILED" => jobs[s].attempt_count = MaxAttempts
===============================================================================
