------------------------------- MODULE JobQueue -------------------------------
(***************************************************************************)
(* InMemoryJobQueue of src/infrastructure/jobs/queue.py.  Every method runs*)
(* under one re-entrant lock, so every method is one action; a call that   *)
(* raises or returns without a change is a stuttering step.                *)
(*                                                                         *)
(* The code stores absolute times and compares them with the clock only.   *)
(* The model stores the time that is left instead: lease = lease_expires_at*)
(* - now, floored at -1 ("strictly in the past"), and retry = retry_at -   *)
(* now, floored at 0 ("due").  0 for a lease is the instant at which both  *)
(* the holder's check and the recovery's check succeed.                    *)
(***************************************************************************)
EXTENDS Integers, Sequences, FiniteSets, SequencesExt

CONSTANTS Jobs,          \* job identifiers callers may enqueue
          Workers,       \* worker identifiers callers may claim with
          Keys,          \* idempotency keys
          NoWorker,      \* leased_by = None
          NoKey,         \* idempotency_key = None
          NoJob,         \* a key nobody registered
          NoTime,        \* lease_expires_at = None, retry_at = None
          MaxAttempts,   \* Job.max_attempts
          LeaseSeconds,  \* the lease a claim or a renewal grants
          MaxDelay       \* bound: the largest retry_delay_seconds callers pass

ASSUME JobQueueAssumption ==
    /\ IsFiniteSet(Jobs)
    /\ MaxAttempts \in Nat \ {0}
    /\ LeaseSeconds \in Nat
    /\ MaxDelay \in Nat
    /\ NoWorker \notin Workers
    /\ NoKey \notin Keys
    /\ NoJob \notin Jobs
    /\ NoTime \notin Int

VARIABLES jobs,      \* _jobs
          pending,   \* _pending, the deque of claimable (and some dead) ids
          byKey      \* _by_idempotency_key

vars == <<jobs, pending, byKey>>

-------------------------------------------------------------------------------
(* JobState and Job of src/infrastructure/jobs/models.py.                  *)

TERMINAL_STATES == {"SUCCEEDED", "FAILED", "CANCELLED"}
Waiting == {"PENDING", "RETRYABLE"}
JobState == Waiting \cup {"RUNNING"} \cup TERMINAL_STATES

Job ==
    [state : JobState \cup {"ABSENT"},
     attempt_count : Nat,
     leased_by : Workers \cup {NoWorker},
     lease : (-1 .. LeaseSeconds) \cup {NoTime},
     retry : (0 .. MaxDelay) \cup {NoTime},
     key : Keys \cup {NoKey}]

\* A job nobody has claimed yet.
Fresh(s, k) ==
    [state |-> s, attempt_count |-> 0, leased_by |-> NoWorker,
     lease |-> NoTime, retry |-> NoTime, key |-> k]

\* An id that is no key of _jobs.
Absent == Fresh("ABSENT", NoKey)

\* Variant for the mutation runs: the expiry is left behind.
ReleasedKeepsExpiry(job, s, retry) ==
    [job EXCEPT !.state = s, !.leased_by = NoWorker, !.retry = retry]

\* The job without its lease, in state s.
Released(job, s, retry) ==
    [job EXCEPT !.state = s, !.leased_by = NoWorker, !.lease = NoTime,
                !.retry = retry]

TypeOK ==
    /\ jobs \in [Jobs -> Job]
    /\ pending \in Seq(Jobs)
    /\ byKey \in [Keys -> Jobs \cup {NoJob}]

Init ==
    /\ jobs = [j \in Jobs |-> Absent]
    /\ pending = <<>>
    /\ byKey = [k \in Keys |-> NoJob]

-------------------------------------------------------------------------------
(* The methods.                                                            *)

\* Variant for the mutation runs: the key is not looked up.
EnqueueUnchecked(j, k) ==
    /\ jobs[j].state = "ABSENT"
    /\ jobs' = [jobs EXCEPT ![j] = Fresh("PENDING", k)]
    /\ byKey' = IF k = NoKey THEN byKey ELSE [byKey EXCEPT ![k] = j]
    /\ pending' = Append(pending, j)

\* enqueue: a known id raises DuplicateJobError, a known key returns the job
\* registered under it; both leave the queue alone.  Callers enqueue PENDING
\* jobs only.
Enqueue(j, k) ==
    /\ jobs[j].state = "ABSENT"
    /\ k # NoKey => byKey[k] = NoJob
    /\ jobs' = [jobs EXCEPT ![j] = Fresh("PENDING", k)]
    /\ byKey' = IF k = NoKey THEN byKey ELSE [byKey EXCEPT ![k] = j]
    /\ pending' = Append(pending, j)

\* Variant for the mutation runs: retries are never picked up.
ClaimableFresh(job) == job.state = "PENDING"

Claimable(job) ==
    \/ job.state = "PENDING"
    \/ job.state = "RETRYABLE" /\ job.retry = 0

\* Variant for the mutation runs: the claimed id goes back too.
RotateOnto(i) ==
    SubSeq(pending, i + 1, Len(pending)) \o SubSeq(pending, 1, i)

\* The scan pops from the left and pushes back what it cannot take.
RotatePast(i) ==
    SubSeq(pending, i + 1, Len(pending)) \o SubSeq(pending, 1, i - 1)

\* Variant for the mutation runs: a claim does not count as an attempt.
LeasedUncounted(job, w) ==
    [job EXCEPT !.state = "RUNNING", !.leased_by = w, !.lease = LeaseSeconds]

Leased(job, w) ==
    [job EXCEPT !.state = "RUNNING", !.attempt_count = @ + 1,
                !.leased_by = w, !.lease = LeaseSeconds]

\* claim: the first claimable id wins; ids scanned before it go to the back.
\* A claim that finds nothing rotates the deque once around: no change.
Claim(w) ==
    \E i \in DOMAIN pending :
        /\ Claimable(jobs[pending[i]])
        /\ \A h \in 1 .. i - 1 : ~Claimable(jobs[pending[h]])
        /\ jobs' = [jobs EXCEPT ![pending[i]] = Leased(@, w)]
        /\ pending' = RotatePast(i)
        /\ UNCHANGED byKey

\* _check_lease: the lease still counts at the very instant it expires.
HoldsLease(j, w) ==
    /\ jobs[j].state = "RUNNING"
    /\ jobs[j].leased_by = w
    /\ jobs[j].lease >= 0

RenewLease(j, w) ==
    /\ HoldsLease(j, w)
    /\ jobs' = [jobs EXCEPT ![j].lease = LeaseSeconds]
    /\ UNCHANGED <<pending, byKey>>

Ack(j, w) ==
    /\ HoldsLease(j, w)
    /\ jobs' = [jobs EXCEPT ![j] = Released(@, "SUCCEEDED", NoTime)]
    /\ UNCHANGED <<pending, byKey>>

\* fail: a retryable failure with an attempt left is rescheduled, any other
\* one is final.
Fail(j, w, retryable, delay) ==
    /\ HoldsLease(j, w)
    /\ \/ /\ retryable /\ jobs[j].attempt_count < MaxAttempts
          /\ jobs' = [jobs EXCEPT ![j] = Released(@, "RETRYABLE", delay)]
          /\ pending' = Append(pending, j)
       \/ /\ ~(retryable /\ jobs[j].attempt_count < MaxAttempts)
          /\ jobs' = [jobs EXCEPT ![j] = Released(@, "FAILED", NoTime)]
          /\ UNCHANGED pending
    /\ UNCHANGED byKey

\* cancel: whatever is not over, a leased job too; its id stays in pending.
Cancel(j) ==
    /\ jobs[j].state \in Waiting \cup {"RUNNING"}
    /\ jobs' = [jobs EXCEPT ![j] = Released(@, "CANCELLED", NoTime)]
    /\ UNCHANGED <<pending, byKey>>

\* Variant for the mutation runs: recovery does not look at the expiry.
StaleAtOnce(job) == job.state = "RUNNING"

Stale(job) == job.state = "RUNNING" /\ job.lease <= 0

\* Variant for the mutation runs: recovery forgets the attempt limit.
RecoveredAlways(job) == Released(job, "PENDING", NoTime)

\* What recover_stale makes of a job whose lease has run out.  The job that
\* is failed keeps its retry_at.
Recovered(job) ==
    IF job.attempt_count >= MaxAttempts
    THEN Released(job, "FAILED", job.retry)
    ELSE Released(job, "PENDING", NoTime)

Requeued == {j \in Jobs : Stale(jobs[j]) /\ jobs[j].attempt_count < MaxAttempts}

\* recover_stale: one sweep over every job.  The swept jobs are appended in
\* the order of the dictionary, which no property tells apart: any order.
RecoverStale ==
    /\ \E j \in Jobs : Stale(jobs[j])
    /\ jobs' = [j \in Jobs |-> IF Stale(jobs[j]) THEN Recovered(jobs[j])
                               ELSE jobs[j]]
    /\ \E q \in SetToSeqs(Requeued) : pending' = pending \o q
    /\ UNCHANGED byKey

\* The clock: every lease and every retry delay shrinks by one unit.
Older(job) ==
    [job EXCEPT !.lease = IF @ = NoTime \/ @ = -1 THEN @ ELSE @ - 1,
                !.retry = IF @ = NoTime \/ @ = 0 THEN @ ELSE @ - 1]

Tick ==
    /\ jobs' = [j \in Jobs |-> Older(jobs[j])]
    /\ jobs' # jobs
    /\ UNCHANGED <<pending, byKey>>

Next ==
    \/ \E j \in Jobs, k \in Keys \cup {NoKey} : Enqueue(j, k)
    \/ \E w \in Workers : Claim(w)
    \/ \E j \in Jobs, w \in Workers : RenewLease(j, w)
    \/ \E j \in Jobs, w \in Workers : Ack(j, w)
    \/ \E j \in Jobs, w \in Workers, r \in BOOLEAN, d \in 0 .. MaxDelay :
          Fail(j, w, r, d)
    \/ \E j \in Jobs : Cancel(j)
    \/ RecoverStale
    \/ Tick

Spec == Init /\ [][Next]_vars

\* Time passes, and some worker keeps polling claim (run_until_empty).
FairSpec ==
    Spec /\ WF_vars(Tick) /\ WF_vars(\E w \in Workers : Claim(w))

-------------------------------------------------------------------------------
(* Correctness.                                                            *)

\* Every waiting job has exactly one place in the deque, so a claim can find
\* it and two claims cannot both find it; beside the waiting jobs the deque
\* holds only ids that cancel left behind.  Enqueue, a retryable failure and
\* the recovery append, claim removes and rotates: none may lose or double an
\* id.
PendingIsExact ==
    /\ IsInjective(pending)
    /\ \A j \in Jobs : jobs[j].state \in Waiting =>
                          \E i \in DOMAIN pending : pending[i] = j
    /\ \A i \in DOMAIN pending :
          jobs[pending[i]].state \in Waiting \cup {"CANCELLED"}

\* claim never looks at max_attempts: that a job runs at most max_attempts
\* times rests on fail and recover_stale never returning an exhausted job to
\* the deque.
AttemptBudget ==
    \A j \in Jobs :
        /\ jobs[j].attempt_count <= MaxAttempts
        /\ jobs[j].state \in Waiting => jobs[j].attempt_count < MaxAttempts

\* A job is leased exactly while it runs: no path out of RUNNING leaves a
\* worker or an expiry behind, and no running job is without one (recover_stale
\* would skip it for ever).
LeaseIsExact ==
    \A j \in Jobs :
        /\ jobs[j].state = "RUNNING" <=> jobs[j].leased_by # NoWorker
        /\ jobs[j].state = "RUNNING" <=> jobs[j].lease # NoTime

\* Two jobs never share an idempotency key, and the index names the job that
\* carries it (find_by_idempotency_key).
KeysAreUnique ==
    \A j \in Jobs, k \in Keys :
        byKey[k] = j <=> jobs[j].state # "ABSENT" /\ jobs[j].key = k

\* While a lease is live nothing puts the job back for others or gives it to
\* another worker: it ends in a state that an ack, a failure or a cancel leaves.
\* Which of the calls left it there is not told apart.
NoStolenLease ==
    [][\A j \in Jobs :
         jobs[j].state = "RUNNING" /\ jobs[j].lease > 0 =>
            \/ jobs'[j].leased_by = jobs[j].leased_by
            \/ jobs'[j].state \in TERMINAL_STATES \cup {"RETRYABLE"}]_vars

\* No waiting job starves: claim rotates retries that are not due behind newer
\* work and scans past cancelled ids, and still reaches every job in the end.
NoWaitingJobStarves ==
    \A j \in Jobs : jobs[j].state \in Waiting ~> jobs[j].state \notin Waiting

\* The queue keeps the promises of JobLifecycle: what a caller may rely on,
\* whatever order enqueues, claims, renewals, retries and sweeps come in.
PhaseOf(job) ==
    CASE job.state = "ABSENT" -> "unknown"
      [] job.state \in Waiting -> "waiting"
      [] job.state = "RUNNING" -> "owned"
      [] job.state \in TERMINAL_STATES -> "over"

Lifecycle == INSTANCE JobLifecycle WITH
    phase <- [j \in Jobs |-> PhaseOf(jobs[j])],
    owner <- [j \in Jobs |-> jobs[j].leased_by],
    tries <- [j \in Jobs |-> jobs[j].attempt_count]

ImplementsLifecycle == Lifecycle!Spec
===============================================================================
