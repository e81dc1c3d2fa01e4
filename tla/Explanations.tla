----------------------------- MODULE Explanations -----------------------------
(***************************************************************************)
(* Explanations of flags from request to relay: ExplanationPipeline of     *)
(* src/ai_verification/explanations/pipeline.py over a DurableJobQueue     *)
(* (src/infrastructure/jobs/durable.py), the model call and its fallback   *)
(* (explanations/engine.py), and the OutboxPublisher                       *)
(* (src/infrastructure/outbox.py) that relays what became READY.           *)
(*                                                                         *)
(* The queue is JobQueue.tla, the database PostgreSQL at READ COMMITTED.   *)
(* A transaction that only writes is one step; the publisher's spans its   *)
(* calls of the sink and holds the rows it has updated until it ends.      *)
(* A request is one (bidder, flag, state, grounding); its job id and its   *)
(* idempotency key are both made of exactly that.  The subject of a        *)
(* request is its (bidder, flag, state): the id of the explanation and of  *)
(* the outbox event is made of the subject alone.                          *)
(***************************************************************************)
EXTENDS Integers, Sequences, FiniteSets, SequencesExt

CONSTANTS Requests,      \* explanations callers ask for
          Subjects,      \* flag states that can be explained
          SubjectOf,     \* the flag state a request explains
          Answers,       \* what the model may do: a subset of ANSWERS
          Callers,       \* threads that call enqueue
          Workers,       \* threads that call process_pending, by worker id
          Sweepers,      \* threads that call recover_stale
          Publishers,    \* threads that call publish_pending
          Aborts,        \* bound: calls that end in an exception of the
                         \*   database or a programming error
          SinkFailures,  \* bound: relays the sink refuses
          NoWorker, NoKey, NoJob, NoTime, NoRecord,
          MaxAttempts,   \* Job.max_attempts
          LeaseSeconds,  \* the lease of a claim
          RetryDelay     \* the delay process_pending asks for

ANSWERS == {"valid", "invalid", "malformed", "error", "unavailable", "timeout"}

Processes == Callers \cup Workers \cup Sweepers \cup Publishers

VARIABLES jobs, pending, byKey,  \* the queue
          jobRows,               \* the processing_jobs table
          explanations,          \* the explanations table
          outbox,                \* ids of outbox_events, oldest first
          published,             \* those with a published_at
          sent,                  \* how often the sink has taken each event
          proc,                  \* what each thread is doing
          trouble                \* aborts and sink failures so far

vars == <<jobs, pending, byKey, jobRows, explanations, outbox, published, sent,
          proc, trouble>>
queueVars == <<jobs, pending, byKey>>
tables == <<jobRows, explanations>>
relay == <<outbox, published, sent>>

Queue == INSTANCE JobQueue WITH
    Jobs <- Requests, Keys <- Requests, MaxDelay <- RetryDelay

ASSUME ExplanationsAssumption ==
    /\ Queue!JobQueueAssumption
    /\ SubjectOf \in [Requests -> Subjects]
    /\ Answers \subseteq ANSWERS
    /\ IsFiniteSet(Publishers)
    /\ Aborts \in Nat
    /\ SinkFailures \in Nat
    /\ NoRecord \notin [by : Requests, content : {"model", "fallback"}]
    /\ NoRecord \notin [state : Queue!JobState, attempt_count : Nat]

-------------------------------------------------------------------------------
(* State.                                                                  *)

\* to_job_record, as far as the history of the job is concerned.
JobRow(job) == [state |-> job.state, attempt_count |-> job.attempt_count]

Pending == [state |-> "PENDING", attempt_count |-> 0]

\* req is the request worked on, copies the jobs a DurableJobQueue call still
\* has to mirror, then what the call returns to; events are what a publisher
\* has still to relay, touched the rows its transaction has updated, marked
\* those it gave a published_at.
Activity ==
    [doing : {"idle", "saving", "enqueueing", "mirroring", "generating",
              "acking", "relaying", "marking"},
     req : Requests \cup {NoJob},
     copies : [Requests -> [state : Queue!JobState, attempt_count : Nat]
                              \cup {NoRecord}],
     then : {"idle", "generating"},
     events : Seq(Subjects),
     touched : SUBSET Subjects,
     marked : SUBSET Subjects]

NoCopies == [r \in Requests |-> NoRecord]

Idle == [doing |-> "idle", req |-> NoJob, copies |-> NoCopies, then |-> "idle",
         events |-> <<>>, touched |-> {}, marked |-> {}]

TypeOK ==
    /\ Queue!TypeOK
    /\ jobRows \in [Requests -> [state : Queue!JobState, attempt_count : Nat]
                                   \cup {NoRecord}]
    /\ explanations \in
          [Subjects -> [by : Requests, content : {"model", "fallback"}]
                          \cup {NoRecord}]
    /\ outbox \in Seq(Subjects)
    /\ published \in SUBSET Subjects
    /\ sent \in [Subjects -> Nat]
    /\ proc \in [Processes -> Activity]
    /\ trouble \in [aborts : 0 .. Aborts, sink : 0 .. SinkFailures]

Init ==
    /\ Queue!Init
    /\ jobRows = [r \in Requests |-> NoRecord]
    /\ explanations = [s \in Subjects |-> NoRecord]
    /\ outbox = <<>>
    /\ published = {}
    /\ sent = [s \in Subjects |-> 0]
    /\ proc = [p \in Processes |-> Idle]
    /\ trouble = [aborts |-> 0, sink |-> 0]

Becomes(p, activity) == proc' = [proc EXCEPT ![p] = activity]

-------------------------------------------------------------------------------
(* DurableJobQueue: the queue is changed first; the jobs that came out of  *)
(* it, copied at that moment, are saved afterwards, one transaction each.  *)

\* Thread p has made a call on the queue that changed the jobs rs.
Mirroring(p, rs, next) ==
    Becomes(p, [Idle EXCEPT
        !.doing = "mirroring",
        !.req = IF next = "idle" THEN NoJob ELSE CHOOSE r \in rs : TRUE,
        !.copies = [r \in Requests |->
                       IF r \in rs THEN JobRow(jobs'[r]) ELSE NoRecord],
        !.then = next])

\* _mirror for one job.
Mirror(p, r) ==
    LET left == [proc[p].copies EXCEPT ![r] = NoRecord] IN
    /\ proc[p].doing = "mirroring"
    /\ proc[p].copies[r] # NoRecord
    /\ jobRows' = [jobRows EXCEPT ![r] = proc[p].copies[r]]
    /\ Becomes(p, IF left # NoCopies THEN [proc[p] EXCEPT !.copies = left]
                  ELSE IF proc[p].then = "idle" THEN Idle
                  ELSE [Idle EXCEPT !.doing = proc[p].then, !.req = proc[p].req])
    /\ UNCHANGED <<queueVars, explanations, relay, trouble>>

\* recover_stale: all stale jobs are recovered at once and mirrored one by one.
RecoverStale(p) ==
    /\ proc[p] = Idle
    /\ Queue!RecoverStale
    /\ Mirroring(p, {r \in Requests : jobs'[r] # jobs[r]}, "idle")
    /\ UNCHANGED <<tables, relay, trouble>>

-------------------------------------------------------------------------------
(* ExplanationPipeline.enqueue.                                            *)

\* The fast path returns the job that is registered under the key.
FindByKey(c, r) ==
    /\ proc[c] = Idle
    /\ byKey[r] = NoJob
    /\ Becomes(c, [Idle EXCEPT !.doing = "saving", !.req = r])
    /\ UNCHANGED <<queueVars, tables, relay, trouble>>

\* The job is saved PENDING, whatever the row says by now.
SavePending(c) ==
    /\ proc[c].doing = "saving"
    /\ jobRows' = [jobRows EXCEPT ![proc[c].req] = Pending]
    /\ Becomes(c, [proc[c] EXCEPT !.doing = "enqueueing"])
    /\ UNCHANGED <<queueVars, explanations, relay, trouble>>

\* The queue takes the job, or returns the one it has under this key.
EnqueueJob(c) ==
    LET r == proc[c].req IN
    /\ proc[c].doing = "enqueueing"
    /\ IF byKey[r] = NoJob THEN Queue!Enqueue(r, r) ELSE UNCHANGED queueVars
    /\ Mirroring(c, {r}, "idle")
    /\ UNCHANGED <<tables, relay, trouble>>

-------------------------------------------------------------------------------
(* ExplanationPipeline.process_pending.                                    *)

Claim(w) ==
    /\ proc[w] = Idle
    /\ Queue!Claim(w)
    /\ Mirroring(w, {r \in Requests : jobs'[r] # jobs[r]}, "generating")
    /\ UNCHANGED <<tables, relay, trouble>>

\* explain_strict: an unavailable or late model is reported; what is malformed
\* or fails the validator is replaced by a text made of the facts.
Content(answer) ==
    CASE answer \in {"unavailable", "timeout"} -> "none"
      [] answer \in {"malformed", "error", "invalid"} -> "fallback"
      [] answer = "valid" -> "model"

\* A retryable failure, handed to the queue; a lost lease raises.
ReportUnavailable(w, answer) ==
    LET r == proc[w].req IN
    /\ proc[w].doing = "generating"
    /\ Content(answer) = "none"
    /\ IF Queue!HoldsLease(r, w)
       THEN Queue!Fail(r, w, TRUE, RetryDelay) /\ Mirroring(w, {r}, "idle")
       ELSE UNCHANGED queueVars /\ Becomes(w, Idle)
    /\ UNCHANGED <<tables, relay, trouble>>

\* Variant for the mutation runs: the event is added in a transaction of its
\* own, before the explanation.
PersistInTwo(w, answer) ==
    LET r == proc[w].req  s == SubjectOf[r] IN
    /\ proc[w].doing = "generating"
    /\ Content(answer) # "none"
    /\ \/ /\ ~Contains(outbox, s)
          /\ outbox' = Append(outbox, s)
          /\ UNCHANGED <<explanations, proc>>
       \/ /\ Contains(outbox, s)
          /\ explanations' = [explanations EXCEPT
                ![s] = [by |-> r, content |-> Content(answer)]]
          /\ Becomes(w, [proc[w] EXCEPT !.doing = "acking"])
          /\ UNCHANGED outbox
    /\ UNCHANGED <<queueVars, jobRows, published, sent, trouble>>

\* Variant for the mutation runs: the duplicate is swallowed.
PersistDuplicateAcked(w, answer) ==
    LET r == proc[w].req  s == SubjectOf[r] IN
    /\ proc[w].doing = "generating"
    /\ Content(answer) # "none"
    /\ IF Contains(outbox, s) THEN UNCHANGED <<explanations, outbox>>
       ELSE /\ outbox' = Append(outbox, s)
            /\ explanations' = [explanations EXCEPT
                  ![s] = [by |-> r, content |-> Content(answer)]]
    /\ Becomes(w, [proc[w] EXCEPT !.doing = "acking"])
    /\ UNCHANGED <<queueVars, jobRows, published, sent, trouble>>

\* The model has answered; _persist stores explanation and event in one
\* transaction.  The event id exists when the subject was explained before:
\* DuplicateRecordError rolls the transaction back and leaves process_pending,
\* with the job still RUNNING.
Persist(w, answer) ==
    LET r == proc[w].req  s == SubjectOf[r] IN
    /\ proc[w].doing = "generating"
    /\ Content(answer) # "none"
    /\ \/ /\ ~Contains(outbox, s)
          /\ explanations' = [explanations EXCEPT
                ![s] = [by |-> r, content |-> Content(answer)]]
          /\ outbox' = Append(outbox, s)
          /\ Becomes(w, [proc[w] EXCEPT !.doing = "acking"])
       \/ /\ Contains(outbox, s)
          /\ Becomes(w, Idle)
          /\ UNCHANGED <<explanations, outbox>>
    /\ UNCHANGED <<queueVars, jobRows, published, sent, trouble>>

\* Variant for the mutation runs: the row is saved before the queue is asked.
AckJobSavedFirst(w) ==
    LET r == proc[w].req IN
    /\ proc[w].doing = "acking"
    /\ jobRows' = [jobRows EXCEPT ![r] = [JobRow(jobs[r]) EXCEPT !.state = "SUCCEEDED"]]
    /\ IF Queue!HoldsLease(r, w) THEN Queue!Ack(r, w) ELSE UNCHANGED queueVars
    /\ Becomes(w, Idle)
    /\ UNCHANGED <<explanations, relay, trouble>>

\* The ack; a lost lease raises out of process_pending.
AckJob(w) ==
    LET r == proc[w].req IN
    /\ proc[w].doing = "acking"
    /\ IF Queue!HoldsLease(r, w)
       THEN Queue!Ack(r, w) /\ Mirroring(w, {r}, "idle")
       ELSE UNCHANGED queueVars /\ Becomes(w, Idle)
    /\ UNCHANGED <<tables, relay, trouble>>

-------------------------------------------------------------------------------
(* OutboxPublisher.publish_pending: one transaction around the whole batch. *)

Events == {s \in Subjects : Contains(outbox, s)}

\* Variants for the mutation runs: every event is listed, or only those the
\* sink has not seen.
UnpublishedAll == Events
UnpublishedUnsent == {s \in Events \ published : sent[s] = 0}

Unpublished == Events \ published

\* ORDER BY created_at.
OldestFirst(batch) ==
    \A i, k \in DOMAIN batch : i < k =>
        \E a, b \in DOMAIN outbox :
            a < b /\ outbox[a] = batch[i] /\ outbox[b] = batch[k]

ListUnpublished(p) ==
    /\ proc[p] = Idle
    /\ Unpublished # {}
    /\ \E batch \in SetToSeqs(Unpublished) :
          /\ OldestFirst(batch)
          /\ Becomes(p, [Idle EXCEPT !.doing = "relaying", !.events = batch])
    /\ UNCHANGED <<queueVars, tables, relay, trouble>>

\* The sink takes the event.
Relay(p) ==
    LET s == Head(proc[p].events) IN
    /\ proc[p].doing = "relaying" /\ proc[p].events # <<>>
    /\ sent' = [sent EXCEPT ![s] = @ + 1]
    /\ Becomes(p, [proc[p] EXCEPT !.doing = "marking"])
    /\ UNCHANGED <<queueVars, tables, outbox, published, trouble>>

\* A row another transaction has updated is locked until that one ends.
Unlocked(p, s) == \A q \in Publishers \ {p} : s \notin proc[q].touched

\* Variant for the mutation runs: the event is marked all the same.
RecordAttemptMarked(p) ==
    LET s == Head(proc[p].events) IN
    /\ proc[p].doing = "relaying" /\ proc[p].events # <<>>
    /\ trouble.sink < SinkFailures
    /\ Unlocked(p, s)
    /\ Becomes(p, [proc[p] EXCEPT !.events = Tail(@),
                                  !.touched = @ \cup {s},
                                  !.marked = @ \cup {s}])
    /\ trouble' = [trouble EXCEPT !.sink = @ + 1]
    /\ UNCHANGED <<queueVars, tables, relay>>

\* The sink raises: record_attempt.
RecordAttempt(p) ==
    LET s == Head(proc[p].events) IN
    /\ proc[p].doing = "relaying" /\ proc[p].events # <<>>
    /\ trouble.sink < SinkFailures
    /\ Unlocked(p, s)
    /\ Becomes(p, [proc[p] EXCEPT !.events = Tail(@),
                                  !.touched = @ \cup {s}])
    /\ trouble' = [trouble EXCEPT !.sink = @ + 1]
    /\ UNCHANGED <<queueVars, tables, relay>>

\* mark_published updates the row only if it has no published_at.
MarkPublished(p) ==
    LET s == Head(proc[p].events) IN
    /\ proc[p].doing = "marking"
    /\ Unlocked(p, s)
    /\ Becomes(p, [proc[p] EXCEPT
          !.doing = "relaying",
          !.events = Tail(@),
          !.touched = IF s \in published THEN @ ELSE @ \cup {s},
          !.marked = IF s \in published THEN @ ELSE @ \cup {s}])
    /\ UNCHANGED <<queueVars, tables, relay, trouble>>

\* The end of the with block.
CommitBatch(p) ==
    /\ proc[p].doing = "relaying" /\ proc[p].events = <<>>
    /\ published' = published \cup proc[p].marked
    /\ Becomes(p, Idle)
    /\ UNCHANGED <<queueVars, tables, outbox, sent, trouble>>

-------------------------------------------------------------------------------
(* The environment.                                                        *)

\* The next step of a call raises: a database that is away, a bug.  What the
\* open transaction did is undone, what the queue or the sink did is not.
Abort(p) ==
    /\ proc[p] # Idle
    /\ trouble.aborts < Aborts
    /\ trouble' = [trouble EXCEPT !.aborts = @ + 1]
    /\ Becomes(p, Idle)
    /\ UNCHANGED <<queueVars, tables, relay>>

Tick ==
    /\ Queue!Tick
    /\ UNCHANGED <<tables, relay, proc, trouble>>

CallerStep(c) == SavePending(c) \/ EnqueueJob(c)

WorkerStep(w) ==
    \/ Claim(w)
    \/ \E answer \in Answers : Persist(w, answer) \/ ReportUnavailable(w, answer)
    \/ AckJob(w)

PublisherStep(p) ==
    \/ ListUnpublished(p)
    \/ Relay(p)
    \/ MarkPublished(p)
    \/ CommitBatch(p)

Next ==
    \/ \E c \in Callers, r \in Requests : FindByKey(c, r)
    \/ \E c \in Callers : CallerStep(c)
    \/ \E w \in Workers : WorkerStep(w)
    \/ \E p \in Sweepers : RecoverStale(p)
    \/ \E p \in Callers \cup Workers \cup Sweepers, r \in Requests : Mirror(p, r)
    \/ \E p \in Publishers : PublisherStep(p)
    \/ \E p \in Publishers : RecordAttempt(p)
    \/ \E p \in Processes : Abort(p)
    \/ Tick

Spec == Init /\ [][Next]_vars

\* A publisher loop calls publish_pending again and again and its calls go on.
\* Nothing is assumed of callers, workers, sweeps and the model; the troubles
\* are bounded.
FairSpec == Spec /\ \A p \in Publishers : WF_vars(PublisherStep(p))

-------------------------------------------------------------------------------
(* Correctness.                                                            *)

\* An explanation is stored exactly when its READY event is, and the event is
\* there once: the two are one transaction, and a second delivery of the job
\* adds neither.
ReadyIsAnnounced ==
    /\ IsInjective(outbox)
    /\ \A s \in Subjects :
          explanations[s] # NoRecord <=> Contains(outbox, s)

\* At least once: an event is marked only after the sink has taken it, whatever
\* publishers overlap, abort or meet a sink that refuses.
PublishedWasSent == \A s \in published : sent[s] > 0

\* Not much more than once: overlapping publishers may each relay an event one
\* of them is about to mark, and an aborted batch is relayed again; nothing
\* else is sent twice.
BoundedDuplication ==
    \A s \in Subjects : sent[s] <= Cardinality(Publishers) + trouble.aborts

\* A job is acknowledged only for the explanation it stored itself: runs that
\* were overtaken, and runs that found their subject explained, do not succeed.
SucceededIsExplained ==
    \A r \in Requests : jobs[r].state = "SUCCEEDED" =>
        /\ explanations[SubjectOf[r]] # NoRecord
        /\ explanations[SubjectOf[r]].by = r

\* The durable row may be behind the queue but never ahead of it: it counts no
\* attempt that was not made and reports no end that was not reached, although
\* copies are saved late, in any order, and calls end between queue and table.
RowIsPast ==
    \A r \in Requests : jobRows[r] # NoRecord =>
        /\ jobRows[r].attempt_count <= jobs[r].attempt_count
        /\ jobRows[r].state \in Queue!TERMINAL_STATES =>
              jobRows[r].state = jobs[r].state

\* The pipeline keeps the promises of ExplanationRelay, which know no jobs, no
\* transactions and no publishers: a redelivered job, a batch that overlaps
\* another or is aborted, a refusing sink are delays or a further delivery, of
\* which there is one for each publisher and each aborted batch at most.
Promised == INSTANCE ExplanationRelay WITH
    Texts <- [by : Requests, content : {"model", "fallback"}],
    MaxDeliveries <- Cardinality(Publishers) + Aborts,
    explained <- explanations, announced <- outbox, delivered <- sent, settled <- published
ImplementsRelay == Promised!Spec

\* What became READY is published in the end, whatever batches abort and
\* whatever the sink refuses, as long as it does not refuse for ever.
EveryEventPublished ==
    \A s \in Subjects : Contains(outbox, s) ~> s \in published

\* storage-architecture.md: "The `DurableJobQueue` mirror keeps them
\* consistent."  Without aborts, when no call is under way, the row of a job
\* says what the queue says.
MirrorAgrees ==
    (\A p \in Processes : proc[p] = Idle) =>
        \A r \in Requests : jobs[r].state # "ABSENT" =>
            jobRows[r] = JobRow(jobs[r])

\* explanations/models.py: "re-generating an explanation upserts rather than
\* duplicates".  When the model answers and nothing aborts, a run leaves the
\* explanation of its own request behind.
RegenerationUpserts ==
    [][\A w \in Workers :
         proc[w].doing = "generating" /\ proc'[w] # proc[w] =>
            /\ explanations'[SubjectOf[proc[w].req]] # NoRecord
            /\ explanations'[SubjectOf[proc[w].req]].by = proc[w].req]_vars
===============================================================================
