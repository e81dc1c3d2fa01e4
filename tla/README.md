# A TLA+ model of the bid compliance platform

The repository takes bid submissions apart into evidence, checks the evidence
against rules and authoritative providers, and publishes one boolean per
compliance flag with a grounded explanation. What is hard to test in it is not
a single rule but the machinery that carries a submission through the rules:
queues with leases, a pipeline restarted by retries, several stores written one
after the other; and the rules taken together, where an outage, an order or one
more bad signal must not change a verdict the wrong way. This directory models
both, checks them with TLC and proves with TLAPS every safety property the runs check.

Paths below are relative to the repository's root; `infrastructure/`,
`application/`, ... are packages under `src/`, and `SIH-PROJECT-main/` is the
evaluation service that uses them.

## 1. Inventory

| component | state | operations | interacts with | what is hard |
|---|---|---|---|---|
| In-process job queue (`infrastructure/jobs/queue.py`, `models.py`) | `_jobs`, `_pending`, `_by_idempotency_key` under one lock | enqueue, claim, renew_lease, ack, fail, cancel, recover_stale | workers, service, explanation pipeline, clock | leases that expire under a running worker, rotation of the deque, attempt budget |
| Redis job queue (`jobs/redis_queue.py`) | a list, a sorted set, one document per job, one marker per key | the same, one or several commands each | every process of a deployment | only claim and the pipelines are atomic; everything else reads, then writes |
| Submission processing (`application/service.py`, `application/worker.py`, `infrastructure/processing.py`, `pipeline.py`, `errors.py`) | the submissions row: stage, anchor, attempts; persisted outputs | process_bid, enqueue_submission, advance_stage, fail_submission, the pipeline, the worker loop | queue, database, engines | crash and retry in the middle, overlapping runs of one submission, swallowed errors |
| Durable mirror (`jobs/durable.py`) and idempotency store | `processing_jobs` rows | forwards to a queue, then saves the row | queue, database | second write after the first, order and crash |
| Outbox, units of work (`outbox.py`, `persistence/`) | outbox events, all tables | publish_pending, begin/commit/rollback | sinks, database | at-least-once relay, whole-store rollback |
| Explanation pipeline (`ai_verification/explanations/`) | explanation jobs and rows | submit, process_pending, persist | the same queue, a language model | redelivery, foreign job types, fallback |
| Flags and snapshots (`application/flag_projection.py`, `infrastructure/flags/`) | flag states and snapshots per bidder | project, materialize, reconstruct | engines, database | state of a bidder against state of a submission |
| Artifacts (`infrastructure/artifacts/`) | blob and metadata files | put, get, delete | ingestion | two files per artifact |
| Provider adapters (`compliance_engine/verification/`) | none | one request per identifier, over HTTP, SOAP or a mock | registries | an error page, an empty body or a cut connection must not read as an answer |
| Compliance engine and rules (`compliance_engine/engine.py`, `rules/`) | results, records and the tracking list of one assessment | run: group, verify, evaluate, collect | providers, rules | requirements regrouped by capability, records replaced by richer ones |
| Financial evaluation (`compliance_engine/financial/`, `financial_bridge.py`) | none | profile, judge, consistency, trend | the financial rule | several documents for one year, missing years, amounts that do not parse |
| Flag registry (`compliance_engine/flags/registry.py`) | one table | look up | everything that raises or scores a flag | an id that is not registered raises in the scorer |
| Document, identity and cross-bidder checks (`ai_verification/`, `anomalies/`) | the cross-bidder document store | run for one bidder against the others | results of the compliance engine | pairs, gates and thresholds, whose side is which |
| Quality, document score, risk, finding score (`ai_verification/`, `finding_risk_scorer.py`) | none | score, aggregate | everything found | categories at their limits, deduplication |
| Evaluation service (`SIH-PROJECT-main/app`) | evaluation status, bidder folders, documents, results and scores | upload, Celery task, two endpoints that verify on request | Celery, database, the engines above | redelivered tasks, one task and several commits, status on failure |

What makes each correct, in a sentence: the queue loses, doubles, overruns and
steals no job; the Redis adapter keeps what it promises of that; a submission
shows no stage whose outputs are missing and agrees with its job; the mirror is
never behind for good; an event is relayed at least once and a transaction
touches nothing else; an explanation exists once per grounding; a snapshot
belongs to the submission it is shown for; an artifact is whole or absent; a
status follows from the evidence and never from an outage; scores stay in range
and do not depend on order; an evaluation ends in a status that is true.

PROJECT.json lists the same components with their sources and, under "hazards",
the places where each can go wrong.

## 2. Modules

| module | models | built on |
|---|---|---|
| `JobLifecycle` | what a caller may rely on: a job is unknown, waiting, owned by one worker or over; it is taken at most `MaxAttempts` times | |
| `JobQueue` | `InMemoryJobQueue` | refines `JobLifecycle` |
| `JobQueue_proofs` | inductive invariant, all safety properties, the refinement | `JobQueue` |
| `RedisJobQueue` | `RedisJobQueue`, one step per Redis command, script or MULTI | documents and lease tests of `JobQueue`; refines `JobLifecycle` when calls do not overlap |
| `RedisJobQueue_proofs` | one invariant for calls that overlap and die, one for a single caller, the refinement | `RedisJobQueue` |
| `SubmissionProcessing` | entry points, coordinator, stage table, pipeline, retry decision and worker | composes with `JobQueue` |
| `SubmissionProcessing_proofs` | inductive invariants and all safety properties | `SubmissionProcessing`, the lemmas of `JobQueue_proofs` |
| `ExplanationRelay` | what readers of explanations and subscribers of their events may rely on: explained once and announced at once, delivered after that a bounded number of times, settled only when delivered | |
| `Explanations` | `ExplanationPipeline`, `DurableJobQueue`, the decision of `ExplanationEngine`, `OutboxPublisher` | composes with `JobQueue`; refines `ExplanationRelay` |
| `Explanations_proofs` | inductive invariant and safety of the pipeline, mirror and relay, the refinement | `Explanations`, the lemmas of `JobQueue_proofs` |
| `BidderStore` | what the submissions of one bidder leave in the tables and in the artifact store, on both kinds of store, and what is read back | |
| `BidderStore_proofs` | type correctness, the inductive invariants and all safety properties of the runs | `BidderStore` |
| `Sums` | the sum of a sequence, as a recursive function | |
| `Providers` | every adapter: from the answer of a source to a verification | |
| `Financial` | from documents to a profile, and from a profile to a verdict | `Sums` |
| `ComplianceRules` | the eleven rules | `Providers`, `Financial` |
| `ComplianceEngine` | one assessment of a bid, step by step | `ComplianceRules` |
| `ComplianceEngine_proofs` | adapters and rules case by case, inductive invariant of the assessment, the order of documents | `ComplianceEngine` |
| `FlagRegistry` | the table of flags | |
| `Documents` | identity, cross-document and name checks of one bidder's papers | `FlagRegistry` |
| `CrossBidder` | quality of documents, and copies between bidders | `Documents` |
| `Scoring` | the document score and its colour | `CrossBidder`, `Sums` |
| `Risk` | risk signals, their aggregation, the finding score | `Scoring` |
| `BidderVerification` | what becomes of one bidder after the compliance engine, engine by engine | `Risk`, an instance of `Financial` |
| `BidderVerification_proofs` | where a finding comes from, that neither order nor side matters, that a copy is reported, and that bad news never helps | `BidderVerification` |
| `Evaluation` | the evaluation service: upload, task, endpoints, tables | |
| `Evaluation_proofs` | inductive invariant and both safety properties | `Evaluation` |
| `MCJobQueue`, `MCRedis`, `MCSubmission`, `MCExplanations`, `MCStores`, `MCAssessment`, `MCVerification`, `MCEvaluation` | instances | |

Two chains compose: `JobQueue` under `SubmissionProcessing` and `Explanations`
(calls of the queue are steps of the composed modules), and the operators of
`Providers` to `Risk` under the two state machines `ComplianceEngine` and
`BidderVerification`. `BidderStore` and `SubmissionProcessing` are two views of
the same run: one has the jobs, stages and retries, the other the rows.

### JobQueue

`jobs`, `pending` and `byKey` are `_jobs`, `_pending` and
`_by_idempotency_key`. Every method runs under `self._lock`, so every method is
one action; a call that raises changes nothing and is left out. The code
compares absolute times with its clock only, so the model keeps what is left of
a lease (floored at -1, "in the past") and of a retry delay (floored at 0,
"due"), and `Tick` counts both down. At 0 both the holder's check
(`lease_expires_at < now` raises) and the sweep's (`> now` skips) let their
caller pass, as in the code. `recover_stale` sweeps all jobs in one action.
The variants next to some definitions are used to check that each property can
fail; nothing else refers to them.

### RedisJobQueue

`docs`, `pending`, `due` and `idem` are the four key families, `client` the
command each client sends next and the document it has computed so far. A
`recover_stale` scan is a series of visits to single documents. `overlap` says
whether calls may overlap and die half-way, or one caller at a time uses the
adapter; it is chosen at the start and stays. `MaxPending` bounds the list, which
overlapping calls can lengthen without limit.
The expiry of a marker does not occur: `enqueue` sets none.

### SubmissionProcessing

A submission and its job (`job:compliance:<submission_id>`) share an id. `rows`
is the submissions table, `outputs` what `_run_pipeline` has persisted for a
submission, `proc` the position of every process in the code. `Plan` is the
body of `_run_pipeline`: stages it enters and outputs it persists, in order.
`advance_stage` and `fail_submission` get the row and save all of it, under
PostgreSQL's default isolation and without a version, so each is two steps.
`faults`, chosen at the start, is the environment: processes that die, runs that outlast their
lease, a database that is down while a failure is recorded. The row's
`last_error` is left out, no property is about it.

### Explanations

A request is one (bidder, flag, state, grounding): `enqueue` makes both the job
id and the idempotency key of exactly that, so jobs and keys of `JobQueue` are
both requests. The ids of the explanation and of its outbox event are made of
(bidder, flag, state) only, which is why `SubjectOf` need not be injective.

`DurableJobQueue` changes the queue and then saves copies of what came out of
it: a thread in `"mirroring"` holds the copies it still has to save, and the
threads save them in any order. `enqueue` saves the job PENDING before it asks
the queue. `Content` is `explain_strict`: what the caller gets for each way the
model can answer. `_persist` is one transaction; the event id that exists
already raises and undoes it.

The database is PostgreSQL under READ COMMITTED. A publisher lists the
unpublished events, relays each and marks it, all in one transaction, so others
see its marks when it commits and wait for the rows it has updated. The order of
`outbox` is the order of commits, where the code orders by `created_at`; no
property depends on it. A batch has no limit (the code's is 100 events), and the
attempt counter of an event is left out because nothing reads it. `Abort` ends a call at any step, the transaction it has open
undone and nothing else.

`LeaseSeconds = 0` in the passing runs lets a sweep overtake every run at every
moment, which is the worst a lease of any length can come to; likewise a retry
delay of 0 lets the retry follow at any later moment.

### BidderStore

`tables` is the part of the database that concerns one bidder: submissions,
documents, evidence, results, findings, flag states, snapshots, explanations and
the two kinds of events that properties speak of. `runs[s]` is where the run of
submission `s` is: `at` is a position in `Units`, the units of work of
`ingest_submission` and `_run_pipeline` in order, `phase` how far that unit has
got, `found` what the engines returned, `undo` the copy of the store that
`InMemoryUnitOfWork.begin` keeps. Findings, flag states and explanations have ids
that name the bidder; results have the submission in theirs. That difference is
what makes the module interesting: a second submission of a bidder overwrites
some of what the first was answered with and leaves the rest.

`backend` and `overlap` choose between the two stores and between one thread and
several, and stay as they are. In memory the rows of a unit are visible before
its events and before it commits, and a rollback puts back what the unit copied when it
began, over the writes of other threads. Neither holds the store's lock. Copy and
rollback go through the tables in the order of `_Store.tables` (`TableOrder`), and where
threads share the store (`Shared`) another thread may act between any two tables, or
between the clearing and the filling of one: `done` is how far a run has come in phase
"copying" or "restoring", `Reaches` the places where it may be interrupted, `torn` the
interruptions so far, bounded by `MaxTorn`. What others save between the clearing and
the filling of a table stays (`Merged`). Within one table, copying, clearing and filling
are one step each. PostgreSQL makes a unit one step, `CommitTransaction`. A flag that is not set has no row: `project_flag_states`
writes set flags only. Snapshots are keyed by a digest of their flags, and the
two stores differ on what a repeated one does (`SavedSnapshots`).
`StartPut` and `FinishPut` are the two files of `FilesystemArtifactStore.put`.
`Reconstructed` is `_reconstruct`, the answer for a submission that is already
COMPLETE.

### Providers, Financial, ComplianceRules, ComplianceEngine

An answer of a source is what its adapter looks at: whether the transport
raised or the connection was cut, the class of the status code, what the body
says, and the fields the adapter reads. Each adapter is an operator from an
answer to a verification, with the adapter's own order of tests. PAN has two
routes, REST and SOAP, and GST a second one that goes over `urllib`. `RAISES`
stands for an exception that leaves the adapter or the rule; the tables of BIS and
debarment have no entry for an INACTIVE verification, so there it is what their rules give.

`Financial` takes documents as sequences of items in extraction order, because
the first statement of a year decides. Amounts count half lakhs, so two of them
can differ by less than the tolerance of a lakh that the consistency check and the
balance sheet allow (`WithinTolerance`); `NoNumber` is one that does not parse.
`SumError`, a constant, is how far the floating-point sum of a sequence of amounts is
off: it decides an average that equals the limit exactly (`TurnoverMeets`) and nothing
else. That floats exactly a lakh apart may fall on either side of the tolerance is left out.

A rule takes a requirement and a verification and returns status, flags and what
it cites. Requirements carry the outcome of each comparison with a document
("unset", "met", "unmet") in place of the two strings compared.

`ComplianceEngine` runs one bid. `_evaluate_requirements` regroups the
requirements by capability; `UpNext(i)` says which position is evaluated next
(`Open` are those not yet evaluated), `tracked` is the list of the tracking
provider, `records` the audit trail. A requirement is not applicable, is without
provider or without rule, needs no source, or asks one; `CloseGroup` moves the
tracked verifications to the trail when the group is over. An exception ends the
assessment with `pc = "raised"`. `EngineAssumption` says what a bid and an answer
are: requirements name a rule with the parameters that rule reads, and a source
answers with the fields its adapter reads.

### FlagRegistry, Documents, CrossBidder, Scoring, Risk, BidderVerification

`FlagRegistry` is the table itself, cut into pieces. In `Documents` a text is what
it says plus the style normalisation removes, so that two texts can be equal
after normalisation only; a "typed" text is a value that is no string. Addresses
keep the lines and words that the comparison joins. In `CrossBidder` a document
carries what the gates and signals read; texts are compared by the 4-grams of
their letters and embeddings by their cosine, as in the code, where the vector
itself, or the failure of the embedding service, is given. `Scoring` and `Risk` keep the
arithmetic, in hundredths and in percents of percents, with its rounding. Of the risk
signals of one key exactly one survives, the strongest, and of several as strong the
first by its id; only signals of one requirement's results come to that, and `place`, the
position of the result, tells them apart.

`BidderVerification` is the order in which the service runs these engines for
one bidder: names on documents, registries, own documents, documents of other
bidders, the financial bridge, and then the document score, the risk state and
the finding score over all that was found. Engines are optional, as in the code.
The state machine makes the steps visible; the hard part is in the operators.

### Evaluation

`status`, `payload`, `folders`, `documents`, `results` and `scores` are columns
and tables of the service, `messages` the broker, `proc` what each Celery worker
and each request is doing. Each step is one commit, or one statement where a
transaction's own statements see different snapshots: module 4 deletes old
results and old scores with separate statements and commits with the new rows.
`faults` says what may happen in a behaviour: a process dies, a step raises, or a
statement fails, which leaves the session unusable, so the except clause that
records the failure on it fails as well (`LoseSession`). The endpoints run the
same steps as the task, with folders of every delivery in the table.

## 3. Runs

| run | question | instance | result |
|---|---|---|---|
| `job_queue` | does the queue keep its promises under every order of calls? | 3 jobs, 2 workers, 1 key, 2 attempts, lease 1, delays 0 and 1 | holds, and it refines `JobLifecycle` |
| `redis` | does the Redis adapter keep them when calls do not overlap, and what is left when they overlap and clients die? | 2 jobs, 2 workers, 1 key, 2 clients; overlapping: 1 job, list of at most 3 | holds; a job is never out of reach |
| `redis_double_claim` | can two workers own one job? | 1 job, 2 clients | yes: finding |
| `submission` | do row and job agree when no run is disturbed, and what survives crashes, stalls and lost failure records? | 2 workers; undisturbed: 1 queued and 1 direct submission; with crashes, stalls and a database that goes down: 1 queued | holds |
| `crash_not_resumed` | does a crash cost more than an attempt? | 3 attempts, crashes only | yes: finding |
| `explanations` | do explanation, event, job and row agree under redelivery? | 2 requests for one flag state, 2 workers, 1 sweeper, 3 kinds of answers, 1 abort | holds |
| `relay` | is every event relayed, how often at most, and what do readers and subscribers see? | 2 requests for two flag states, 2 publishers, 1 abort, 1 refusal of the sink | holds, and it refines `ExplanationRelay` |
| `stores` | does what was answered stay on record, grounded and readable? | 3 submissions, two with one document, 2 flags, 1 requirement, 3 outcomes, 3 runs (2 where threads share the memory store), 1 exception, 1 interrupted copy or rollback, both stores | holds |
| `flags_read_back` | does a repeated submission read back the flags it was answered? | as `stores` | no: finding |
| `assessment` | is every requirement answered once, with its trail, and by no outage, and when does the order of documents decide? | every rule alone with every answer of its source; bids of three requirements with every choice of providers | holds |
| `verification` | are findings grounded, symmetric and independent of order, and verdicts monotone? | over 8,000 cases, each engine with inputs of its own | holds |
| `evaluation` | are results replaced and never added to, and does a task end in a true status? | 3 bidders, one without documents, 2 workers, 2 requests, 2 deliveries, one at a time under all faults, overlapping under engines that raise | holds |

`redis` and `submission` put several environments into one run, each a value of
a variable that never changes: `overlap` of `RedisJobQueue` and `faults` of
`SubmissionProcessing` (undisturbed, or everything at once).
`PlacesAreExact`, `OneJobPerKey`, `LiveLeasesKept` and `ImplementsLifecycle` claim
nothing where Redis calls overlap (two overlapping enqueues of one key do make two
jobs), and `JobAndRowAgree` nothing of a disturbed run. `MCRedis`, `MCSubmission`
and `MCEvaluation` keep the larger environment small: one job, one submission,
or one delivery and one request.

Bounds. Two workers are enough for one to overtake the other, and a third adds
no new pair. Two attempts give a first run, a retry and an exhausted budget.
One lease unit separates a live lease, its last instant and an expired one. Two
jobs compete for a claim and for a key; the third in `job_queue` makes the
rotation of the deque non-trivial. The list of Redis needs three places for a
duplicate next to a waiting job. Two requests are the least that can share a
flag state, or take the same publisher from one event to the next; one abort
falls at every step of every call in some behaviour. Three runs of a bidder let
its flags change and come back, two submissions with one document let one make
good the put of the other, and one exception falls into every phase of every
unit. One interruption falls between any two tables of any copy or rollback, and what
another thread does there is any number of its steps; two runs are enough for one that is
interrupted and one that acts meanwhile. Two deliveries make a redelivery, and three folders give one that fails
between one that does not and one without documents.
The inputs of `assessment` and `verification` are enumerated in `MCAssessment`
and `MCVerification`: for each operator the values on both sides of every test it
makes, in all combinations that one rule or one engine reads together, and
numbers on and beside each threshold; amounts lie within the tolerance of each other and
beyond it, and on both sides of the limit, and sums come out exact and short. Rules are not crossed with each other
except in the bids of three, because they share no data. The rest of the state
is finite by itself.

`relay` checks the refinement in place of `PublishedWasSent`, which follows from it
(`Settle` asks for a delivery of every event it settles) and is proved.
`TypeOK` of the modules is proved where there are proofs and is stated, for the
reader and for use as an invariant, in the others.

What the violation runs show:

* `crash_not_resumed`: the pipeline starts again at NORMALIZED after any crash.
  The stage table refuses that with a `ValueError`, hence malformed data, hence
  final: job and submission fail with attempts left.
* `redis_double_claim`: GET and LPUSH of an enqueue are separate commands, and
  the claim script does not look at the state of what it pops. Two sweeps that
  overlap lead to the same.
* `flags_read_back`: PostgreSQL keeps the first snapshot of a set of flags with
  its old time. When a bidder's flags change and come back, the newest snapshot
  is the one in between, and that is what is read back. The memory store
  overwrites and is not affected.

More of the same kind are stated in the modules and have a configuration to show
them. Each is the property that one might expect, and TLC reports it violated:

| configuration | property | what happens |
|---|---|---|
| `MCCompleteReopened` | `CompleteIsTerminal` of `SubmissionProcessing` | a worker dies after its last `advance_stage`; the next run is refused NORMALIZED and `fail_submission`, which validates nothing, turns COMPLETE into FAILED |
| `MCMirrorBehind` | `MirrorAgrees` of `Explanations` | a worker claims and acknowledges a job before the thread that enqueued it has saved its copy; the row ends PENDING |
| `MCRegeneration` | `RegenerationUpserts` of `Explanations` | the second explanation of a flag state inserts an outbox id that exists, its transaction is undone, and the job is tried until its budget is used |
| `MCIngestionIsAtomic` | `IngestionIsAtomic` of `BidderStore` | threads share the memory store; a rollback of one puts back the store from before the rows of another, whose events then stand alone |
| `MCTornRollback` | `TablesKeepReferences` of `BidderStore` | threads share the memory store; one begins a unit and has copied the findings when another saves a finding and its explanation; the copy ends with the explanation alone, and its rollback puts that on record |
| `MCMissingMasks` | `BadNewsNeverHelpsAtAll` of `BidderVerification` | a requirement has two results, MISSING and WARNING, which share key and weight; the MISSING one is the first, survives and is not scored: CLEAR, where the WARNING alone is REVIEW |
| `MCRedelivered` | `BiddersStoredOnce` of `Evaluation` | a task is delivered again; its grouping stores every bidder again under a new folder id |
| `MCNoDocuments` | `NoDocumentsMeansNone` of `Evaluation` | a task fails between the commits of the folders and of their documents; a request then verifies folders that have none |
| `MCPriorResults` | `PriorResultsAreReplaced` of `Evaluation` | a request that finds no results computes them while the task stores its own; neither sees the rows the other adds |
| `MCNoOutageAborts` | `NoOutageAborts` of `ComplianceEngine` | a connection cut inside an answer raises an `HTTPException`, which is no `OSError` and ends the assessment |

Each of these needs two actors, a crash between two lines, a second call or result
with an id of the first, or a source that breaks off in the middle, which is why the
passing tests do not meet it.

Limits of what holds. `OnlyHolderSettles` is about workers with ids of
their own; `SubmissionWorker` and its callers fall back to one default id, and with a
shared id the lease check of the queue cannot tell a late run from the current
one. `OneJobPerKey` is about calls that do not overlap; an enqueue that loses
SET NX before the winner has written its document goes on to create a second
job. `AnswersAreOnRecord` and `FlagsAreGrounded` are about PostgreSQL and about
one thread on the memory store; `ExplanationsAreGrounded` is about threads on the memory
store too, until a copy or a rollback of one is interrupted by another (`torn = 0`).
`NoStolenLease` and `LiveLeasesKept` say that a live lease ends only with its job in a
state an ack, a failure or a cancel leaves; which call left it there the states do not
tell. `ReplacedNotAdded` counts the rows of one folder: a bidder stored again under a new
folder is another one. `VerifiedMeansAll` takes NO_DOCUMENTS for a result. `ReadBackAgrees` claims the whole answer only for
a bidder with one run; after a second one, `_reconstruct` mixes results and
findings of several submissions by design of its queries. `SeenFromBothSides`
takes document ids to be unique, as the document store, keyed by them, does.
`OrderIsIrrelevant` compares the evidence with its reversal and its repetition, for ids
that stand for one record.
`BadNewsNeverHelps` ranks an indeterminate risk with a clear one, because a first
weak signal does turn the one into the other, and speaks of cases in which no requirement
has two results (`AnsweredOnce`), as the compliance engine leaves them (`OneResultEach`);
without that it is false. `OrderMattersOnlyIfReported` lists where the verdict on turnover
or net worth does depend on the order of the documents: an average that equals the limit
exactly, where the rounding of the sum decides; a reported conflict; net worth without a
year or of several required years; and a limit between two net worths of one year that
differ by no more than the tolerance, of which nothing is reported.

## 4. Fairness

`NoWaitingJobStarves` assumes that time passes and that some worker polls
(`run_until_empty` in a loop). `EveryJobEnds` also assumes that a process which
does not die takes its next step and that somebody calls `recover_stale`
regularly. The repository documents that sweep as the way back from a crash
but has no scheduler that calls it: whoever deploys the platform has to.
`EveryEventPublished` assumes that every publisher calls `publish_pending` in a
loop and its calls go on; aborted batches and refusals of the sink are bounded,
because a sink that refuses for ever is never relayed to. It assumes nothing of
the workers: it speaks of events that exist.
`EveryTaskEnds` assumes that a worker or a request that is under way takes its
next step and that the broker delivers what it holds. It claims nothing of
behaviours in which a process dies or a statement fails: a task whose worker
dies is not delivered again (Celery acknowledges early by default), and a
session that failed cannot record its failure, so both leave the status as it is.
Nothing is assumed fair about crashes, stalls, failures or callers.
`ComplianceEngine` and `BidderVerification` are sequential and check no liveness.

## 5. Proofs

The proofs about the queue hold for every value of the constants under
`JobQueueAssumption` (a finite set of jobs, at least one attempt, sentinels that
are no ordinary values). `JobQueue_proofs` has one inductive invariant, the conjunction of the
five safety properties: the type, the exactness of the deque, the budget, the
exactness of leases and of keys. They need each other: that a claim keeps the
deque exact rests on the claimed id occurring once; that the budget holds at a
claim rests on waiting jobs being below it; that a sweep appends no id twice
rests on running jobs not being in the deque. On top of it:
`LiveLeaseIsKept` (the action property) and `Refinement` (every step of the
queue is a step of `JobLifecycle` or leaves it unchanged). `LifecycleBudget` and
`LifecycleFinal` prove the budget and finality of the life cycle itself, so both
carry over to the queue.

`SubmissionProcessing_proofs` proves the safety properties of the composition
for any number of submissions, callers, workers and attempts, under
`SubmissionAssumption`, every environment included. As in the pipeline below, a
call of the queue is shown to be a step of `JobQueue`, and its invariant carries
over. A stage is set by a process from a copy of the row that may be stale, so
`DoneMeansPersisted` needs what each process may rely on between two steps
(`ActivityOK`): the outputs up to its position in the plan are stored, and the
copy it holds claims no more than is stored, which stays so because outputs only
grow. `FailuresAreRuns` counts: every run that may still record a failure has
room for it (`Room`), in the row and in each copy of it, against the attempts of
the job. `HolderAlone` assumes that worker ids differ (`OwnIds`) and rests on
`HolderIsLatest`: who works under the id of the holder works on the attempt
claimed last. `RowAndJobAgree` assumes one entry point for each submission and
a lease that lasts (`CalmAssumption`), and where nothing is disturbed it needs
that one process works on a submission at a time and holds its job (`CalmAt`).

`RedisJobQueue_proofs` has two inductive invariants under `RedisAssumption`. `IInv`
holds however calls overlap and wherever they die: a document a client has computed fits its state and
goes with the command that places it (`CallOK`), which is enough for
`NoJobIsLost`. `SInv` is for one caller at a time: what the call under way has read
is still so (`FreshCall`), each id is in exactly the structure its document names,
and keys and documents name each other. From it follow the exact places, one
job per key, the safety of live leases and the refinement of `JobLifecycle`, the one
the in-process queue implements: there a call may take five steps, of which one
changes the phase of a job. What LREM and RPOP leave of the list is shown from the
definition of the first or last occurrence as a least element, because induction
over the list is out of reach.

`Explanations_proofs` proves all safety properties of the pipeline that the
runs check, under `ExplanationsAssumption`
(that of the queue, and `SubjectOf` a function of the requests). The queue is
not looked into again: every queue call of the pipeline is shown to be a step of
`JobQueue` (`QueueInv`), so the invariant proved there carries over, and the
lemmas `EnqueueEffect` to `TickEffect` say what the pipeline needs of each call,
that no attempt is taken back and no end revoked. None of the properties is
inductive alone. The strengthening (`ActivityOK`) says what each thread may rely
on between two steps: who is about to acknowledge has stored its explanation,
what a batch has marked was relayed, and the copies a thread has still to save
are states the job has reached or passed. `ThreadsStay` shows once that no step
of another thread disturbs this; each action then only has to place its own
thread.

`BoundedDuplication` rests on `RelaysCounted`: every relay of an event is either that of
a publisher which will not send it again in its batch (`DoneWith`), or of a batch that
was aborted. It takes the set of publishers to be finite.

`PipelineKeepsPromise` is the refinement of `ExplanationRelay`, under the constants and
assumptions of the pipeline. The mapping only renames: an explanation row is `explained`,
the outbox `announced`, the calls of the sink `delivered`, the marks `settled`; jobs,
leases, copies, threads and open transactions have no counterpart. `Persist` is `Explain`
when its event is new and a stutter when the insert is refused, which needs
`ReadyIsAnnounced`; `Relay` is `Deliver`, which needs that what a publisher has listed is in
the outbox (`ListedIsAnnounced`, an invariant of its own) and that no event is relayed too
often (`BoundedDuplication` of the state reached); `CommitBatch` is `Settle`, which needs
what `ActivityOK` says of marked events; every other step leaves the four tables alone.
`PromiseIsKept` and `NothingIsRevoked` are proved of `ExplanationRelay`, with the pipeline's
own constants: nothing unexplained is delivered, no explanation is replaced, no settled
event comes back.

`BidderStore_proofs` proves `TypeOK` and the five properties of `stores`, for any
number of submissions, flags, requirements, contents, exceptions and runs, under
`StoreAssumption`. The inductive invariant
has two halves. `OKInv` holds always: documents are readable and, while `torn = 0`,
explanations cite stored findings, in the tables *and in every copy a unit of work keeps*,
because a rollback may put back any of them at any moment; and a run that has
put half an artifact has written the bytes. A copy or a rollback that is not interrupted
is that of the whole store (`WholeCopy`, `WholeRollback`), so until the first interruption
steps are those of a store that is copied and put back at once (`BeginsWhole`, `RaisesWhole`).
The pieces of an interrupted one (`BreaksUp`) keep what does not relate two tables: types,
documents that can be read, times. `GoodInv` holds where units do not
undo what others did (`Isolated`): flag rows and snapshots are grounded, every
answer is on record under a submission that is COMPLETE and so is not run again,
and `Written` says what the earlier units of each run have left in the tables,
which is what its later units rely on. That no step of one submission takes
away what another has written is one relation, `Keeps`, shown once for the rows
and once for the events of a unit; what a unit itself achieves is `UnitDone`.
`Alone` carries the reason why a rollback is harmless in the second half: with
PostgreSQL there is no copy, with one thread there is nobody else, and nobody who could
interrupt (`Whole`).
`ReadBackAgrees` needs three more invariants (`ReadInv`), because it compares an
answer with tables that were filled over several units and with snapshots told
apart by their times. `AgeInv`: no time on record, in a copy or in a run is later
than the clock. `FlagInv`, for the memory store and one thread: no two snapshots
have one time, so the newest is unique, and either a run has taken the present
time and nobody was answered since, or the snapshot of that time is that of the
last answer (`Latest`, `RunLatest`); copies satisfy it as well, so a rollback to one
does no harm. `CalmInv`, where moreover nothing is raised: each unit finds what it asks
for (`Provided`), so none is refused, and the tables hold exactly what the only run of
a bidder has stored so far (`Mine`). TLC finds the three to hold on the instance
of `stores`. `StoreAssumption` says that the value that stands for "no record"
is none of the records.

`Evaluation_proofs` proves both safety properties under `EvaluationAssumption`.
Two verifications at the same time delete and insert rows in each other's back;
what holds even then is the type of every table, for which `NotYet` says that the rows a
process is about to insert are new to everybody, because a row names its author
and delivery. One process at a time (`Alone`), what a transaction is about to
delete is exactly what is stored of its folder, and every folder it has been
through is judged, so an interruption between any two commits leaves a state
from which the next run replaces what there is.

`ComplianceEngine_proofs` proves the assessment for every bid and every answer
that is one (`EngineAssumption`): any number of requirements, any table of
answers. Below it, every adapter is shown to return a verification whose
status is one of the six and is undecided when its source is down, cut off,
failing or silent; the ladders of tests in `Providers` are taken apart by the
least element of the tests that apply. Every rule is shown to return a
`Verdict`, and to neither pass nor fail on an undecided verification. The inductive
invariant says that results come in the order of the regrouped requirements
(`InOrder`), and that the records of finished groups and the tracked
verifications of the open one match the calls one for one (`Trail`), unless an
exception has ended the assessment. The proof found tests of some adapters and rules
that were alternatives of a `CASE` in the model and overlapped; they are nested
conditions now, in the order of the code.
`OrderMattersOnlyIfReported` compares two readings of the same documents, forwards
and backwards. What is stated of one metric is a flattened sequence, so a statement is
located by its document and its place in it (`Laid`, `Tagged`), and the reading
backwards is that of the mirrored documents (`Mirrored`), each at an offset that is a
sum of lengths. A statement is then the first of its year, or the least of what is
stated, in both readings or in neither, unless two documents differ about the year:
by more than the tolerance, which is the conflict `consistency.py` reports, or by no more,
and then only a limit between them changes the verdict; what the chosen points exceed the
limit by is a sum over the same values in another order (`SameTotal`). The theorem holds
for every `SumError`. Attempting this proof
showed that the property was false as it had been stated: with several required years
the first net worth statement of any of them decides alone (`evaluation.py:327`), so
documents that agree on every year still give a verdict that depends on their order.
The property now names this case, and the inputs TLC enumerates contain it.

`BidderVerification_proofs` proves five properties for any set of cases in which
evidence and documents are listed under the bidder they belong to and an id of an
evidence or of a verification stands for one record, and the results and flags of a case
are lists (`CaseAssumption`).
`FindingsAreGrounded` rests on `FoundInv`: at every stage, `findings` holds exactly
what the engines run so far find. What an engine finds is then shown grounded, engine
by engine: that a mismatch of names is between *two* registries needs the
observations that are compared to be the first of two different sources
(`IdentityIsGrounded`); that a copy is of another bidder's document follows from the
pairs that are enumerated and from the detector keeping the names it was given
(`DetectedAreNamed`). `OrderIsIrrelevant` is proved in two steps: a comparison does
not depend on its direction (`ComparisonIsSymmetric`), so the findings are those of
all pairs of *records* (`FoundByRecords`), although the engine skips pairs of ids it
has met; and both rearrangements have the same records.
`SeenFromBothSides` and `CopyIsReported` are about cases whose document ids are
distinct. There the pairs are complete (`PairsAreAll`): a pair that is skipped as seen
is the same pair of documents, because its two ids belong to two bidders. The detector
is symmetric in every signal (`DetectionIsSymmetric`): for the grams of a text because
they are finitely many, for the cosine of two embeddings because the partial sums of both
dot products agree, shown at the least place where they would not. A copy is detected
(`CopyIsDetected`) because of what is known on both sides all agrees but for the overlap
of two periods, so at least half of it does (`CopiesCorroborate`), and the template
matches in full (`CopiesMatch`): 60 + 12.5 percent is above the threshold of 70 even when
the quality contributes nothing.

`BadNewsNeverHelps` compares two runs of all three scorers, one over a case and one over
the same case with one adverse result, one failed verification or one finding less, and
rests on an invariant that says the verdicts are functions of the case and of what was
found (`VerdictInv`). Each scorer is then shown to be monotone.

* The document score (`DocumentScoreGrows`): the material flags, the types that are missing
  and each sum of deductions grow with the findings, so no component can rise, nor
  their weighted mean.
* The risk state (`RiskGrows`). Signals are told apart by keys that hold their traces, and
  dropping a finding changes traces and so keys; so the signals of the smaller case
  are not among those of the larger. They are covered by them instead: each key of the one
  is sent to a key of the other that is at least as severe, and different keys to different
  ones (`Covers`, `FewerAreCovered`). It can be done because two findings with one
  key still have one key with fewer traces (`KeysAgree`), a key that a finding shares with a
  result or a mismatch of names does not change (`BaseKeysStay`), the severity of a signal
  is fixed by the flag in its key unless it has none, and a signal that is told
  and not scored survives in the stead of none that counts (`ActionableIsKept`): the one
  case in the code, two results of one requirement, is what `AnsweredOnce` excludes. A cover
  carries over to the counts the state is decided on (`CoverIsRiskier`).
* The finding score (`GradeGrows`): of two sets of findings, one in the other, the i-th
  heaviest of the larger weighs no less than the i-th of the smaller (`RankedGrows`), and
  so does the total with its weights halved from rank to rank.

The folds of `Scoring` and `Risk` are recursive functions over ranges for this reason: their
values are compared by the least place where a comparison would fail.

Only model-checked: the liveness properties `NoWaitingJobStarves`, `EveryJobEnds`,
`EveryEventPublished` and `EveryTaskEnds`, because fairness is out of the prover's reach.

## 6. Left out, and the plan

Not modelled, and why:

* Explanation content: prompts, wording and its validation. What depends on it,
  whether an answer is valid, is a choice in `Explanations`.
* Entry points, settings, demonstration data and JSON: no state of their own.
* `FindingRiskDatabase` (SQL of one row each), `build_flag_lineage` (reads only),
  `persist_engine_result` and `RedisIdempotencyStore` (nobody calls them),
  `FilesystemArtifactStore.delete` (refused unless a test allows it).
* Payload formats of the registries, signing of requests, text extraction,
  embeddings, SQL: external to the decisions, given as values.
* The duplicate-content lookup of ingestion and the profile of a bidder.

`recover_stale`, `cancel`, `renew_lease`, `OutboxPublisher`, `DurableJobQueue`,
`ExplanationPipeline`, the risk engine, the financial bridge and the finding
scorer are called by tests only; they are modelled as their documentation says
they are meant to be composed.

Left: two consumers of different job types on one queue, the composition of
`SubmissionProcessing` and `Explanations` over one `JobQueue`. Each fails a job it does
not know for good.
