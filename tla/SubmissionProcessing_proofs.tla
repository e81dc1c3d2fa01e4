---------------------- MODULE SubmissionProcessing_proofs ----------------------
(***************************************************************************)
(* Proofs about the processing of submissions for any number of            *)
(* submissions, clients and worker processes, under crashes, stalls and    *)
(* failing databases.  What the queue does is taken from the theorems of   *)
(* JobQueue_proofs.                                                        *)
(***************************************************************************)
EXTENDS SubmissionProcessing, SequenceTheorems, FiniteSetTheorems, TLAPS

QueueProofs == INSTANCE JobQueue_proofs WITH
    Jobs <- Submissions, Keys <- Submissions, Workers <- WorkerIds

-------------------------------------------------------------------------------
(* The queue under the workers.                                             *)

\* A step of the queue that somebody takes, or none.
QueueStep ==
    \/ \E s \in Submissions : Queue!Enqueue(s, s)
    \/ \E w \in WorkerIds : Queue!Claim(w)
    \/ \E s \in Submissions, w \in WorkerIds : Queue!Ack(s, w)
    \/ \E s \in Submissions, w \in WorkerIds, r \in BOOLEAN, d \in 0 .. MaxDelay :
          Queue!Fail(s, w, r, d)
    \/ Queue!RecoverStale
    \/ Queue!Tick
    \/ UNCHANGED queueVars

\* What the proofs below need to know of the queue.
QueueFacts ==
    /\ jobs \in [Submissions -> Queue!Job]
    /\ pending \in Seq(Submissions)
    /\ byKey \in [Submissions -> Submissions \cup {NoJob}]
    /\ \A i \in DOMAIN pending :
          jobs[pending[i]].state \in Queue!Waiting \cup {"CANCELLED"}
    /\ \A s \in Submissions : jobs[s].state = "ABSENT" => jobs[s].attempt_count = 0
    /\ \A s \in Submissions :
          jobs[s].state = "RUNNING" <=> jobs[s].leased_by # NoWorker

USE DEF Queue!JobState, Queue!Waiting, Queue!TERMINAL_STATES

LEMMA QueueAssumption == QueueProofs!JobQueueAssumption
BY SubmissionAssumption DEF Queue!JobQueueAssumption, QueueProofs!JobQueueAssumption,
   IsFiniteSet, Queue!IsFiniteSet, QueueProofs!IsFiniteSet

LEMMA QueueTypes == QueueProofs!TypeOK <=> Queue!TypeOK
BY DEF QueueProofs!TypeOK, QueueProofs!Job, QueueProofs!JobState, QueueProofs!Waiting,
   QueueProofs!TERMINAL_STATES, Queue!TypeOK, Queue!Job

LEMMA QueueInvFacts == QueueProofs!IInv => QueueFacts
BY QueueTypes DEF QueueProofs!IInv, QueueProofs!PendingIsExact, QueueProofs!LeaseIsExact,
   QueueProofs!AbsentIsBlank, QueueProofs!Waiting, QueueFacts, Queue!TypeOK

LEMMA QueueInit == Queue!Init => QueueProofs!IInv
<1>1. Queue!Init => QueueProofs!Init
  BY DEF Queue!Init, Queue!Absent, Queue!Fresh,
     QueueProofs!Init, QueueProofs!Absent, QueueProofs!Fresh
<1>2. QueueProofs!Init => QueueProofs!IInv
  BY QueueAssumption, QueueProofs!InitIInv
<1> QED  BY <1>1, <1>2

\* A step of the pipeline takes the queue from one of its states to another.
LEMMA QueueInv == QueueProofs!IInv /\ QueueStep => QueueProofs!IInv'
<1> SUFFICES ASSUME QueueProofs!IInv, QueueStep
             PROVE  QueueProofs!IInv'
  OBVIOUS
<1>0. QueueProofs!IInv /\ [QueueProofs!Next]_(QueueProofs!vars) => QueueProofs!IInv'
  BY QueueAssumption, QueueProofs!NextIInv, Zenon
<1>1. CASE \E s \in Submissions : Queue!Enqueue(s, s)
  <2>1. PICK s \in Submissions : Queue!Enqueue(s, s)
    BY <1>1
  <2>2. QueueProofs!Enqueue(s, s)
    BY <2>1 DEF Queue!Enqueue, Queue!Fresh, QueueProofs!Enqueue, QueueProofs!Fresh
  <2> QED  BY <1>0, <2>2 DEF QueueProofs!Next
<1>2. CASE \E w \in WorkerIds : Queue!Claim(w)
  <2>1. PICK w \in WorkerIds : Queue!Claim(w)
    BY <1>2
  <2>2. QueueProofs!Claim(w)
    BY <2>1, Zenon DEF Queue!Claim, Queue!Claimable, Queue!Leased, Queue!RotatePast,
       QueueProofs!Claim, QueueProofs!Claimable, QueueProofs!Leased, QueueProofs!RotatePast
  <2> QED  BY <1>0, <2>2 DEF QueueProofs!Next
<1>3. CASE \E s \in Submissions, w \in WorkerIds : Queue!Ack(s, w)
  <2>1. PICK s \in Submissions, w \in WorkerIds : Queue!Ack(s, w)
    BY <1>3
  <2>2. QueueProofs!Ack(s, w)
    BY <2>1 DEF Queue!Ack, Queue!HoldsLease, Queue!Released,
       QueueProofs!Ack, QueueProofs!HoldsLease, QueueProofs!Released
  <2> QED  BY <1>0, <2>2 DEF QueueProofs!Next
<1>4. CASE \E s \in Submissions, w \in WorkerIds, r \in BOOLEAN, d \in 0 .. MaxDelay :
              Queue!Fail(s, w, r, d)
  <2>1. PICK s \in Submissions, w \in WorkerIds, r \in BOOLEAN, d \in 0 .. MaxDelay :
               Queue!Fail(s, w, r, d)
    BY <1>4
  <2>2. QueueProofs!Fail(s, w, r, d)
    BY <2>1 DEF Queue!Fail, Queue!HoldsLease, Queue!Released,
       QueueProofs!Fail, QueueProofs!HoldsLease, QueueProofs!Released
  <2> QED  BY <1>0, <2>2 DEF QueueProofs!Next
<1>5. CASE Queue!RecoverStale
  <2>1. Queue!Requeued = QueueProofs!Requeued
    BY DEF Queue!Requeued, Queue!Stale, QueueProofs!Requeued, QueueProofs!Stale
  <2>2. \A S : Queue!SetToSeqs(S) = QueueProofs!SetToSeqs(S)
    BY Zenon DEF Queue!SetToSeqs, QueueProofs!SetToSeqs,
       Queue!Cardinality, QueueProofs!Cardinality
  <2>3. \A job : /\ Queue!Stale(job) <=> QueueProofs!Stale(job)
                /\ Queue!Recovered(job) = QueueProofs!Recovered(job)
    BY DEF Queue!Stale, Queue!Recovered, Queue!Released,
       QueueProofs!Stale, QueueProofs!Recovered, QueueProofs!Released
  <2>4. QueueProofs!RecoverStale
    BY <1>5, <2>1, <2>2, <2>3 DEF Queue!RecoverStale, QueueProofs!RecoverStale
  <2> QED  BY <1>0, <2>4 DEF QueueProofs!Next
<1>6. CASE Queue!Tick
  <2>1. QueueProofs!Tick
    BY <1>6 DEF Queue!Tick, Queue!Older, QueueProofs!Tick, QueueProofs!Older
  <2> QED  BY <1>0, <2>1 DEF QueueProofs!Next
<1>7. CASE UNCHANGED queueVars
  BY <1>0, <1>7 DEF queueVars, QueueProofs!vars
<1> QED  BY <1>1, <1>2, <1>3, <1>4, <1>5, <1>6, <1>7 DEF QueueStep

-------------------------------------------------------------------------------
(* What a step of the queue does to its jobs.                               *)

\* A job is as far as the parts below look at it: state, attempts, holder.
SameFor(s) ==
    /\ jobs'[s].state = jobs[s].state
    /\ jobs'[s].attempt_count = jobs[s].attempt_count
    /\ jobs'[s].leased_by = jobs[s].leased_by

\* s leaves its worker, or is new, and its attempts stay.
Unleased(s) ==
    /\ jobs'[s].attempt_count = jobs[s].attempt_count
    /\ jobs'[s].leased_by = NoWorker
    /\ jobs'[s].state # "RUNNING"

LEMMA EnqueueEffect ==
    ASSUME QueueFacts, NEW s \in Submissions, Queue!Enqueue(s, s)
    PROVE  /\ \A q \in Submissions \ {s} : jobs'[q] = jobs[q]
           /\ Unleased(s)
           /\ jobs[s].state = "ABSENT" /\ jobs'[s].state = "PENDING"
BY DEF QueueFacts, Queue!Enqueue, Queue!Fresh, Unleased

LEMMA ClaimEffect ==
    ASSUME QueueFacts, NEW w \in WorkerIds, Queue!Claim(w)
    PROVE  \E s \in Submissions :
              /\ \A q \in Submissions \ {s} : jobs'[q] = jobs[q]
              /\ jobs[s].state \in Queue!Waiting
              /\ jobs'[s].state = "RUNNING" /\ jobs'[s].leased_by = w
              /\ jobs'[s].lease = LeaseSeconds
              /\ jobs'[s].attempt_count = jobs[s].attempt_count + 1
<1>1. PICK i \in DOMAIN pending :
        /\ Queue!Claimable(jobs[pending[i]])
        /\ jobs' = [jobs EXCEPT ![pending[i]] = Queue!Leased(@, w)]
  BY DEF Queue!Claim
<1>2. PICK s \in Submissions : s = pending[i]
  BY <1>1, ElementOfSeq, LenProperties DEF QueueFacts
<1>3. jobs[s].state \in Queue!Waiting
  BY <1>1, <1>2 DEF Queue!Claimable
<1>4. \A q \in Submissions \ {s} : jobs'[q] = jobs[q]
  BY <1>1, <1>2 DEF QueueFacts
<1>5. /\ jobs'[s].state = "RUNNING" /\ jobs'[s].leased_by = w
      /\ jobs'[s].lease = LeaseSeconds
      /\ jobs'[s].attempt_count = jobs[s].attempt_count + 1
  BY <1>1, <1>2 DEF QueueFacts, Queue!Leased, Queue!Job
<1> QED  BY <1>3, <1>4, <1>5

LEMMA AckEffect ==
    ASSUME QueueFacts, NEW s \in Submissions, NEW w \in WorkerIds, Queue!Ack(s, w)
    PROVE  /\ \A q \in Submissions \ {s} : jobs'[q] = jobs[q]
           /\ Unleased(s)
           /\ jobs[s].state = "RUNNING" /\ jobs'[s].state = "SUCCEEDED"
           /\ jobs[s].leased_by = w
BY DEF QueueFacts, Queue!Ack, Queue!HoldsLease, Queue!Released, Queue!Job, Unleased

LEMMA FailEffect ==
    ASSUME QueueFacts, NEW s \in Submissions, NEW w \in WorkerIds,
           NEW r \in BOOLEAN, NEW d \in 0 .. MaxDelay, Queue!Fail(s, w, r, d)
    PROVE  /\ \A q \in Submissions \ {s} : jobs'[q] = jobs[q]
           /\ Unleased(s)
           /\ jobs[s].state = "RUNNING" /\ jobs'[s].state \in {"RETRYABLE", "FAILED"}
           /\ jobs[s].leased_by = w
<1>1. /\ jobs[s] \in Queue!Job
      /\ jobs[s].state = "RUNNING" /\ jobs[s].leased_by = w
  BY DEF QueueFacts, Queue!Fail, Queue!HoldsLease
<1>2. PICK t \in {"RETRYABLE", "FAILED"}, e \in {d, NoTime} :
         jobs' = [jobs EXCEPT ![s] = Queue!Released(@, t, e)]
  BY Zenon DEF Queue!Fail
<1>3. jobs'[s] = Queue!Released(jobs[s], t, e)
  BY <1>2 DEF QueueFacts
<1>4. \A q \in Submissions \ {s} : jobs'[q] = jobs[q]
  BY <1>2 DEF QueueFacts
<1> QED  BY <1>1, <1>3, <1>4 DEF Queue!Released, Queue!Job, Unleased

LEMMA RecoverEffect ==
    ASSUME QueueFacts, Queue!RecoverStale
    PROVE  \A s \in Submissions :
              \/ jobs'[s] = jobs[s]
              \/ /\ jobs[s].state = "RUNNING" /\ Unleased(s)
                 /\ jobs'[s].state \in {"PENDING", "FAILED"}
<1> SUFFICES ASSUME NEW s \in Submissions, Queue!Stale(jobs[s])
             PROVE  /\ jobs[s].state = "RUNNING" /\ Unleased(s)
                    /\ jobs'[s].state \in {"PENDING", "FAILED"}
  BY DEF Queue!RecoverStale
<1>1. jobs'[s] = Queue!Recovered(jobs[s]) /\ jobs[s] \in Queue!Job
  BY DEF Queue!RecoverStale, QueueFacts
<1>2. jobs[s].state = "RUNNING"
  BY DEF Queue!Stale
<1> QED  BY <1>1, <1>2 DEF Queue!Recovered, Queue!Released, Queue!Job, Unleased

LEMMA TickEffect ==
    ASSUME QueueFacts, Queue!Tick
    PROVE  \A s \in Submissions : SameFor(s)
<1> SUFFICES ASSUME NEW s \in Submissions PROVE SameFor(s)
  OBVIOUS
<1>1. jobs'[s] = Queue!Older(jobs[s]) /\ jobs[s] \in Queue!Job
  BY DEF Queue!Tick, QueueFacts
<1> QED  BY <1>1 DEF Queue!Older, Queue!Job, SameFor

-------------------------------------------------------------------------------
(* The inductive invariant.  What the rows and the outputs promise rests on *)
(* what each process may rely on in the middle of a run.                    *)

\* What a run has persisted when it is at a position of the plan.
Produced(step) == {o \in Outputs : \E i \in 1 .. step - 1 : Plan[i] = o}

\* A row of s, stored or in the hands of a process, promises only what is there.
Grounded(row, s) ==
    /\ Owed(row.stage) \subseteq outputs[s]
    /\ Owed(row.last_completed_stage) \subseteq outputs[s]

\* An activity of process p: it works on a submission that has a row, has
\* persisted what precedes its step, and holds a row that promises no more
\* than there is.  Only workers hold jobs.
ActivityOK(p, a) ==
    /\ a \in Activity
    /\ a.doing = "idle" => a = Idle
    /\ a.doing # "idle" => a.sub \in Submissions /\ rows[a.sub] # NoRecord
    /\ a.doing = "running" => Produced(a.step) \subseteq outputs[a.sub]
    /\ a.doing \in {"submitting", "reporting"} => a.seen = NoRecord
    /\ a.seen # NoRecord => Grounded(a.seen, a.sub)
    /\ a.attempt > 0 => p \in WorkerProcs

ThreadsOK ==
    /\ proc = [p \in Processes |-> proc[p]]
    /\ \A p \in Processes : ActivityOK(p, proc[p])

\* Whoever has a job or is about to get one has a row.
JobsHaveRows ==
    \A s \in Submissions : jobs[s].state # "ABSENT" => rows[s] # NoRecord

\* The runs of s that may still record a failure, and the runs s ever had.
Open(s) == {p \in Processes : proc[p].sub = s /\ proc[p].doing \in {"running", "failing"}}
Runs(s) == jobs[s].attempt_count
           + (IF s \in Direct /\ rows[s] # NoRecord THEN 1 ELSE 0)

\* n failures are recorded, and each open run may add one.
Room(n, s) == n + Cardinality(Open(s)) <= Runs(s)

CountsOK ==
    \A s \in Submissions :
        /\ IsFiniteSet(Open(s))
        /\ Room(0, s)
        /\ rows[s] # NoRecord => Room(rows[s].attempt_count, s)
        /\ \A p \in Processes :
              proc[p].sub = s /\ proc[p].seen # NoRecord =>
                 Room(proc[p].seen.attempt_count, s)

IInv ==
    /\ QueueProofs!IInv
    /\ rows \in [Submissions -> Row \cup {NoRecord}]
    /\ outputs \in [Submissions -> SUBSET Outputs]
    /\ ThreadsOK
    /\ JobsHaveRows
    /\ DoneMeansPersisted
    /\ CountsOK

\* No two processes claim under one id.
OwnIds == \A p, q \in WorkerProcs : WorkerId[p] = WorkerId[q] => p = q

\* The run that works in the name of a job's holder is the run it was last
\* claimed for.
HolderIsLatest ==
    \A p \in WorkerProcs, s \in Submissions :
        proc[p].sub = s /\ proc[p].attempt > 0 /\ jobs[s].leased_by = WorkerId[p] =>
            proc[p].attempt = jobs[s].attempt_count

-------------------------------------------------------------------------------
(* What the stages owe and what the plan produces.                          *)

LEMMA PlanShape ==
    /\ Len(Plan) = 13
    /\ Plan[1] = "NORMALIZED" /\ Plan[2] = "evidence"
    /\ Plan[3] = "VERIFICATION_PENDING" /\ Plan[4] = "results" /\ Plan[5] = "VERIFIED"
    /\ Plan[6] = "AI_ANALYSIS_PENDING" /\ Plan[7] = "findings" /\ Plan[8] = "AI_ANALYZED"
    /\ Plan[9] = "EXPLANATION_PENDING" /\ Plan[10] = "snapshot"
    /\ Plan[11] = "explanations" /\ Plan[12] = "EXPLANATION_READY"
    /\ Plan[13] = "COMPLETE"
BY DEF Plan

LEMMA LinearShape ==
    /\ DOMAIN LINEAR_STAGES = 1 .. 9 /\ Len(LINEAR_STAGES) = 9
    /\ LINEAR_STAGES[1] = "INGESTED" /\ LINEAR_STAGES[2] = "NORMALIZED"
    /\ LINEAR_STAGES[3] = "VERIFICATION_PENDING" /\ LINEAR_STAGES[4] = "VERIFIED"
    /\ LINEAR_STAGES[5] = "AI_ANALYSIS_PENDING" /\ LINEAR_STAGES[6] = "AI_ANALYZED"
    /\ LINEAR_STAGES[7] = "EXPLANATION_PENDING" /\ LINEAR_STAGES[8] = "EXPLANATION_READY"
    /\ LINEAR_STAGES[9] = "COMPLETE"
BY DEF LINEAR_STAGES

LEMMA LinearStages ==
    Linear = {"INGESTED", "NORMALIZED", "VERIFICATION_PENDING", "VERIFIED",
              "AI_ANALYSIS_PENDING", "AI_ANALYZED", "EXPLANATION_PENDING",
              "EXPLANATION_READY", "COMPLETE"}
<1>1. \A i \in 1 .. 9 : i = 1 \/ i = 2 \/ i = 3 \/ i = 4 \/ i = 5 \/ i = 6
                        \/ i = 7 \/ i = 8 \/ i = 9
  OBVIOUS
<1> QED  BY <1>1, LinearShape DEF Linear

\* A submission that is new, that failed or that never completed a stage owes
\* nothing.
LEMMA NothingOwed ==
    Owed("INGESTED") = {} /\ Owed("FAILED") = {} /\ Owed(NoRecord) = {}
<1>1. ASSUME NEW stage, NEW h \in 1 .. 9, NEW i \in 1 .. 9,
             LINEAR_STAGES[i] = stage, h <= i,
             LINEAR_STAGES[h] \in {"VERIFICATION_PENDING", "VERIFIED", "AI_ANALYZED",
                                   "EXPLANATION_READY"}
      PROVE  stage \in Linear /\ stage # "INGESTED"
  <2>1. h # 1
    BY <1>1, LinearShape
  <2>2. i \in 2 .. 9
    BY <1>1, <2>1
  <2>3. LINEAR_STAGES[i] # "INGESTED"
    <3>1. i = 2 \/ i = 3 \/ i = 4 \/ i = 5 \/ i = 6 \/ i = 7 \/ i = 8 \/ i = 9
      BY <2>2
    <3> QED  BY <3>1, LinearShape
  <2> QED  BY <1>1, <2>3, LinearShape DEF Linear
<1>2. "FAILED" \notin Linear /\ NoRecord \notin Linear
  BY LinearStages, SubmissionAssumption DEF ProcessingStage
<1> QED  BY <1>1, <1>2, LinearShape DEF Owed

\* What must come before position i of the plan.
LEMMA OwedIsProduced ==
    ASSUME NEW k \in 1 .. 13, Plan[k] \in ProcessingStage
    PROVE  Owed(Plan[k]) \subseteq Produced(k)
<1>0. \/ k = 1 \/ k = 2 \/ k = 3 \/ k = 4 \/ k = 5 \/ k = 6 \/ k = 7
      \/ k = 8 \/ k = 9 \/ k = 10 \/ k = 11 \/ k = 12 \/ k = 13
  OBVIOUS
<1>1. \A h, i \in 1 .. 9 : LINEAR_STAGES[h] = LINEAR_STAGES[i] => h = i
  <2>1. \A i \in 1 .. 9 : i = 1 \/ i = 2 \/ i = 3 \/ i = 4 \/ i = 5 \/ i = 6
                          \/ i = 7 \/ i = 8 \/ i = 9
    OBVIOUS
  <2> QED  BY <2>1, LinearShape
\* The stages of the plan and their places in the order of the stages.
<1>2. ASSUME NEW i \in 1 .. 9, LINEAR_STAGES[i] = Plan[k]
      PROVE  /\ 3 <= i => 3 <= k
             /\ 4 <= i => 5 <= k
             /\ 6 <= i => 8 <= k
             /\ 8 <= i => 12 <= k
  <2>1. CASE k \in {1, 3, 5, 6}
    <3>1. /\ k = 1 => i = 2
          /\ k = 3 => i = 3
          /\ k = 5 => i = 4
          /\ k = 6 => i = 5
      BY <1>1, <1>2, LinearShape, PlanShape
    <3> QED  BY <2>1, <3>1
  <2>2. CASE k \in {8, 9, 12, 13}
    <3>1. /\ k = 8 => i = 6
          /\ k = 9 => i = 7
          /\ k = 12 => i = 8
          /\ k = 13 => i = 9
      BY <1>1, <1>2, LinearShape, PlanShape
    <3> QED  BY <2>2, <3>1
  <2>3. CASE k \in {2, 4, 7, 10, 11}
    BY <2>3, LinearStages, PlanShape DEF ProcessingStage
  <2> QED  BY <1>0, <2>1, <2>2, <2>3
<1>3. ASSUME NEW o \in Owed(Plan[k])
      PROVE  /\ o \in Outputs
             /\ \/ o = "evidence" /\ 3 <= k
                \/ o = "results" /\ 5 <= k
                \/ o = "findings" /\ 8 <= k
                \/ o \in {"snapshot", "explanations"} /\ 12 <= k
  <2>1. o \in Outputs
    BY <1>3 DEF Owed
  <2>2. PICK h \in 1 .. 9, i \in 1 .. 9 :
          /\ LINEAR_STAGES[i] = Plan[k] /\ h <= i
          /\ \/ o = "evidence" /\ LINEAR_STAGES[h] = LINEAR_STAGES[3]
             \/ o = "results" /\ LINEAR_STAGES[h] = LINEAR_STAGES[4]
             \/ o = "findings" /\ LINEAR_STAGES[h] = LINEAR_STAGES[6]
             \/ o \in {"snapshot", "explanations"} /\ LINEAR_STAGES[h] = LINEAR_STAGES[8]
    BY <1>3, LinearShape DEF Owed
  <2>3. \/ o = "evidence" /\ h = 3
        \/ o = "results" /\ h = 4
        \/ o = "findings" /\ h = 6
        \/ o \in {"snapshot", "explanations"} /\ h = 8
    BY <1>1, <2>2
  <2> QED  BY <1>2, <2>1, <2>2, <2>3
<1>4. \A o \in Owed(Plan[k]) : o \in Outputs /\ \E i \in 1 .. k - 1 : Plan[i] = o
  BY <1>3, PlanShape
<1> QED  BY <1>4 DEF Produced

\* Whoever is through the plan has persisted everything.
LEMMA AllIsProduced == Produced(Len(Plan) + 1) = Outputs
BY PlanShape DEF Produced, Outputs

LEMMA RowsShape ==
    /\ Row \subseteq [stage : ProcessingStage, last_completed_stage : Linear \cup {NoRecord},
                      attempt_count : Nat]
    /\ NoRecord \notin Row
    /\ Ingested \in Row
BY LinearStages, SubmissionAssumption DEF Row, Ingested, ProcessingStage

LEMMA IdleIsOK == \A p : ActivityOK(p, Idle) /\ ActivityOK(p, Idle)'
<1>1. Idle \in Activity
  BY PlanShape DEF Idle, Activity
<1> QED  BY <1>1 DEF ActivityOK, Idle

LEMMA IInvTypeOK == IInv /\ faults \subseteq FAULTS => TypeOK
<1> SUFFICES ASSUME IInv, faults \subseteq FAULTS PROVE TypeOK
  OBVIOUS
<1>1. Queue!TypeOK
  BY QueueTypes DEF IInv, QueueProofs!IInv
<1>2. proc \in [Processes -> Activity]
  BY DEF IInv, ThreadsOK, ActivityOK
<1> QED  BY <1>1, <1>2 DEF IInv, TypeOK

LEMMA InitIInv == Init => IInv
<1> SUFFICES ASSUME Init PROVE IInv
  OBVIOUS
<1>1. QueueProofs!IInv
  BY QueueInit DEF Init
<1>2. /\ rows \in [Submissions -> Row \cup {NoRecord}]
      /\ outputs \in [Submissions -> SUBSET Outputs]
  BY DEF Init
<1>3. ThreadsOK
  BY IdleIsOK DEF Init, ThreadsOK
<1>4. \A s \in Submissions : jobs[s].state = "ABSENT" /\ jobs[s].attempt_count = 0
  BY DEF Init, Queue!Init, Queue!Absent, Queue!Fresh
<1>5. JobsHaveRows /\ DoneMeansPersisted
  BY <1>4 DEF Init, JobsHaveRows, DoneMeansPersisted
<1>6. CountsOK
  <2> SUFFICES ASSUME NEW s \in Submissions
               PROVE  /\ IsFiniteSet(Open(s)) /\ Room(0, s)
                      /\ rows[s] = NoRecord
                      /\ \A p \in Processes : proc[p].seen = NoRecord
    BY DEF CountsOK
  <2>1. \A p \in Processes : proc[p] = Idle
    BY DEF Init
  <2>2. Open(s) = {}
    BY <2>1 DEF Open, Idle
  <2>3. Runs(s) = 0
    BY <1>4 DEF Init, Runs
  <2> QED  BY <2>1, <2>2, <2>3, FS_EmptySet DEF Init, Room, Idle
<1> QED  BY <1>1, <1>2, <1>3, <1>5, <1>6 DEF IInv

-------------------------------------------------------------------------------
(* What no step takes back, and why a process that does not move stays right. *)

Grows ==
    \A s \in Submissions :
        /\ outputs[s] \subseteq outputs'[s]
        /\ rows[s] # NoRecord => rows'[s] # NoRecord

LEMMA GroundedStays ==
    ASSUME NEW s \in Submissions, NEW row, Grows, Grounded(row, s)
    PROVE  Grounded(row, s)'
BY DEF Grounded, Grows

LEMMA ActivityStays ==
    ASSUME NEW p, NEW a, ActivityOK(p, a), Grows
    PROVE  ActivityOK(p, a)'
<1>1. a \in Activity /\ (a.seen # NoRecord => a.sub \in Submissions)
  BY DEF ActivityOK, Idle
<1>2. a.seen # NoRecord => Grounded(a.seen, a.sub)'
  BY <1>1 DEF ActivityOK, Grounded, Grows
<1>3. a.doing # "idle" => a.sub \in Submissions /\ rows'[a.sub] # NoRecord
  BY DEF ActivityOK, Grows
<1>4. a.doing = "running" => Produced(a.step) \subseteq outputs'[a.sub]
  <2> SUFFICES ASSUME a.doing = "running"
               PROVE  Produced(a.step) \subseteq outputs'[a.sub]
    OBVIOUS
  <2>1. a.sub \in Submissions /\ Produced(a.step) \subseteq outputs[a.sub]
    BY DEF ActivityOK
  <2> QED  BY <2>1 DEF Grows
<1> QED  BY <1>2, <1>3, <1>4 DEF ActivityOK, Grounded

LEMMA ThreadsStay ==
    ASSUME ThreadsOK, Grows, NEW p \in Processes, NEW a, ActivityOK(p, a)',
           Becomes(p, a)
    PROVE  ThreadsOK'
<1>1. proc' = [q \in Processes |-> proc'[q]]
  BY DEF ThreadsOK, Becomes
<1>2. ASSUME NEW q \in Processes PROVE ActivityOK(q, proc[q])'
  <2>1. CASE q = p
    <3>1. proc'[q] = a
      BY <2>1 DEF Becomes, ThreadsOK
    <3> QED  BY <2>1, <3>1 DEF ActivityOK, Grounded
  <2>2. CASE q # p
    <3>1. PICK b : b = proc[q]
      OBVIOUS
    <3>2. ActivityOK(q, b)
      BY <3>1 DEF ThreadsOK
    <3>3. ActivityOK(q, b)'
      BY <3>2, ActivityStays
    <3>4. proc'[q] = b
      BY <2>2, <3>1 DEF Becomes, ThreadsOK
    <3> QED  BY <3>3, <3>4 DEF ActivityOK, Grounded
  <2> QED  BY <2>1, <2>2
<1> QED  BY <1>1, <1>2 DEF ThreadsOK

LEMMA NobodyMoves ==
    ASSUME ThreadsOK, Grows, UNCHANGED proc
    PROVE  ThreadsOK'
<1> SUFFICES ASSUME NEW q \in Processes PROVE ActivityOK(q, proc[q])'
  BY DEF ThreadsOK
<1>1. PICK b : b = proc[q]
  OBVIOUS
<1>2. ActivityOK(q, b)'
  BY <1>1, ActivityStays DEF ThreadsOK
<1> QED  BY <1>1, <1>2 DEF ActivityOK, Grounded

-------------------------------------------------------------------------------
(* Counting the open runs.                                                  *)

IsOpen(a, s) == a.sub = s /\ a.doing \in {"running", "failing"}

\* There is at least as much room for failures of s after the step as before.
NotTighter(s) ==
    /\ IsFiniteSet(Open(s)')
    /\ Cardinality(Open(s)') + Runs(s) <= Cardinality(Open(s)) + Runs(s)'

LEMMA RunsType ==
    ASSUME QueueFacts, NEW s \in Submissions
    PROVE  Runs(s) \in Nat
BY DEF QueueFacts, Queue!Job, Runs

LEMMA RoomStays ==
    ASSUME QueueFacts, QueueFacts', CountsOK, NEW s \in Submissions, NotTighter(s),
           NEW n \in Nat, Room(n, s)
    PROVE  Room(n, s)'
<1>1. Runs(s) \in Nat /\ Runs(s)' \in Nat
  <2>1. Runs(s) \in Nat
    BY RunsType
  <2>2. Runs(s)' \in Nat
    BY DEF QueueFacts, Queue!Job, Runs
  <2> QED  BY <2>1, <2>2
<1>2. Cardinality(Open(s)) \in Nat /\ Cardinality(Open(s)') \in Nat
  BY FS_CardinalityType DEF CountsOK, NotTighter
<1>3. n + Cardinality(Open(s)) <= Runs(s)
  BY DEF Room
<1>4. n + Cardinality(Open(s)') <= Runs(s)'
  BY <1>1, <1>2, <1>3 DEF NotTighter
<1> QED  BY <1>4 DEF Room

\* The step of one process opens or closes at most its own run.
LEMMA OpenMoves ==
    ASSUME ThreadsOK, NEW p \in Processes, NEW a, Becomes(p, a), NEW s \in Submissions
    PROVE  /\ IsOpen(proc[p], s) <=> p \in Open(s)
           /\ IsOpen(a, s) => Open(s)' = Open(s) \cup {p}
           /\ ~IsOpen(a, s) => Open(s)' = Open(s) \ {p}
<1>1. \A q \in Processes : proc'[q] = IF q = p THEN a ELSE proc[q]
  BY DEF ThreadsOK, Becomes
<1> QED  BY <1>1 DEF Open, IsOpen

\* A step that opens no run leaves as much room; one that closes a run leaves
\* room for the failure it may have recorded.
LEMMA NoRunOpens ==
    ASSUME ThreadsOK, QueueFacts, CountsOK, NEW p \in Processes, NEW a, Becomes(p, a),
           NEW s \in Submissions,
           IsOpen(a, s) => IsOpen(proc[p], s),
           Runs(s)' \in Nat, Runs(s)' >= Runs(s)
    PROVE  /\ NotTighter(s)
           /\ IsOpen(proc[p], s) /\ ~IsOpen(a, s) =>
                 1 + Cardinality(Open(s)') = Cardinality(Open(s))
<1>1. IsFiniteSet(Open(s)) /\ Runs(s) \in Nat
  BY RunsType DEF CountsOK
<1>2. Cardinality(Open(s)) \in Nat
  BY <1>1, FS_CardinalityType
<1>3. CASE IsOpen(a, s)
  <2>1. Open(s)' = Open(s)
    BY <1>3, OpenMoves
  <2> QED  BY <1>1, <1>2, <1>3, <2>1 DEF NotTighter
<1>4. CASE ~IsOpen(a, s)
  <2>1. Open(s)' = Open(s) \ {p} /\ (IsOpen(proc[p], s) <=> p \in Open(s))
    BY <1>4, OpenMoves
  <2>2. /\ IsFiniteSet(Open(s) \ {p})
        /\ Cardinality(Open(s) \ {p}) =
              IF p \in Open(s) THEN Cardinality(Open(s)) - 1 ELSE Cardinality(Open(s))
    BY <1>1, FS_RemoveElement
  <2> QED  BY <1>1, <1>2, <2>1, <2>2 DEF NotTighter
<1> QED  BY <1>3, <1>4

\* A run that opens is counted in the runs of its submission.
LEMMA RunOpens ==
    ASSUME ThreadsOK, QueueFacts, CountsOK, NEW p \in Processes, NEW a, Becomes(p, a),
           NEW s \in Submissions, Runs(s)' = Runs(s) + 1
    PROVE  NotTighter(s)
<1>1. IsFiniteSet(Open(s)) /\ Runs(s) \in Nat
  BY RunsType DEF CountsOK
<1>2. Cardinality(Open(s)) \in Nat
  BY <1>1, FS_CardinalityType
<1>3. Open(s)' = Open(s) \cup {p} \/ Open(s)' = Open(s) \ {p}
  BY OpenMoves
<1>4. IsFiniteSet(Open(s)') /\ Cardinality(Open(s)') <= Cardinality(Open(s)) + 1
  BY <1>1, <1>2, <1>3, FS_AddElement, FS_RemoveElement
<1> QED  BY <1>1, <1>2, <1>4, FS_CardinalityType DEF NotTighter

-------------------------------------------------------------------------------
(* Every step of a process, in terms of what it does to the five parts.     *)

\* What a step may do to the row and the job of s.
KeepsPromises(s) ==
    /\ jobs'[s].state # "ABSENT" => jobs[s].state # "ABSENT" \/ rows'[s] # NoRecord
    /\ jobs'[s].state = "SUCCEEDED" =>
          jobs[s].state = "SUCCEEDED" \/ outputs'[s] = Outputs
    /\ \/ rows'[s] = rows[s]
       \/ Grounded(rows[s], s)' /\ Room(rows[s].attempt_count, s)'

LEMMA RowsStay ==
    ASSUME IInv, QueueStep, Grows,
           rows' \in [Submissions -> Row \cup {NoRecord}],
           outputs' \in [Submissions -> SUBSET Outputs],
           NEW s \in Submissions, NotTighter(s), KeepsPromises(s)
    PROVE  /\ jobs'[s].state # "ABSENT" => rows'[s] # NoRecord
           /\ rows'[s] # NoRecord =>
                 Grounded(rows[s], s)' /\ Room(rows[s].attempt_count, s)'
           /\ jobs'[s].state = "SUCCEEDED" => outputs'[s] = Outputs
           /\ IsFiniteSet(Open(s))' /\ Room(0, s)'
<1>1. QueueFacts /\ QueueFacts' /\ CountsOK
  <2>1. QueueProofs!IInv /\ QueueProofs!IInv'
    BY QueueInv DEF IInv
  <2>2. QueueProofs!IInv' => QueueFacts'
    BY QueueInvFacts, PTL
  <2> QED  BY <2>1, <2>2, QueueInvFacts DEF IInv
<1>2. jobs'[s].state # "ABSENT" => rows'[s] # NoRecord
  BY DEF KeepsPromises, IInv, JobsHaveRows, Grows
<1>3. ASSUME rows'[s] = rows[s], rows'[s] # NoRecord
      PROVE  Grounded(rows[s], s)' /\ Room(rows[s].attempt_count, s)'
  <2>1. PICK row \in Row : row = rows[s]
    BY <1>3 DEF IInv
  <2>2. row.attempt_count \in Nat
    BY <2>1 DEF Row
  <2>3. Grounded(row, s) /\ Room(row.attempt_count, s)
    BY <1>3, <2>1 DEF IInv, DoneMeansPersisted, CountsOK, Grounded
  <2>4. Grounded(row, s)' /\ Room(row.attempt_count, s)'
    BY <1>1, <2>2, <2>3, GroundedStays, RoomStays
  <2> QED  BY <1>3, <2>1, <2>4 DEF Grounded, Room
<1>4. jobs'[s].state = "SUCCEEDED" => outputs'[s] = Outputs
  BY DEF KeepsPromises, IInv, DoneMeansPersisted, Grows
<1>5. Room(0, s)'
  BY <1>1, RoomStays DEF CountsOK
<1> QED  BY <1>2, <1>3, <1>4, <1>5 DEF KeepsPromises, NotTighter

LEMMA StepKeeps ==
    ASSUME IInv, QueueStep, Grows,
           NEW p \in Processes, NEW a, Becomes(p, a), ActivityOK(p, a)',
           a.seen # NoRecord => Room(a.seen.attempt_count, a.sub)',
           rows' \in [Submissions -> Row \cup {NoRecord}],
           outputs' \in [Submissions -> SUBSET Outputs],
           \A s \in Submissions : NotTighter(s) /\ KeepsPromises(s)
    PROVE  IInv'
<1>1. QueueFacts /\ QueueFacts' /\ CountsOK /\ ThreadsOK /\ QueueProofs!IInv'
  <2>1. QueueProofs!IInv /\ QueueProofs!IInv'
    BY QueueInv DEF IInv
  <2>2. QueueProofs!IInv' => QueueFacts'
    BY QueueInvFacts, PTL
  <2> QED  BY <2>1, <2>2, QueueInvFacts DEF IInv
<1>2. ThreadsOK'
  BY <1>1, ThreadsStay
<1>3. JobsHaveRows'
  BY RowsStay DEF JobsHaveRows
<1>4. DoneMeansPersisted'
  BY RowsStay DEF DoneMeansPersisted, Grounded
<1>5. CountsOK'
  <2>1. ASSUME NEW s \in Submissions, NEW q \in Processes,
               proc'[q].sub = s, proc'[q].seen # NoRecord
        PROVE  Room(proc[q].seen.attempt_count, s)'
    <3>1. CASE q = p
      BY <1>1, <2>1, <3>1 DEF ThreadsOK, Becomes, Room
    <3>2. CASE q # p
      <4>1. PICK row : row = proc[q].seen
        OBVIOUS
      <4>2. proc'[q] = proc[q]
        BY <1>1, <3>2 DEF ThreadsOK, Becomes
      <4>3. row \in Row
        BY <1>1, <2>1, <4>1, <4>2 DEF ThreadsOK, ActivityOK, Activity
      <4>4. Room(row.attempt_count, s)
        BY <1>1, <2>1, <4>1, <4>2 DEF CountsOK
      <4>5. Room(row.attempt_count, s)'
        BY <1>1, <4>3, <4>4, RoomStays DEF Row
      <4> QED  BY <4>1, <4>2, <4>5 DEF Room
    <3> QED  BY <3>1, <3>2
  <2> QED  BY <2>1, RowsStay DEF CountsOK
<1> QED  BY <1>1, <1>2, <1>3, <1>4, <1>5 DEF IInv

\* The same when the queue and the rows are left alone.
LEMMA LocalStep ==
    ASSUME IInv, UNCHANGED <<queueVars, rows>>, Grows,
           NEW p \in Processes, NEW a, Becomes(p, a), ActivityOK(p, a)',
           outputs' \in [Submissions -> SUBSET Outputs],
           \A s \in Submissions : IsOpen(a, s) => IsOpen(proc[p], s),
           a.seen # NoRecord => a.seen \in Row /\ a.sub \in Submissions
                                /\ Room(a.seen.attempt_count, a.sub)
    PROVE  IInv'
<1>1. QueueStep /\ QueueFacts /\ CountsOK /\ ThreadsOK
  BY QueueInvFacts DEF QueueStep, IInv
<1>2. jobs' = jobs /\ rows' = rows
  BY DEF queueVars
<1>3. QueueFacts'
  BY <1>1 DEF queueVars, QueueFacts
<1>4. ASSUME NEW s \in Submissions PROVE NotTighter(s) /\ KeepsPromises(s)
  <2>1. Runs(s)' = Runs(s) /\ Runs(s) \in Nat
    BY <1>1, <1>2, RunsType DEF Runs
  <2>2. NotTighter(s)
    BY <1>1, <2>1, NoRunOpens
  <2> QED  BY <1>2, <2>2 DEF KeepsPromises
<1>5. a.seen # NoRecord => Room(a.seen.attempt_count, a.sub)'
  <2> SUFFICES ASSUME a.seen # NoRecord PROVE Room(a.seen.attempt_count, a.sub)'
    OBVIOUS
  <2>1. a.seen.attempt_count \in Nat /\ a.sub \in Submissions
    BY DEF Row
  <2> QED  BY <1>1, <1>3, <1>4, <2>1, RoomStays
<1>6. rows' \in [Submissions -> Row \cup {NoRecord}]
  BY <1>2 DEF IInv
<1> QED  BY <1>1, <1>4, <1>5, <1>6, StepKeeps

-------------------------------------------------------------------------------
(* The steps of a run.                                                      *)

LEMMA ProducedNext ==
    ASSUME NEW k \in 1 .. 13
    PROVE  /\ Plan[k] \in ProcessingStage => Produced(k + 1) = Produced(k)
           /\ Plan[k] \in Outputs => Produced(k + 1) = Produced(k) \cup {Plan[k]}
<1>1. 1 .. (k + 1) - 1 = (1 .. k - 1) \cup {k}
  OBVIOUS
<1>2. Outputs \cap ProcessingStage = {}
  BY LinearStages DEF Outputs, ProcessingStage
<1> QED  BY <1>1, <1>2 DEF Produced

\* What an activity in the middle of a run may rely on.
LEMMA BusyFacts ==
    ASSUME IInv, NEW p \in Processes, proc[p].doing # "idle"
    PROVE  /\ ActivityOK(p, proc[p]) /\ proc[p] \in Activity
           /\ proc[p].sub \in Submissions
           /\ rows[proc[p].sub] \in Row
           /\ Grounded(rows[proc[p].sub], proc[p].sub)
           /\ Room(rows[proc[p].sub].attempt_count, proc[p].sub)
           /\ proc[p].seen # NoRecord =>
                 /\ proc[p].seen \in Row
                 /\ Grounded(proc[p].seen, proc[p].sub)
                 /\ Room(proc[p].seen.attempt_count, proc[p].sub)
<1>1. ActivityOK(p, proc[p]) /\ proc[p] \in Activity
  BY DEF IInv, ThreadsOK, ActivityOK
<1>2. proc[p].sub \in Submissions /\ rows[proc[p].sub] # NoRecord
  BY <1>1 DEF ActivityOK
<1>3. rows[proc[p].sub] \in Row
  BY <1>2 DEF IInv
<1>4. /\ Grounded(rows[proc[p].sub], proc[p].sub)
      /\ Room(rows[proc[p].sub].attempt_count, proc[p].sub)
  BY <1>2 DEF IInv, DoneMeansPersisted, Grounded, CountsOK
<1>5. proc[p].seen # NoRecord =>
         /\ proc[p].seen \in Row
         /\ Grounded(proc[p].seen, proc[p].sub)
         /\ Room(proc[p].seen.attempt_count, proc[p].sub)
  BY <1>1, <1>2 DEF ActivityOK, Activity, IInv, CountsOK
<1> QED  BY <1>1, <1>2, <1>3, <1>4, <1>5

\* A step that only its own process sees.
LEMMA OwnStep ==
    ASSUME IInv, NEW p \in Processes, NEW a, Becomes(p, a),
           UNCHANGED <<queueVars, rows, outputs>>, ActivityOK(p, a),
           proc[p].doing # "idle",
           a = Idle \/ a.sub = proc[p].sub,
           a.doing \in {"running", "failing"} => proc[p].doing \in {"running", "failing"},
           a.seen \in {proc[p].seen, rows[proc[p].sub], NoRecord}
    PROVE  IInv'
<1>1. Grows
  BY DEF Grows
<1>2. ActivityOK(p, a)'
  BY <1>1, ActivityStays
<1>3. outputs' \in [Submissions -> SUBSET Outputs]
  BY DEF IInv
<1>4. \A s \in Submissions : IsOpen(a, s) => IsOpen(proc[p], s)
  BY DEF IsOpen, Idle
<1>5. a.seen # NoRecord => a.seen \in Row /\ a.sub \in Submissions
                           /\ Room(a.seen.attempt_count, a.sub)
  BY BusyFacts DEF Idle
<1>6. UNCHANGED <<queueVars, rows>>
  OBVIOUS
<1> QED  BY <1>1, <1>2, <1>3, <1>4, <1>5, <1>6, LocalStep

LEMMA FailingOK ==
    ASSUME IInv, NEW p \in Processes, proc[p].doing = "running",
           NEW kind \in {"retryable", "permanent"}
    PROVE  ActivityOK(p, Failing(p, kind))
<1>1. ActivityOK(p, proc[p]) /\ proc[p] \in Activity
  BY BusyFacts
<1> QED  BY <1>1 DEF ActivityOK, Activity, Failing

LEMMA ReadStageIInv ==
    ASSUME IInv, NEW p \in Processes, ReadStage(p)
    PROVE  IInv'
<1>1. /\ proc[p].doing = "running"
      /\ ActivityOK(p, proc[p]) /\ proc[p] \in Activity
      /\ proc[p].sub \in Submissions /\ rows[proc[p].sub] \in Row
      /\ Grounded(rows[proc[p].sub], proc[p].sub)
  BY BusyFacts DEF ReadStage, At, Running
<1>2. CASE Becomes(p, [proc[p] EXCEPT !.seen = rows[proc[p].sub]])
  <2> DEFINE a == [proc[p] EXCEPT !.seen = rows[proc[p].sub]]
  <2>1. ActivityOK(p, a)
    BY <1>1 DEF ActivityOK, Activity
  <2>2. /\ a.sub = proc[p].sub /\ a.seen = rows[proc[p].sub]
        /\ a.doing = proc[p].doing
    BY <1>1 DEF Activity
  <2>3. UNCHANGED <<queueVars, rows, outputs>>
    BY DEF ReadStage
  <2> HIDE DEF a
  <2> QED  BY <1>1, <1>2, <2>1, <2>2, <2>3, OwnStep DEF a
<1>3. CASE Becomes(p, Failing(p, "permanent"))
  <2>1. ActivityOK(p, Failing(p, "permanent"))
    BY <1>1, FailingOK
  <2>2. /\ Failing(p, "permanent").sub = proc[p].sub
        /\ Failing(p, "permanent").seen = NoRecord
        /\ Failing(p, "permanent").doing = "failing"
    BY <1>1 DEF Activity, Failing
  <2>3. UNCHANGED <<queueVars, rows, outputs>>
    BY DEF ReadStage
  <2> QED  BY <1>1, <1>3, <2>1, <2>2, <2>3, OwnStep
<1> QED  BY <1>2, <1>3 DEF ReadStage

LEMMA RaiseIInv ==
    ASSUME IInv, NEW p \in Processes, NEW kind \in Failures, Raise(p, kind)
    PROVE  IInv'
<1>1. /\ proc[p].doing = "running" /\ proc[p] \in Activity
      /\ kind \in {"retryable", "permanent"}
  BY BusyFacts, SubmissionAssumption DEF Raise, At, Running
<1>2. ActivityOK(p, Failing(p, kind))
  BY <1>1, FailingOK
<1>3. /\ Failing(p, kind).sub = proc[p].sub
      /\ Failing(p, kind).seen = NoRecord
      /\ Failing(p, kind).doing = "failing"
  BY <1>1 DEF Activity, Failing
<1>4. UNCHANGED <<queueVars, rows, outputs>> /\ Becomes(p, Failing(p, kind))
  BY DEF Raise
<1> QED  BY <1>1, <1>2, <1>3, <1>4, OwnStep

LEMMA ReadFailedIInv ==
    ASSUME IInv, NEW p \in Processes, ReadFailed(p)
    PROVE  IInv'
<1> DEFINE a == [proc[p] EXCEPT !.seen = rows[proc[p].sub]]
<1>1. /\ proc[p].doing = "failing"
      /\ ActivityOK(p, proc[p]) /\ proc[p] \in Activity
      /\ proc[p].sub \in Submissions /\ rows[proc[p].sub] \in Row
      /\ Grounded(rows[proc[p].sub], proc[p].sub)
  BY BusyFacts DEF ReadFailed
<1>2. ActivityOK(p, a)
  BY <1>1 DEF ActivityOK, Activity
<1>3. /\ a.sub = proc[p].sub /\ a.seen = rows[proc[p].sub]
      /\ a.doing = proc[p].doing
  BY <1>1 DEF Activity
<1>4. UNCHANGED <<queueVars, rows, outputs>> /\ Becomes(p, a)
  BY DEF ReadFailed
<1> HIDE DEF a
<1> QED  BY <1>1, <1>2, <1>3, <1>4, OwnStep

LEMMA SwallowFailureIInv ==
    ASSUME IInv, NEW p \in Processes, SwallowFailure(p)
    PROVE  IInv'
<1> DEFINE a == [proc[p] EXCEPT !.doing = "reporting", !.seen = NoRecord]
<1>1. /\ proc[p].doing = "failing"
      /\ ActivityOK(p, proc[p]) /\ proc[p] \in Activity
  BY BusyFacts DEF SwallowFailure
<1>2. ActivityOK(p, a)
  BY <1>1 DEF ActivityOK, Activity
<1>3. a.sub = proc[p].sub /\ a.seen = NoRecord /\ a.doing = "reporting"
  BY <1>1 DEF Activity
<1>4. UNCHANGED <<queueVars, rows, outputs>> /\ Becomes(p, a)
  BY DEF SwallowFailure
<1> HIDE DEF a
<1> QED  BY <1>1, <1>2, <1>3, <1>4, OwnStep

LEMMA CrashIInv ==
    ASSUME IInv, NEW p \in Processes, Crash(p)
    PROVE  IInv'
<1>1. proc[p].doing # "idle"
  BY DEF Crash, IInv, ThreadsOK, ActivityOK
<1>2. UNCHANGED <<queueVars, rows, outputs>> /\ Becomes(p, Idle)
  BY DEF Crash
<1>3. ActivityOK(p, Idle) /\ Idle.seen = NoRecord /\ Idle.doing = "idle"
  BY IdleIsOK DEF Idle
<1> QED  BY <1>1, <1>2, <1>3, OwnStep

LEMMA PersistIInv ==
    ASSUME IInv, NEW p \in Processes, Persist(p)
    PROVE  IInv'
<1>1. /\ proc[p].doing = "running" /\ proc[p].step \in 1 .. 13
      /\ Plan[proc[p].step] \in Outputs
      /\ ActivityOK(p, proc[p]) /\ proc[p] \in Activity
      /\ proc[p].sub \in Submissions /\ rows[proc[p].sub] # NoRecord
      /\ Produced(proc[p].step) \subseteq outputs[proc[p].sub]
  BY BusyFacts, PlanShape, RowsShape DEF Persist, At, Running, Activity, ActivityOK
<1>2. PICK s \in Submissions, k \in 1 .. 13 :
        s = proc[p].sub /\ k = proc[p].step
  BY <1>1
<1>2a. PICK a : a = [proc[p] EXCEPT !.step = @ + 1]
  OBVIOUS
<1>3. /\ outputs' = [outputs EXCEPT ![s] = @ \cup {Plan[k]}]
      /\ Becomes(p, a) /\ UNCHANGED <<queueVars, rows>>
  BY <1>2, <1>2a DEF Persist
<1>4. outputs' \in [Submissions -> SUBSET Outputs]
  BY <1>1, <1>2, <1>2a, <1>3 DEF IInv
<1>5. Grows /\ outputs'[s] = outputs[s] \cup {Plan[k]}
  BY <1>1, <1>2, <1>2a, <1>3 DEF Grows, IInv
<1>6. Produced(k + 1) \subseteq outputs'[s]
  BY <1>1, <1>2, <1>2a, <1>5, ProducedNext
<1>7. /\ a.doing = "running" /\ a.sub = s /\ a.step = k + 1
      /\ a.seen = proc[p].seen /\ a.attempt = proc[p].attempt /\ a \in Activity
  BY <1>1, <1>2, <1>2a, PlanShape DEF Activity
<1>8. a.seen # NoRecord => Grounded(a.seen, s) /\ Grounded(a.seen, s)'
  BY <1>1, <1>2, <1>2a, <1>5, <1>7, GroundedStays DEF ActivityOK
<1>9. ActivityOK(p, a)'
  BY <1>1, <1>2, <1>2a, <1>3, <1>6, <1>7, <1>8 DEF ActivityOK, Grounded
<1>10. \A t \in Submissions : IsOpen(a, t) => IsOpen(proc[p], t)
  BY <1>1, <1>2, <1>2a, <1>7 DEF IsOpen
<1>11. a.seen # NoRecord => a.seen \in Row /\ Room(a.seen.attempt_count, a.sub)
  BY <1>1, <1>2, <1>2a, <1>7, BusyFacts
<1> QED  BY <1>3, <1>4, <1>5, <1>7, <1>9, <1>10, <1>11, LocalStep

-------------------------------------------------------------------------------
(* The steps that write a row.                                              *)

\* A row of s is written by p, who goes on with a; the queue is left alone.
LEMMA RowStep ==
    ASSUME IInv, UNCHANGED <<queueVars, outputs>>,
           NEW p \in Processes, NEW a, Becomes(p, a), ActivityOK(p, a)',
           NEW s \in Submissions, NEW row \in Row, rows' = [rows EXCEPT ![s] = row],
           Grounded(row, s), a.seen = NoRecord,
           \A t \in Submissions : NotTighter(t),
           Room(row.attempt_count, s)'
    PROVE  IInv'
<1>1. QueueStep
  BY DEF QueueStep
<1>2. /\ rows' \in [Submissions -> Row \cup {NoRecord}]
      /\ outputs' \in [Submissions -> SUBSET Outputs]
      /\ rows'[s] = row /\ \A t \in Submissions \ {s} : rows'[t] = rows[t]
  BY DEF IInv
<1>3. Grows
  BY <1>2, RowsShape DEF Grows
<1>4. Grounded(row, s)'
  BY <1>3, GroundedStays
<1>5. ASSUME NEW t \in Submissions PROVE KeepsPromises(t)
  <2>1. jobs' = jobs
    BY DEF queueVars
  <2>2. \/ rows'[t] = rows[t]
        \/ Grounded(rows[t], t)' /\ Room(rows[t].attempt_count, t)'
    BY <1>2, <1>4 DEF Grounded, Room
  <2> QED  BY <2>1, <2>2 DEF KeepsPromises
<1>6. QueueStep /\ IInv /\ Grows
  BY <1>1, <1>3
<1> QED  BY <1>2, <1>5, <1>6, StepKeeps

LEMMA AdvancedOK ==
    ASSUME IInv, NEW s \in Submissions, NEW row \in Row, Grounded(row, s),
           NEW k \in 1 .. 13, Plan[k] \in ProcessingStage, Produced(k) \subseteq outputs[s]
    PROVE  /\ Advanced(row, Plan[k]) \in Row
           /\ Advanced(row, Plan[k]).attempt_count = row.attempt_count
           /\ Grounded(Advanced(row, Plan[k]), s)
<1>1. Plan[k] \in COMPLETABLE_STAGES => Plan[k] \in Linear
  BY LinearStages DEF COMPLETABLE_STAGES
<1>2. Owed(Plan[k]) \subseteq outputs[s]
  BY OwedIsProduced
<1>3. /\ Advanced(row, Plan[k]) \in Row
      /\ Advanced(row, Plan[k]).attempt_count = row.attempt_count
      /\ Advanced(row, Plan[k]).stage = Plan[k]
      /\ Advanced(row, Plan[k]).last_completed_stage \in {Plan[k], row.last_completed_stage}
  BY <1>1 DEF Advanced, Row
<1> QED  BY <1>2, <1>3 DEF Grounded

LEMMA NextStepOK ==
    ASSUME NEW b \in Activity, b.step \in 1 .. 13
    PROVE  LET a == [b EXCEPT !.seen = NoRecord, !.step = @ + 1]
           IN  /\ a.doing = b.doing /\ a.sub = b.sub /\ a.step = b.step + 1
               /\ a.seen = NoRecord /\ a.attempt = b.attempt /\ a \in Activity
<1>1. b.step + 1 \in 1 .. Len(Plan) + 1
  BY PlanShape
<1> QED  BY <1>1 DEF Activity

LEMMA WriteStageIInv ==
    ASSUME IInv, NEW p \in Processes, WriteStage(p)
    PROVE  IInv'
<1>1. /\ proc[p].doing = "running" /\ proc[p].step \in 1 .. 13
      /\ Plan[proc[p].step] \in ProcessingStage
      /\ ActivityOK(p, proc[p]) /\ proc[p] \in Activity
      /\ proc[p].sub \in Submissions /\ rows[proc[p].sub] # NoRecord
      /\ Produced(proc[p].step) \subseteq outputs[proc[p].sub]
      /\ proc[p].seen \in Row /\ Grounded(proc[p].seen, proc[p].sub)
      /\ Room(proc[p].seen.attempt_count, proc[p].sub)
  BY BusyFacts, PlanShape, RowsShape DEF WriteStage, At, Running, Activity, ActivityOK
<1>2. PICK s \in Submissions, k \in 1 .. 13, row \in Row :
        /\ s = proc[p].sub /\ k = proc[p].step
        /\ row = Advanced(proc[p].seen, Plan[k])
  BY <1>1, AdvancedOK
<1>2a. PICK a : a = [proc[p] EXCEPT !.seen = NoRecord, !.step = @ + 1]
  OBVIOUS
<1>3. /\ Grounded(row, s) /\ row.attempt_count = proc[p].seen.attempt_count
      /\ row.attempt_count \in Nat
  BY <1>1, <1>2, <1>2a, AdvancedOK DEF Row
<1>4. /\ rows' = [rows EXCEPT ![s] = row] /\ Becomes(p, a)
      /\ UNCHANGED <<queueVars, outputs>>
  BY <1>2, <1>2a DEF WriteStage
<1>5. /\ a.doing = "running" /\ a.sub = s /\ a.step = k + 1
      /\ a.seen = NoRecord /\ a.attempt = proc[p].attempt /\ a \in Activity
  BY <1>1, <1>2, <1>2a, NextStepOK
<1>6. ActivityOK(p, a)'
  <2>1. rows'[s] # NoRecord
    BY <1>4, RowsShape DEF IInv
  <2>2. Produced(k + 1) \subseteq outputs'[s]
    BY <1>1, <1>2, <1>2a, <1>4, ProducedNext
  <2> QED  BY <1>1, <1>2, <1>2a, <1>5, <2>1, <2>2 DEF ActivityOK
<1>7. QueueFacts /\ QueueFacts' /\ CountsOK /\ ThreadsOK
  BY <1>4, QueueInvFacts DEF IInv, queueVars, QueueFacts
<1>8. ASSUME NEW t \in Submissions PROVE NotTighter(t)
  <2>1. Runs(t) \in Nat /\ Runs(t)' \in Nat /\ Runs(t)' >= Runs(t)
    <3>1. jobs' = jobs /\ (rows[t] # NoRecord => rows'[t] # NoRecord)
      BY <1>4, RowsShape DEF queueVars, IInv
    <3>2. jobs[t].attempt_count \in Nat
      BY <1>7 DEF QueueFacts, Queue!Job
    <3> QED  BY <3>1, <3>2 DEF Runs
  <2>2. IsOpen(a, t) => IsOpen(proc[p], t)
    BY <1>1, <1>2, <1>2a, <1>5 DEF IsOpen
  <2> QED  BY <1>4, <1>7, <2>1, <2>2, NoRunOpens
<1>9. Room(row.attempt_count, s)'
  BY <1>1, <1>2, <1>2a, <1>3, <1>7, <1>8, RoomStays
<1> QED  BY <1>3, <1>4, <1>5, <1>6, <1>8, <1>9, RowStep

LEMMA FailedRowOK ==
    ASSUME NEW row \in Row
    PROVE  /\ FailedRow(row) \in Row
           /\ FailedRow(row).attempt_count = row.attempt_count + 1
           /\ FailedRow(row).stage = "FAILED"
           /\ FailedRow(row).last_completed_stage = row.last_completed_stage
<1>1. /\ row = [stage |-> row.stage, last_completed_stage |-> row.last_completed_stage,
                attempt_count |-> row.attempt_count]
      /\ row.last_completed_stage \in Linear \cup {NoRecord}
      /\ row.attempt_count \in Nat
  BY DEF Row
<1>2. FailedRow(row) = [stage |-> "FAILED",
                        last_completed_stage |-> row.last_completed_stage,
                        attempt_count |-> row.attempt_count + 1]
  <2>1. PICK l, n : l = row.last_completed_stage /\ n = row.attempt_count
    OBVIOUS
  <2>2. row = [stage |-> row.stage, last_completed_stage |-> l, attempt_count |-> n]
    BY <1>1, <2>1
  <2>3. FailedRow(row) = [row EXCEPT !.stage = "FAILED", !.attempt_count = n + 1]
    BY <2>1 DEF FailedRow
  <2> QED  BY <2>1, <2>2, <2>3
<1>3. row.attempt_count + 1 \in Nat
  BY <1>1
<1> QED  BY <1>1, <1>2, <1>3 DEF Row, ProcessingStage

LEMMA WriteFailedIInv ==
    ASSUME IInv, NEW p \in Processes, WriteFailed(p)
    PROVE  IInv'
<1>1. /\ proc[p].doing = "failing"
      /\ ActivityOK(p, proc[p]) /\ proc[p] \in Activity
      /\ proc[p].sub \in Submissions /\ rows[proc[p].sub] # NoRecord
      /\ proc[p].seen \in Row /\ Grounded(proc[p].seen, proc[p].sub)
      /\ Room(proc[p].seen.attempt_count, proc[p].sub)
  BY BusyFacts, RowsShape DEF WriteFailed, ActivityOK
<1>2. /\ FailedRow(proc[p].seen) \in Row
      /\ FailedRow(proc[p].seen).attempt_count = proc[p].seen.attempt_count + 1
      /\ FailedRow(proc[p].seen).stage = "FAILED"
      /\ FailedRow(proc[p].seen).last_completed_stage = proc[p].seen.last_completed_stage
  BY <1>1, FailedRowOK
<1>3. PICK s \in Submissions, row \in Row :
        s = proc[p].sub /\ row = FailedRow(proc[p].seen)
  BY <1>1, <1>2
<1>3a. PICK a :
         a = [proc[p] EXCEPT !.doing = "reporting", !.seen = NoRecord]
  OBVIOUS
<1>4. Grounded(row, s)
  BY <1>1, <1>2, <1>3, <1>3a, NothingOwed DEF Grounded
<1>5. /\ rows' = [rows EXCEPT ![s] = row] /\ Becomes(p, a)
      /\ UNCHANGED <<queueVars, outputs>>
  BY <1>3, <1>3a DEF WriteFailed
<1>6. /\ a.doing = "reporting" /\ a.sub = s
      /\ a.seen = NoRecord /\ a.attempt = proc[p].attempt /\ a \in Activity
  BY <1>1, <1>3, <1>3a DEF Activity
<1>7. ActivityOK(p, a)'
  <2>1. rows'[s] # NoRecord
    BY <1>5, RowsShape DEF IInv
  <2> QED  BY <1>1, <1>3, <1>3a, <1>6, <2>1 DEF ActivityOK
<1>8. QueueFacts /\ QueueFacts' /\ CountsOK /\ ThreadsOK
  BY <1>5, QueueInvFacts DEF IInv, queueVars, QueueFacts
<1>9. ASSUME NEW t \in Submissions
      PROVE  /\ NotTighter(t) /\ Runs(t) \in Nat /\ Runs(t)' \in Nat /\ Runs(t)' >= Runs(t)
             /\ t = s => 1 + Cardinality(Open(t)') = Cardinality(Open(t))
  <2>1. Runs(t) \in Nat /\ Runs(t)' \in Nat /\ Runs(t)' >= Runs(t)
    <3>1. jobs' = jobs /\ (rows[t] # NoRecord => rows'[t] # NoRecord)
      BY <1>5, RowsShape DEF queueVars, IInv
    <3>2. jobs[t].attempt_count \in Nat
      BY <1>8 DEF QueueFacts, Queue!Job
    <3> QED  BY <3>1, <3>2 DEF Runs
  <2>2. ~IsOpen(a, t) /\ (t = s => IsOpen(proc[p], t))
    BY <1>1, <1>3, <1>3a, <1>6 DEF IsOpen
  <2> QED  BY <1>5, <1>8, <2>1, <2>2, NoRunOpens
\* The failure recorded takes the place of the run that recorded it.
<1>10. Room(row.attempt_count, s)'
  <2>1. /\ row.attempt_count = proc[p].seen.attempt_count + 1
        /\ proc[p].seen.attempt_count \in Nat
        /\ proc[p].seen.attempt_count + Cardinality(Open(s)) <= Runs(s)
    BY <1>1, <1>2, <1>3, <1>3a DEF Row, Room
  <2>2. Cardinality(Open(s)) \in Nat /\ Cardinality(Open(s)') \in Nat
    BY <1>8, <1>9, FS_CardinalityType DEF CountsOK, NotTighter
  <2>3. row.attempt_count + Cardinality(Open(s)') <= Runs(s)'
    BY <1>9, <2>1, <2>2
  <2> QED  BY <2>3 DEF Room
<1> QED  BY <1>4, <1>5, <1>6, <1>7, <1>9, <1>10, RowStep

-------------------------------------------------------------------------------
(* The entry points.                                                        *)

LEMMA IdleFacts ==
    /\ Idle \in Activity /\ Idle.doing = "idle" /\ Idle.sub = NoJob
    /\ Idle.seen = NoRecord /\ Idle.attempt = 0 /\ Idle.step = 1
    /\ \A s : ~IsOpen(Idle, s)
BY PlanShape DEF Idle, Activity, IsOpen

LEMMA IngestedFacts ==
    /\ Ingested \in Row /\ Ingested # NoRecord /\ Ingested.attempt_count = 0
    /\ \A s : Grounded(Ingested, s)
BY RowsShape, NothingOwed DEF Ingested, Grounded

Submitting(s) == [Idle EXCEPT !.doing = "submitting", !.sub = s]

LEMMA SubmittingOK ==
    ASSUME NEW s \in Submissions, NEW p,
           NEW a, a = Submitting(s)
    PROVE  /\ a \in Activity /\ a.doing = "submitting" /\ a.sub = s
           /\ a.seen = NoRecord /\ a.attempt = 0 /\ \A t : ~IsOpen(a, t)
           /\ rows'[s] # NoRecord => ActivityOK(p, a)'
<1>1. /\ a \in Activity /\ a.doing = "submitting" /\ a.sub = s
      /\ a.seen = NoRecord /\ a.attempt = 0
  <2>1. a = [doing |-> "submitting", sub |-> s, attempt |-> 0, step |-> 1,
             seen |-> NoRecord, error |-> "none"]
    BY DEF Idle, Submitting
  <2>2. 1 \in 1 .. Len(Plan) + 1
    BY PlanShape
  <2> QED  BY <2>1, <2>2 DEF Activity
<1> QED  BY <1>1 DEF ActivityOK, IsOpen

LEMMA StartedOK ==
    ASSUME NEW s \in Submissions, NEW p, NEW n \in Nat, n > 0 => p \in WorkerProcs,
           NEW a, a = Started(s, n)
    PROVE  /\ a \in Activity /\ a.doing = "running" /\ a.sub = s
           /\ a.seen = NoRecord /\ a.attempt = n /\ \A t : IsOpen(a, t) <=> t = s
           /\ rows'[s] # NoRecord => ActivityOK(p, a)'
<1>1. /\ a \in Activity /\ a.doing = "running" /\ a.sub = s
      /\ a.seen = NoRecord /\ a.attempt = n /\ a.step = 1
  <2>1. a = [doing |-> "running", sub |-> s, attempt |-> n, step |-> 1,
             seen |-> NoRecord, error |-> "none"]
    BY DEF Idle, Started
  <2>2. 1 \in 1 .. Len(Plan) + 1
    BY PlanShape
  <2> QED  BY <2>1, <2>2 DEF Activity
<1>2. Produced(1) = {}
  BY DEF Produced
<1> QED  BY <1>1, <1>2 DEF ActivityOK, IsOpen

LEMMA EnqueueSubmissionIInv ==
    ASSUME IInv, NEW c \in Clients, NEW s \in Queued, EnqueueSubmission(c, s)
    PROVE  IInv'
<1>1. c \in Processes /\ s \in Submissions
  BY DEF Processes, Submissions
<1>2. PICK a : a = Submitting(s)
  OBVIOUS
<1>3. /\ a.doing = "submitting" /\ a.sub = s
      /\ a.seen = NoRecord /\ \A t : ~IsOpen(a, t)
      /\ rows'[s] # NoRecord => ActivityOK(c, a)'
  BY <1>1, <1>2, SubmittingOK
<1>4. UNCHANGED <<queueVars, outputs>> /\ Becomes(c, a)
  BY <1>2 DEF EnqueueSubmission, Submitting
<1>5. CASE rows[s] # NoRecord /\ UNCHANGED rows
  <2>1. Grows /\ rows' = rows /\ rows'[s] # NoRecord
    BY <1>4, <1>5 DEF Grows
  <2>2. outputs' \in [Submissions -> SUBSET Outputs]
    BY <1>4 DEF IInv
  <2>3. UNCHANGED <<queueVars, rows>>
    BY <1>4, <2>1
  <2> QED  BY <1>1, <1>3, <1>4, <2>1, <2>2, <2>3, LocalStep
<1>6. CASE rows[s] = NoRecord /\ rows' = [rows EXCEPT ![s] = Ingested]
  <2>1. QueueFacts /\ QueueFacts' /\ CountsOK /\ ThreadsOK
    BY <1>4, QueueInvFacts DEF IInv, queueVars, QueueFacts
  <2>2. rows'[s] # NoRecord
    BY <1>1, <1>6, IngestedFacts DEF IInv
  <2>3. ASSUME NEW t \in Submissions PROVE NotTighter(t)
    <3>1. Runs(t) \in Nat /\ Runs(t)' \in Nat /\ Runs(t)' >= Runs(t)
      <4>1. jobs' = jobs /\ (rows[t] # NoRecord => rows'[t] # NoRecord)
        BY <1>1, <1>4, <1>6, IngestedFacts DEF queueVars, IInv
      <4>2. jobs[t].attempt_count \in Nat
        BY <2>1 DEF QueueFacts, Queue!Job
      <4> QED  BY <4>1, <4>2 DEF Runs
    <3> QED  BY <1>1, <1>3, <1>4, <2>1, <3>1, NoRunOpens
  <2>4. Room(0, s)'
    BY <1>1, <2>1, <2>3, RoomStays DEF CountsOK
  <2>5. Room(Ingested.attempt_count, s)'
    BY <2>4, IngestedFacts DEF Room
  <2> QED  BY <1>1, <1>3, <1>4, <1>6, <2>2, <2>3, <2>5, IngestedFacts, RowStep
<1> QED  BY <1>5, <1>6 DEF EnqueueSubmission

LEMMA ProcessBidIInv ==
    ASSUME IInv, NEW c \in Clients, NEW s \in Direct, ProcessBid(c, s)
    PROVE  IInv'
<1>1. c \in Processes /\ s \in Submissions
  BY DEF Processes, Submissions
<1>2. PICK a : a = Started(s, 0)
  OBVIOUS
<1>3. /\ a.doing = "running" /\ a.sub = s
      /\ a.seen = NoRecord /\ \A t : IsOpen(a, t) <=> t = s
      /\ rows'[s] # NoRecord => ActivityOK(c, a)'
  BY <1>1, <1>2, StartedOK
<1>4. /\ UNCHANGED <<queueVars, outputs>> /\ Becomes(c, a)
      /\ rows[s] = NoRecord /\ rows' = [rows EXCEPT ![s] = Ingested]
  BY <1>2 DEF ProcessBid
<1>5. QueueFacts /\ QueueFacts' /\ CountsOK /\ ThreadsOK /\ jobs' = jobs
  BY <1>4, QueueInvFacts DEF IInv, queueVars, QueueFacts
<1>6. /\ rows'[s] # NoRecord
      /\ \A t \in Submissions \ {s} : rows'[t] = rows[t]
  BY <1>1, <1>4, IngestedFacts DEF IInv
<1>7. ASSUME NEW t \in Submissions PROVE NotTighter(t)
  <2>1. jobs[t].attempt_count \in Nat
    BY <1>5 DEF QueueFacts, Queue!Job
  <2>2. CASE t = s
    <3>1. Runs(t)' = Runs(t) + 1
      BY <1>4, <1>5, <1>6, <2>1, <2>2 DEF Runs
    <3> QED  BY <1>1, <1>4, <1>5, <3>1, RunOpens
  <2>3. CASE t # s
    <3>1. Runs(t) \in Nat /\ Runs(t)' \in Nat /\ Runs(t)' >= Runs(t)
      BY <1>5, <1>6, <2>1, <2>3 DEF Runs
    <3>2. IsOpen(a, t) => IsOpen(proc[c], t)
      BY <1>3, <2>3
    <3> QED  BY <1>1, <1>4, <1>5, <3>1, <3>2, NoRunOpens
  <2> QED  BY <2>2, <2>3
<1>8. Room(0, s)'
  BY <1>1, <1>5, <1>7, RoomStays DEF CountsOK
<1>9. Room(Ingested.attempt_count, s)'
  BY <1>8, IngestedFacts DEF Room
<1> QED  BY <1>1, <1>3, <1>4, <1>6, <1>7, <1>9, IngestedFacts, RowStep

-------------------------------------------------------------------------------
(* The steps that call the queue.                                           *)

\* p calls the queue, which changes the job of s alone, and goes on with a.
LEMMA QueueCall ==
    ASSUME IInv, QueueStep, UNCHANGED <<rows, outputs>>,
           NEW p \in Processes, NEW a, Becomes(p, a), ActivityOK(p, a)',
           a.seen = NoRecord,
           \A s \in Submissions : /\ NotTighter(s)
                                  /\ jobs'[s].state # "ABSENT" => rows[s] # NoRecord
                                  /\ jobs'[s].state = "SUCCEEDED" =>
                                        jobs[s].state = "SUCCEEDED" \/ outputs[s] = Outputs
    PROVE  IInv'
<1>1. Grows
  BY DEF Grows
<1>2. /\ rows' \in [Submissions -> Row \cup {NoRecord}]
      /\ outputs' \in [Submissions -> SUBSET Outputs]
  BY DEF IInv
<1>3. \A s \in Submissions : KeepsPromises(s)
  BY DEF KeepsPromises
<1> QED  BY <1>1, <1>2, <1>3, StepKeeps

LEMMA QueueFactsNext ==
    ASSUME IInv, QueueStep
    PROVE  /\ QueueFacts /\ QueueFacts' /\ CountsOK /\ ThreadsOK
           /\ \A s \in Submissions : jobs[s].attempt_count \in Nat
<1>1. QueueProofs!IInv /\ QueueProofs!IInv'
  BY QueueInv DEF IInv
<1>2. QueueProofs!IInv' => QueueFacts'
  BY QueueInvFacts, PTL
<1> QED  BY <1>1, <1>2, QueueInvFacts DEF IInv, QueueFacts, Queue!Job

\* A call that takes no job in hand leaves as much room.
LEMMA CallLeavesRoom ==
    ASSUME IInv, QueueStep, UNCHANGED rows, NEW p \in Processes, NEW a, Becomes(p, a),
           NEW s \in Submissions, ~IsOpen(a, s),
           jobs'[s].attempt_count = jobs[s].attempt_count
    PROVE  NotTighter(s)
<1>1. Runs(s)' = Runs(s) /\ Runs(s) \in Nat
  BY QueueFactsNext, RunsType DEF Runs
<1> QED  BY <1>1, QueueFactsNext, NoRunOpens

LEMMA EnqueueStageJobIInv ==
    ASSUME IInv, NEW c \in Clients, EnqueueStageJob(c)
    PROVE  IInv'
<1>1. c \in Processes
  BY DEF Processes
<1>2. /\ proc[c].doing = "submitting"
      /\ proc[c].sub \in Submissions /\ rows[proc[c].sub] # NoRecord
      /\ Becomes(c, Idle) /\ UNCHANGED <<rows, outputs>>
  BY <1>1, BusyFacts DEF EnqueueStageJob, ActivityOK
<1>3. CASE Queue!Enqueue(proc[c].sub, proc[c].sub)
  <2>1. PICK s \in Submissions : s = proc[c].sub
    BY <1>2
  <2>2. QueueStep
    BY <1>3, <2>1 DEF QueueStep
  <2>3. /\ \A q \in Submissions \ {s} : jobs'[q] = jobs[q]
        /\ Unleased(s) /\ jobs'[s].state = "PENDING"
    BY <1>3, <2>1, <2>2, QueueFactsNext, EnqueueEffect
  <2>4. \A q \in Submissions : jobs'[q].attempt_count = jobs[q].attempt_count
    BY <2>3 DEF Unleased
  <2>5. \A q \in Submissions : NotTighter(q)
    BY <1>1, <1>2, <2>2, <2>4, IdleFacts, CallLeavesRoom
  <2>6. ASSUME NEW q \in Submissions
        PROVE  /\ jobs'[q].state # "ABSENT" => rows[q] # NoRecord
               /\ jobs'[q].state = "SUCCEEDED" => jobs[q].state = "SUCCEEDED"
    BY <1>2, <2>1, <2>3 DEF IInv, JobsHaveRows
  <2> QED  BY <1>1, <1>2, <2>2, <2>5, <2>6, IdleFacts, IdleIsOK, QueueCall
<1>4. CASE UNCHANGED queueVars
  BY <1>1, <1>2, <1>4, IdleIsOK, IdleFacts, OwnStep
<1> QED  BY <1>3, <1>4 DEF EnqueueStageJob

LEMMA ClaimJobIInv ==
    ASSUME IInv, NEW p \in WorkerProcs, ClaimJob(p)
    PROVE  IInv'
<1>1. p \in Processes /\ WorkerId[p] \in WorkerIds
  BY SubmissionAssumption DEF Processes
<1>2. QueueStep
  BY <1>1 DEF ClaimJob, QueueStep
<1>3. PICK s \in Submissions :
        /\ \A q \in Submissions \ {s} : jobs'[q] = jobs[q]
        /\ jobs[s].state \in Queue!Waiting
        /\ jobs'[s].state = "RUNNING"
        /\ jobs'[s].attempt_count = jobs[s].attempt_count + 1
  BY <1>1, <1>2, QueueFactsNext, ClaimEffect DEF ClaimJob
<1>4. Becomes(p, Started(s, jobs'[s].attempt_count)) /\ UNCHANGED <<rows, outputs>>
  BY <1>3 DEF ClaimJob
<1>5. PICK n \in Nat : n = jobs'[s].attempt_count
  BY <1>2, <1>3, QueueFactsNext
<1>5a. PICK a : a = Started(s, n)
  OBVIOUS
<1>6. rows[s] # NoRecord
  BY <1>3 DEF IInv, JobsHaveRows
<1>7. /\ a.doing = "running" /\ a.sub = s
      /\ a.seen = NoRecord /\ \A t : IsOpen(a, t) <=> t = s
      /\ ActivityOK(p, a)'
  BY <1>4, <1>5a, <1>6, StartedOK
<1>8. Becomes(p, a)
  BY <1>4, <1>5, <1>5a
<1>9. ASSUME NEW q \in Submissions PROVE NotTighter(q)
  <2>1. CASE q = s
    <3>1. Runs(s)' = Runs(s) + 1
      BY <1>2, <1>3, <1>4, QueueFactsNext DEF Runs
    <3> QED  BY <1>1, <1>2, <1>8, <2>1, <3>1, QueueFactsNext, RunOpens
  <2>2. CASE q # s
    BY <1>1, <1>2, <1>3, <1>4, <1>7, <1>8, <2>2, CallLeavesRoom
  <2> QED  BY <2>1, <2>2
<1>10. ASSUME NEW q \in Submissions
       PROVE  /\ jobs'[q].state # "ABSENT" => rows[q] # NoRecord
              /\ jobs'[q].state = "SUCCEEDED" => jobs[q].state = "SUCCEEDED"
  BY <1>3 DEF IInv, JobsHaveRows
<1> QED  BY <1>1, <1>2, <1>4, <1>7, <1>8, <1>9, <1>10, QueueCall

LEMMA DelayOK ==
    ASSUME NEW n \in Nat
    PROVE  Delay(n) \in 0 .. MaxDelay
BY QueueAssumption DEF QueueProofs!JobQueueAssumption, Delay

LEMMA ReportFailureIInv ==
    ASSUME IInv, NEW p \in Processes, ReportFailure(p)
    PROVE  IInv'
<1> DEFINE retryable == proc[p].error = "retryable" /\ proc[p].attempt < MaxAttempts
           delay == IF retryable THEN Delay(proc[p].attempt) ELSE 0
<1>1. /\ proc[p].doing = "reporting"
      /\ proc[p].sub \in Submissions /\ proc[p].attempt \in Nat
      /\ proc[p].attempt > 0 => p \in WorkerProcs
      /\ Becomes(p, Idle) /\ UNCHANGED <<rows, outputs>>
  BY BusyFacts DEF ReportFailure, ActivityOK, Activity
<1>2. CASE /\ proc[p].attempt > 0
           /\ Queue!Fail(proc[p].sub, WorkerId[p], retryable, delay)
  <2>1. PICK s \in Submissions, w \in WorkerIds, r \in BOOLEAN, d \in 0 .. MaxDelay :
             s = proc[p].sub /\ w = WorkerId[p] /\ r = retryable /\ d = delay
    <3>1. delay \in 0 .. MaxDelay
      BY <1>1, DelayOK, QueueAssumption DEF QueueProofs!JobQueueAssumption
    <3>2. WorkerId[p] \in WorkerIds
      BY <1>1, <1>2, SubmissionAssumption
    <3> QED  BY <1>1, <3>1, <3>2
  <2> HIDE DEF retryable, delay
  <2>2. Queue!Fail(s, w, r, d)
    BY <1>2, <2>1
  <2>3. QueueStep
    BY <2>2 DEF QueueStep
  <2>4. /\ \A q \in Submissions \ {s} : jobs'[q] = jobs[q]
        /\ Unleased(s) /\ jobs[s].state = "RUNNING"
        /\ jobs'[s].state \in {"RETRYABLE", "FAILED"}
    BY <2>2, <2>3, QueueFactsNext, FailEffect
  <2>5. \A q \in Submissions : jobs'[q].attempt_count = jobs[q].attempt_count
    BY <2>4 DEF Unleased
  <2>6. \A q \in Submissions : NotTighter(q)
    BY <1>1, <2>3, <2>5, IdleFacts, CallLeavesRoom
  <2>7. ASSUME NEW q \in Submissions
        PROVE  /\ jobs'[q].state # "ABSENT" => rows[q] # NoRecord
               /\ jobs'[q].state = "SUCCEEDED" => jobs[q].state = "SUCCEEDED"
    BY <2>4 DEF IInv, JobsHaveRows
  <2> QED  BY <1>1, <2>3, <2>6, <2>7, IdleFacts, IdleIsOK, QueueCall
<1>3. CASE UNCHANGED queueVars
  BY <1>1, <1>3, IdleIsOK, IdleFacts, OwnStep
<1> QED  BY <1>2, <1>3 DEF ReportFailure

LEMMA FinishIInv ==
    ASSUME IInv, NEW p \in Processes, Finish(p)
    PROVE  IInv'
<1>1. /\ proc[p].doing = "running" /\ proc[p].step = 14
      /\ proc[p].sub \in Submissions /\ proc[p].attempt \in Nat
      /\ Produced(14) \subseteq outputs[proc[p].sub]
      /\ proc[p].attempt > 0 => p \in WorkerProcs
      /\ Becomes(p, Idle) /\ UNCHANGED <<rows, outputs>>
  BY BusyFacts, PlanShape DEF Finish, ActivityOK, Activity
<1>2. outputs[proc[p].sub] = Outputs
  <2>1. Produced(14) = Outputs
    BY AllIsProduced, PlanShape
  <2>2. outputs[proc[p].sub] \subseteq Outputs
    BY <1>1 DEF IInv
  <2> QED  BY <1>1, <2>1, <2>2
<1>3. CASE proc[p].attempt > 0 /\ Queue!Ack(proc[p].sub, WorkerId[p])
  <2>1. PICK s \in Submissions, w \in WorkerIds : s = proc[p].sub /\ w = WorkerId[p]
    BY <1>1, <1>3, SubmissionAssumption
  <2>2. QueueStep
    BY <1>3, <2>1 DEF QueueStep
  <2>3. /\ \A q \in Submissions \ {s} : jobs'[q] = jobs[q]
        /\ Unleased(s) /\ jobs[s].state = "RUNNING"
    BY <1>3, <2>1, <2>2, QueueFactsNext, AckEffect
  <2>4. \A q \in Submissions : jobs'[q].attempt_count = jobs[q].attempt_count
    BY <2>3 DEF Unleased
  <2>5. \A q \in Submissions : NotTighter(q)
    BY <1>1, <2>2, <2>4, IdleFacts, CallLeavesRoom
  <2>6. ASSUME NEW q \in Submissions
        PROVE  /\ jobs'[q].state # "ABSENT" => rows[q] # NoRecord
               /\ jobs'[q].state = "SUCCEEDED" =>
                     jobs[q].state = "SUCCEEDED" \/ outputs[q] = Outputs
    BY <1>2, <2>1, <2>3 DEF IInv, JobsHaveRows
  <2> QED  BY <1>1, <2>2, <2>5, <2>6, IdleFacts, IdleIsOK, QueueCall
<1>4. CASE UNCHANGED queueVars
  BY <1>1, <1>4, IdleIsOK, IdleFacts, OwnStep
<1> QED  BY <1>3, <1>4 DEF Finish

-------------------------------------------------------------------------------
(* Time, the sweep, and all steps together.                                 *)

\* The queue moves while no process does.
LEMMA QueueAlone ==
    ASSUME IInv, QueueStep, UNCHANGED <<rows, outputs, proc>>,
           \A s \in Submissions :
               /\ jobs'[s].attempt_count = jobs[s].attempt_count
               /\ jobs'[s].state # "ABSENT" => jobs[s].state # "ABSENT"
               /\ jobs'[s].state = "SUCCEEDED" => jobs[s].state = "SUCCEEDED"
    PROVE  IInv'
<1>1. QueueFacts /\ QueueFacts' /\ CountsOK /\ ThreadsOK /\ QueueProofs!IInv'
  BY QueueFactsNext, QueueInv DEF IInv
<1>2. Grows
  BY DEF Grows
<1>3. ThreadsOK'
  BY <1>1, <1>2, NobodyMoves
<1>4. JobsHaveRows' /\ DoneMeansPersisted'
  BY DEF IInv, JobsHaveRows, DoneMeansPersisted
<1>5. CountsOK'
  <2>1. \A s \in Submissions : Open(s)' = Open(s) /\ Runs(s)' = Runs(s)
    BY DEF Open, Runs
  <2> QED  BY <1>1, <2>1 DEF CountsOK, Room
<1> QED  BY <1>1, <1>3, <1>4, <1>5 DEF IInv

LEMMA RecoverStaleIInv ==
    ASSUME IInv, RecoverStale
    PROVE  IInv'
<1>1. QueueStep
  BY DEF RecoverStale, QueueStep
<1>2. ASSUME NEW s \in Submissions
      PROVE  /\ jobs'[s].attempt_count = jobs[s].attempt_count
             /\ jobs'[s].state # "ABSENT" => jobs[s].state # "ABSENT"
             /\ jobs'[s].state = "SUCCEEDED" => jobs[s].state = "SUCCEEDED"
  BY <1>1, QueueFactsNext, RecoverEffect DEF RecoverStale, Unleased
<1> QED  BY <1>1, <1>2, QueueAlone DEF RecoverStale

LEMMA TickIInv ==
    ASSUME IInv, Tick
    PROVE  IInv'
<1>1. QueueStep
  BY DEF Tick, QueueStep
<1>2. ASSUME NEW s \in Submissions
      PROVE  /\ jobs'[s].attempt_count = jobs[s].attempt_count
             /\ jobs'[s].state # "ABSENT" => jobs[s].state # "ABSENT"
             /\ jobs'[s].state = "SUCCEEDED" => jobs[s].state = "SUCCEEDED"
  BY <1>1, QueueFactsNext, TickEffect DEF Tick, SameFor
<1> QED  BY <1>1, <1>2, QueueAlone DEF Tick

LEMMA StutterIInv ==
    ASSUME IInv, UNCHANGED vars
    PROVE  IInv'
<1>1. QueueStep /\ jobs' = jobs
  BY DEF vars, QueueStep, queueVars
<1> QED  BY <1>1, QueueAlone DEF vars

LEMMA NextIInv == IInv /\ [Next]_vars => IInv'
<1> SUFFICES ASSUME IInv, [Next]_vars PROVE IInv'
  OBVIOUS
<1>1. CASE \E c \in Clients : Submit(c)
  BY <1>1, EnqueueSubmissionIInv, ProcessBidIInv DEF Submit
<1>2. CASE \E c \in Clients : EnqueueStageJob(c)
  BY <1>2, EnqueueStageJobIInv
<1>3. CASE \E p \in WorkerProcs : ClaimJob(p)
  BY <1>3, ClaimJobIInv
<1>4. CASE \E p \in Processes : Step(p)
  BY <1>4, ReadStageIInv, WriteStageIInv, PersistIInv, ReadFailedIInv,
     WriteFailedIInv, ReportFailureIInv, FinishIInv DEF Step
<1>5. CASE \E p \in Processes, kind \in Failures : Raise(p, kind)
  BY <1>5, RaiseIInv
<1>6. CASE Disturb
  BY <1>6, SwallowFailureIInv, CrashIInv DEF Disturb
<1>7. CASE RecoverStale
  BY <1>7, RecoverStaleIInv
<1>8. CASE Tick
  BY <1>8, TickIInv
<1>9. CASE UNCHANGED vars
  BY <1>9, StutterIInv
<1> QED  BY <1>1, <1>2, <1>3, <1>4, <1>5, <1>6, <1>7, <1>8, <1>9 DEF Next, Work

-------------------------------------------------------------------------------
(* The theorems.                                                            *)

LEMMA Invariant == Spec => []IInv
BY InitIInv, NextIInv, PTL DEF Spec

\* Rows, outputs, processes and the queue keep their types: no step works on a
\* submission without a row, whatever crashes and retries precede it.
THEOREM TypeCorrect == Spec => []TypeOK
<1> DEFINE Typed == faults \subseteq FAULTS
<1>1. Init => Typed
  BY DEF Init
<1>2. Typed /\ [Next]_vars => Typed'
  BY DEF Next, vars
<1>3. IInv /\ Typed => TypeOK
  BY IInvTypeOK
<1> QED  BY <1>1, <1>2, <1>3, Invariant, PTL DEF Spec

\* Neither a row's stage nor its resumability anchor runs ahead of what
\* _run_pipeline has persisted, and a job that SUCCEEDED left everything
\* behind, however many runs of the submission overlap, die or write back
\* stale copies of its row.
THEOREM StagesArePersisted == Spec => []DoneMeansPersisted
<1>1. IInv => DoneMeansPersisted
  BY DEF IInv
<1> QED  BY <1>1, Invariant, PTL

\* fail_submission counts no more failures on the row than there were runs of
\* the submission, although overlapping runs count on stale copies of it.
THEOREM FailuresCounted == Spec => []FailuresAreRuns
<1>1. ASSUME IInv, NEW s \in Submissions, rows[s] # NoRecord
      PROVE  rows[s].attempt_count <=
                jobs[s].attempt_count + (IF s \in Direct THEN 1 ELSE 0)
  <2>1. QueueFacts /\ Room(rows[s].attempt_count, s) /\ IsFiniteSet(Open(s))
    BY <1>1, QueueInvFacts DEF IInv, CountsOK
  <2>2. Cardinality(Open(s)) \in Nat /\ Runs(s) \in Nat
    BY <2>1, FS_CardinalityType, RunsType
  <2>3. rows[s].attempt_count \in Nat /\ jobs[s].attempt_count \in Nat
    BY <1>1, <2>1 DEF IInv, Row, QueueFacts, Queue!Job
  <2>4. Runs(s) = jobs[s].attempt_count + (IF s \in Direct THEN 1 ELSE 0)
    BY <1>1 DEF Runs
  <2> QED  BY <2>1, <2>2, <2>3, <2>4 DEF Room
<1>2. IInv => FailuresAreRuns
  BY <1>1 DEF FailuresAreRuns
<1> QED  BY <1>2, Invariant, PTL

-------------------------------------------------------------------------------
(* Who may settle a job.                                                    *)

\* Jobs only leave their holders, and processes only leave their jobs.
NobodyTakes ==
    /\ \A s \in Submissions :
          \/ jobs'[s].leased_by = NoWorker
          \/ /\ jobs'[s].leased_by = jobs[s].leased_by
             /\ jobs'[s].attempt_count = jobs[s].attempt_count
    /\ \A p \in Processes :
          \/ proc'[p].attempt = 0
          \/ proc'[p].sub = proc[p].sub /\ proc'[p].attempt = proc[p].attempt

LEMMA HolderStays ==
    ASSUME HolderIsLatest, NobodyTakes
    PROVE  HolderIsLatest'
<1> SUFFICES ASSUME NEW p \in WorkerProcs, NEW s \in Submissions,
                    proc'[p].sub = s, proc'[p].attempt > 0,
                    jobs'[s].leased_by = WorkerId[p]
             PROVE  proc'[p].attempt = jobs'[s].attempt_count
  BY DEF HolderIsLatest
<1>1. WorkerId[p] # NoWorker /\ p \in Processes
  BY SubmissionAssumption, QueueAssumption DEF QueueProofs!JobQueueAssumption, Processes
<1>2. /\ jobs'[s].leased_by = jobs[s].leased_by
      /\ jobs'[s].attempt_count = jobs[s].attempt_count
  BY <1>1 DEF NobodyTakes
<1>3. proc'[p].sub = proc[p].sub /\ proc'[p].attempt = proc[p].attempt
  BY <1>1 DEF NobodyTakes
<1> QED  BY <1>2, <1>3 DEF HolderIsLatest

\* One process goes on with a, for its submission or idle.
LEMMA OneMoves ==
    ASSUME IInv, NEW p \in Processes, NEW a, Becomes(p, a),
           a.attempt = 0 \/ (a.sub = proc[p].sub /\ a.attempt = proc[p].attempt),
           \A s \in Submissions : jobs'[s] = jobs[s] \/ Unleased(s)
    PROVE  NobodyTakes
<1>1. \A q \in Processes : proc'[q] = IF q = p THEN a ELSE proc[q]
  BY DEF IInv, ThreadsOK, Becomes
<1> QED  BY <1>1 DEF NobodyTakes, Unleased

\* The claim that gives p its job names p as the holder, and nobody else.
LEMMA ClaimHolds ==
    ASSUME IInv, HolderIsLatest, OwnIds, NEW p \in WorkerProcs, ClaimJob(p)
    PROVE  HolderIsLatest'
<1>1. p \in Processes /\ WorkerId[p] \in WorkerIds
  BY SubmissionAssumption DEF Processes
<1>2. QueueStep
  BY <1>1 DEF ClaimJob, QueueStep
<1>3. PICK s \in Submissions :
        /\ \A q \in Submissions \ {s} : jobs'[q] = jobs[q]
        /\ jobs[s].state \in Queue!Waiting
        /\ jobs'[s].state = "RUNNING" /\ jobs'[s].leased_by = WorkerId[p]
  BY <1>1, <1>2, QueueFactsNext, ClaimEffect DEF ClaimJob
<1>4. Becomes(p, Started(s, jobs'[s].attempt_count))
  BY <1>3 DEF ClaimJob
<1>5. PICK n \in Nat : n = jobs'[s].attempt_count
  <2>1. jobs'[s].attempt_count \in Nat
    BY <1>2, QueueFactsNext DEF QueueFacts, Queue!Job
  <2> QED  BY <2>1
<1>5a. PICK a : a = Started(s, n)
  OBVIOUS
<1>6. a.sub = s /\ a.attempt = n
  BY <1>5a, StartedOK
<1>7. \A q \in Processes : proc'[q] = IF q = p THEN a ELSE proc[q]
  BY <1>4, <1>5, <1>5a DEF IInv, ThreadsOK, Becomes
<1>8. SUFFICES ASSUME NEW q \in WorkerProcs, NEW t \in Submissions,
                      proc'[q].sub = t, proc'[q].attempt > 0,
                      jobs'[t].leased_by = WorkerId[q]
               PROVE  proc'[q].attempt = jobs'[t].attempt_count
  BY DEF HolderIsLatest
<1>9. q \in Processes
  BY DEF Processes
<1>10. CASE q = p
  BY <1>1, <1>5, <1>5a, <1>6, <1>7, <1>8, <1>10
<1>11. CASE q # p
  <2>1. t # s
    BY <1>3, <1>8, <1>11 DEF OwnIds
  <2> QED  BY <1>3, <1>7, <1>8, <1>9, <1>11, <2>1 DEF HolderIsLatest
<1> QED  BY <1>10, <1>11

\* What acknowledging or failing a job changes: the job of p's run, which p
\* holds, and p itself.
Settled(p) ==
    /\ Becomes(p, Idle)
    /\ \A s \in Submissions :
          \/ jobs'[s] = jobs[s]
          \/ /\ Unleased(s) /\ s = proc[p].sub /\ proc[p].attempt > 0
             /\ jobs[s].leased_by = WorkerId[p]

LEMMA FinishSettles ==
    ASSUME IInv, NEW p \in Processes, Finish(p)
    PROVE  Settled(p)
<1>1. /\ proc[p].sub \in Submissions /\ proc[p].attempt \in Nat
      /\ proc[p].attempt > 0 => p \in WorkerProcs
      /\ Becomes(p, Idle)
  BY BusyFacts DEF Finish, ActivityOK, Activity
<1>2. CASE proc[p].attempt > 0 /\ Queue!Ack(proc[p].sub, WorkerId[p])
  <2>1. PICK s \in Submissions, w \in WorkerIds : s = proc[p].sub /\ w = WorkerId[p]
    BY <1>1, <1>2, SubmissionAssumption
  <2>2. QueueStep
    BY <1>2, <2>1 DEF QueueStep
  <2>3. /\ \A q \in Submissions \ {s} : jobs'[q] = jobs[q]
        /\ Unleased(s) /\ jobs[s].leased_by = w
    BY <1>2, <2>1, <2>2, QueueFactsNext, AckEffect
  <2> QED  BY <1>1, <1>2, <2>1, <2>3 DEF Settled
<1>3. CASE UNCHANGED queueVars
  BY <1>1, <1>3 DEF Settled, queueVars
<1> QED  BY <1>2, <1>3 DEF Finish

LEMMA ReportSettles ==
    ASSUME IInv, NEW p \in Processes, ReportFailure(p)
    PROVE  Settled(p)
<1> DEFINE retryable == proc[p].error = "retryable" /\ proc[p].attempt < MaxAttempts
           delay == IF retryable THEN Delay(proc[p].attempt) ELSE 0
<1>1. /\ proc[p].sub \in Submissions /\ proc[p].attempt \in Nat
      /\ proc[p].attempt > 0 => p \in WorkerProcs
      /\ Becomes(p, Idle)
  BY BusyFacts DEF ReportFailure, ActivityOK, Activity
<1>2. CASE /\ proc[p].attempt > 0
           /\ Queue!Fail(proc[p].sub, WorkerId[p], retryable, delay)
  <2>1. PICK s \in Submissions, w \in WorkerIds, r \in BOOLEAN, d \in 0 .. MaxDelay :
             s = proc[p].sub /\ w = WorkerId[p] /\ r = retryable /\ d = delay
    <3>1. delay \in 0 .. MaxDelay
      BY <1>1, DelayOK, QueueAssumption DEF QueueProofs!JobQueueAssumption
    <3>2. WorkerId[p] \in WorkerIds
      BY <1>1, <1>2, SubmissionAssumption
    <3> QED  BY <1>1, <3>1, <3>2
  <2> HIDE DEF retryable, delay
  <2>2. Queue!Fail(s, w, r, d)
    BY <1>2, <2>1
  <2>3. QueueStep
    BY <2>2 DEF QueueStep
  <2>4. /\ \A q \in Submissions \ {s} : jobs'[q] = jobs[q]
        /\ Unleased(s) /\ jobs[s].leased_by = w
    BY <2>2, <2>3, QueueFactsNext, FailEffect
  <2> QED  BY <1>1, <1>2, <2>1, <2>4 DEF Settled
<1>3. CASE UNCHANGED queueVars
  BY <1>1, <1>3 DEF Settled, queueVars
<1> QED  BY <1>2, <1>3 DEF ReportFailure

\* A step that settles nothing in anybody's name: who moves ends no job.
SettlesNothing ==
    \/ UNCHANGED proc
    \/ \A s \in Submissions : jobs[s].state = "RUNNING" => jobs'[s].state = "RUNNING"

\* The steps in the middle of a run keep what it works for.
LEMMA RunGoesOn ==
    ASSUME IInv, NEW p \in Processes,
           \/ ReadStage(p) \/ WriteStage(p) \/ Persist(p) \/ ReadFailed(p)
           \/ WriteFailed(p) \/ SwallowFailure(p) \/ Crash(p)
           \/ \E kind \in Failures : Raise(p, kind)
    PROVE  NobodyTakes /\ SettlesNothing
<1>1. proc[p] \in Activity
  BY DEF IInv, ThreadsOK, ActivityOK
<1>2. jobs' = jobs
  BY DEF ReadStage, WriteStage, Persist, ReadFailed, WriteFailed, SwallowFailure,
         Crash, Raise, queueVars
<1>3. \E a : /\ Becomes(p, a)
             /\ a.attempt = 0 \/ (a.sub = proc[p].sub /\ a.attempt = proc[p].attempt)
  <2>1. CASE \E x \in {NoRecord, rows[proc[p].sub]} :
                Becomes(p, [proc[p] EXCEPT !.seen = x])
    BY <1>1, <2>1 DEF Activity
  <2>2. CASE WriteStage(p)
    <3>1. PICK a : a = [proc[p] EXCEPT !.seen = NoRecord, !.step = @ + 1]
      OBVIOUS
    <3>2. a.sub = proc[p].sub /\ a.attempt = proc[p].attempt
      BY <1>1, <3>1 DEF Activity
    <3> QED  BY <2>2, <3>1, <3>2 DEF WriteStage
  <2>3. CASE Persist(p)
    <3>1. PICK a : a = [proc[p] EXCEPT !.step = @ + 1]
      OBVIOUS
    <3>2. a.sub = proc[p].sub /\ a.attempt = proc[p].attempt
      BY <1>1, <3>1 DEF Activity
    <3> QED  BY <2>3, <3>1, <3>2 DEF Persist
  <2>4. CASE Becomes(p, [proc[p] EXCEPT !.doing = "reporting", !.seen = NoRecord])
    <3>1. PICK a : a = [proc[p] EXCEPT !.doing = "reporting", !.seen = NoRecord]
      OBVIOUS
    <3>2. a.sub = proc[p].sub /\ a.attempt = proc[p].attempt
      BY <1>1, <3>1 DEF Activity
    <3> QED  BY <2>4, <3>1, <3>2
  <2>5. CASE \E kind \in {"permanent"} \cup Failures : Becomes(p, Failing(p, kind))
    <3>1. PICK kind \in {"permanent"} \cup Failures : Becomes(p, Failing(p, kind))
      BY <2>5
    <3>2. PICK a : a = Failing(p, kind)
      OBVIOUS
    <3>3. a.sub = proc[p].sub /\ a.attempt = proc[p].attempt
      BY <1>1, <3>2 DEF Activity, Failing
    <3> QED  BY <3>1, <3>2, <3>3
  <2>6. CASE Crash(p)
    BY <2>6, IdleFacts DEF Crash
  <2> QED  BY <2>1, <2>2, <2>3, <2>4, <2>5, <2>6
           DEF ReadStage, ReadFailed, WriteFailed, SwallowFailure, Raise
<1> QED  BY <1>2, <1>3, OneMoves DEF SettlesNothing

\* The steps of the callers, of the sweep and of the clock.
LEMMA OthersGoOn ==
    ASSUME IInv,
           \/ \E c \in Clients : Submit(c)
           \/ \E c \in Clients : EnqueueStageJob(c)
           \/ RecoverStale
           \/ Tick
           \/ UNCHANGED vars
    PROVE  NobodyTakes /\ SettlesNothing
<1>1. CASE \E c \in Clients : Submit(c)
  <2>1. PICK c \in Clients : Submit(c)
    BY <1>1
  <2>2. c \in Processes /\ jobs' = jobs
    BY <2>1 DEF Processes, Submit, EnqueueSubmission, ProcessBid, queueVars
  <2>3. CASE \E s \in Queued : EnqueueSubmission(c, s)
    <3>1. PICK s \in Queued : EnqueueSubmission(c, s)
      BY <2>3
    <3>2. PICK a : a = Submitting(s)
      OBVIOUS
    <3>3. Becomes(c, a) /\ a.attempt = 0
      BY <3>1, <3>2, SubmittingOK DEF EnqueueSubmission, Submitting, Submissions
    <3> QED  BY <2>2, <3>3, OneMoves DEF SettlesNothing
  <2>4. CASE \E s \in Direct : ProcessBid(c, s)
    <3>1. PICK s \in Direct : ProcessBid(c, s)
      BY <2>4
    <3>2. PICK a : a = Started(s, 0)
      OBVIOUS
    <3>3. Becomes(c, a) /\ a.attempt = 0
      BY <3>1, <3>2, StartedOK DEF ProcessBid, Submissions
    <3> QED  BY <2>2, <3>3, OneMoves DEF SettlesNothing
  <2> QED  BY <2>1, <2>3, <2>4 DEF Submit
<1>2. CASE \E c \in Clients : EnqueueStageJob(c)
  <2>1. PICK c \in Clients : EnqueueStageJob(c)
    BY <1>2
  <2>2. c \in Processes /\ Becomes(c, Idle)
    BY <2>1 DEF Processes, EnqueueStageJob
  <2>3. proc[c].sub \in Submissions
    BY <2>1, <2>2, BusyFacts DEF EnqueueStageJob
  <2>4. \A s \in Submissions :
           jobs'[s] = jobs[s] \/ (Unleased(s) /\ jobs[s].state = "ABSENT")
    <3>1. CASE Queue!Enqueue(proc[c].sub, proc[c].sub)
      <4>1. PICK s \in Submissions : s = proc[c].sub
        BY <2>3
      <4>2. QueueStep
        BY <3>1, <4>1 DEF QueueStep
      <4> QED  BY <3>1, <4>1, <4>2, QueueFactsNext, EnqueueEffect
    <3>2. CASE UNCHANGED queueVars
      BY <3>2 DEF queueVars
    <3> QED  BY <2>1, <3>1, <3>2 DEF EnqueueStageJob
  <2> QED  BY <2>2, <2>4, IdleFacts, OneMoves DEF SettlesNothing
<1>3. CASE RecoverStale
  <2>1. QueueStep
    BY <1>3 DEF RecoverStale, QueueStep
  <2>2. \A s \in Submissions : jobs'[s] = jobs[s] \/ Unleased(s)
    BY <1>3, <2>1, QueueFactsNext, RecoverEffect DEF RecoverStale
  <2>3. UNCHANGED proc
    BY <1>3 DEF RecoverStale
  <2> QED  BY <2>2, <2>3 DEF NobodyTakes, SettlesNothing, Unleased
<1>4. CASE Tick
  <2>1. QueueStep
    BY <1>4 DEF Tick, QueueStep
  <2>2. \A s \in Submissions : SameFor(s)
    BY <1>4, <2>1, QueueFactsNext, TickEffect DEF Tick
  <2>3. UNCHANGED proc
    BY <1>4 DEF Tick
  <2> QED  BY <2>2, <2>3 DEF NobodyTakes, SettlesNothing, SameFor
<1>5. CASE UNCHANGED vars
  BY <1>5 DEF vars, NobodyTakes, SettlesNothing
<1> QED  BY <1>1, <1>2, <1>3, <1>4, <1>5

\* Every step claims, settles or neither.
LEMMA StepKinds ==
    ASSUME IInv, [Next]_vars
    PROVE  \/ \E p \in WorkerProcs : ClaimJob(p)
           \/ \E p \in Processes : Settled(p)
           \/ NobodyTakes /\ SettlesNothing
BY RunGoesOn, OthersGoOn, FinishSettles, ReportSettles DEF Next, Work, Step, Disturb

LEMMA HolderNext ==
    ASSUME IInv, HolderIsLatest, OwnIds, [Next]_vars
    PROVE  HolderIsLatest'
<1>1. CASE \E p \in WorkerProcs : ClaimJob(p)
  BY <1>1, ClaimHolds
<1>2. CASE \E p \in Processes : Settled(p)
  <2>1. PICK p \in Processes : Settled(p)
    BY <1>2
  <2>2. NobodyTakes
    BY <2>1, IdleFacts, OneMoves DEF Settled
  <2> QED  BY <2>2, HolderStays
<1>3. CASE NobodyTakes /\ SettlesNothing
  BY <1>3, HolderStays
<1> QED  BY <1>1, <1>2, <1>3, StepKinds

\* A claim ends no run's job, and settling ends the job of the run that does it.
LEMMA HolderSettles ==
    ASSUME IInv, HolderIsLatest, [Next]_vars,
           NEW p \in WorkerProcs, NEW s \in Submissions, Settles(p, s)
    PROVE  proc[p].attempt = jobs[s].attempt_count
<1>1. p \in Processes
  BY DEF Processes
<1>2. CASE \E q \in WorkerProcs : ClaimJob(q)
  <2>1. PICK q \in WorkerProcs : ClaimJob(q)
    BY <1>2
  <2>2. QueueStep /\ WorkerId[q] \in WorkerIds
    BY <2>1, SubmissionAssumption DEF ClaimJob, QueueStep
  <2>3. jobs[s].state = "RUNNING" => jobs'[s].state = "RUNNING"
    BY <2>1, <2>2, QueueFactsNext, ClaimEffect DEF ClaimJob
  <2> QED  BY <2>3 DEF Settles
<1>3. CASE \E q \in Processes : Settled(q)
  <2>1. PICK q \in Processes : Settled(q)
    BY <1>3
  <2>2. q = p
    BY <1>1, <2>1 DEF Settled, Settles, IInv, ThreadsOK, Becomes
  <2>3. proc[p].attempt > 0 /\ jobs[s].leased_by = WorkerId[p]
    BY <2>1, <2>2 DEF Settled, Settles
  <2> QED  BY <2>3 DEF HolderIsLatest, Settles
<1>4. CASE NobodyTakes /\ SettlesNothing
  BY <1>4 DEF SettlesNothing, Settles
<1> QED  BY <1>2, <1>3, <1>4, StepKinds

\* With worker ids of their own (SubmissionWorker falls back to one default for
\* all), a worker that was overtaken while it was slow never ends the job of its
\* successor: ack and fail go through only for the run the job was last claimed
\* for.
THEOREM HolderAlone == OwnIds => (Spec => OnlyHolderSettles)
<1> SUFFICES ASSUME OwnIds PROVE Spec => OnlyHolderSettles
  OBVIOUS
<1>1. Init => HolderIsLatest
  BY IdleFacts DEF Init, HolderIsLatest, Processes
<1>2. IInv /\ HolderIsLatest /\ [Next]_vars => HolderIsLatest'
  BY HolderNext
<1>3. IInv /\ HolderIsLatest /\ [Next]_vars =>
        [\A p \in WorkerProcs, s \in Submissions :
            Settles(p, s) => proc[p].attempt = jobs[s].attempt_count]_vars
  BY HolderSettles
<1> QED  BY <1>1, <1>2, <1>3, Invariant, PTL DEF Spec, OnlyHolderSettles

-------------------------------------------------------------------------------
(* The undisturbed environment: row and job agree.                          *)

\* Each submission has one entry point, and a lease lasts.
CalmAssumption ==
    /\ Queued \cap Direct = {}
    /\ LeaseSeconds > 0

AtWork(a, s) == a.sub = s /\ a.doing \in {"running", "failing", "reporting"}

\* The run a of process p that works on s: it holds the job, and the row has
\* counted every earlier attempt, and this one when it has failed.
RunOK(p, a, s) ==
    /\ p \in WorkerProcs
    /\ jobs[s].state = "RUNNING" /\ jobs[s].leased_by = WorkerId[p]
    /\ jobs[s].lease \in Nat \ {0}
    /\ a.attempt > 0
    /\ rows[s] \in Row
    /\ jobs[s].attempt_count = rows[s].attempt_count
                               + (IF a.doing = "reporting" THEN 0 ELSE 1)
    /\ (rows[s].stage = "COMPLETE") <=> (a.doing = "running" /\ a.step = 14)
    /\ a.doing = "reporting" => rows[s].stage = "FAILED"
    /\ a.seen \in {NoRecord, rows[s]}

\* What the row of s shows in each state of its job.
JobStory(s) ==
    /\ jobs[s].state = "ABSENT" => rows[s] \in {NoRecord, Ingested}
    /\ jobs[s].state = "PENDING" => rows[s] = Ingested /\ jobs[s].attempt_count = 0
    /\ jobs[s].state \in {"RETRYABLE", "FAILED"} =>
          rows[s].stage = "FAILED" /\ rows[s].attempt_count = jobs[s].attempt_count
    /\ jobs[s].state = "SUCCEEDED" =>
          rows[s].stage = "COMPLETE" /\ jobs[s].attempt_count = rows[s].attempt_count + 1
    /\ jobs[s].state = "RUNNING" => \E p \in Processes : AtWork(proc[p], s)
    /\ jobs[s].state # "CANCELLED"

CalmAt(s) ==
    /\ \A p \in Processes : AtWork(proc[p], s) => RunOK(p, proc[p], s)
    /\ \A p, q \in Processes : AtWork(proc[p], s) /\ AtWork(proc[q], s) => p = q
    /\ JobStory(s)

CalmInv == \A s \in Queued : CalmAt(s)

LEMMA CalmAgrees ==
    ASSUME IInv, CalmInv
    PROVE  JobAndRowAgree
<1> SUFFICES ASSUME NEW s \in Queued
             PROVE  /\ jobs[s].state = "PENDING" => rows[s] = Ingested
                    /\ jobs[s].state \in {"RETRYABLE", "FAILED"} =>
                          /\ rows[s].stage = "FAILED"
                          /\ rows[s].attempt_count = jobs[s].attempt_count
                    /\ jobs[s].state = "SUCCEEDED" =>
                          /\ rows[s].stage = "COMPLETE"
                          /\ rows[s].attempt_count = jobs[s].attempt_count - 1
                    /\ (rows[s] # NoRecord /\ rows[s].stage = "COMPLETE") =>
                          jobs[s].state \in {"RUNNING", "SUCCEEDED"}
  BY DEF JobAndRowAgree
<1>1. s \in Submissions /\ JobStory(s) /\ jobs[s] \in Queue!Job
  BY QueueInvFacts DEF Submissions, CalmInv, CalmAt, IInv, QueueFacts
<1>2. jobs[s].state = "SUCCEEDED" => rows[s].attempt_count = jobs[s].attempt_count - 1
  <2> SUFFICES ASSUME jobs[s].state = "SUCCEEDED"
               PROVE  rows[s].attempt_count = jobs[s].attempt_count - 1
    OBVIOUS
  <2>1. rows[s] \in Row
    BY <1>1 DEF IInv, JobsHaveRows
  <2>2. rows[s].attempt_count \in Nat /\ jobs[s].attempt_count = rows[s].attempt_count + 1
    BY <1>1, <2>1 DEF Row, JobStory
  <2> QED  BY <2>2
<1>3. rows[s] # NoRecord /\ rows[s].stage = "COMPLETE" =>
         jobs[s].state \in {"RUNNING", "SUCCEEDED"}
  BY <1>1 DEF JobStory, Ingested, Queue!Job
<1> QED  BY <1>1, <1>2, <1>3 DEF JobStory

LEMMA InitCalm == Init => CalmInv
<1> SUFFICES ASSUME Init, NEW s \in Queued PROVE CalmAt(s)
  BY DEF CalmInv
<1>1. \A p \in Processes : ~AtWork(proc[p], s)
  BY DEF Init, Idle, AtWork
<1>2. s \in Submissions /\ jobs[s].state = "ABSENT" /\ rows[s] = NoRecord
  BY DEF Submissions, Init, Queue!Init, Queue!Absent, Queue!Fresh
<1> QED  BY <1>1, <1>2 DEF CalmAt, JobStory

\* Nobody works on a job that does not run.
LEMMA NobodyWorks ==
    ASSUME CalmInv, NEW s \in Queued, jobs[s].state # "RUNNING"
    PROVE  \A p \in Processes : ~AtWork(proc[p], s)
BY DEF CalmInv, CalmAt, RunOK

\* The step of one process concerns its submission only.
LEMMA CalmElsewhere ==
    ASSUME IInv, CalmInv, NEW p \in Processes, NEW a, Becomes(p, a), NEW t \in Queued,
           ~AtWork(proc[p], t), ~AtWork(a, t),
           jobs'[t] = jobs[t], rows'[t] = rows[t]
    PROVE  CalmAt(t)'
<1>1. /\ CalmAt(t)
      /\ \A q \in Processes : proc'[q] = IF q = p THEN a ELSE proc[q]
  BY DEF CalmInv, IInv, ThreadsOK, Becomes
<1>2. \A q \in Processes : AtWork(proc'[q], t) => proc'[q] = proc[q]
  BY <1>1
<1>3. \A q \in Processes : AtWork(proc[q], t) => proc'[q] = proc[q]
  BY <1>1
<1>4. \A q \in Processes : AtWork(proc'[q], t) => RunOK(q, proc[q], t)'
  BY <1>1, <1>2 DEF CalmAt, RunOK
<1>5. JobStory(t)'
  BY <1>1, <1>3 DEF CalmAt, JobStory
<1>6. \A q, r \in Processes : AtWork(proc'[q], t) /\ AtWork(proc'[r], t) => q = r
  BY <1>1, <1>2 DEF CalmAt
<1> QED  BY <1>4, <1>5, <1>6 DEF CalmAt, AtWork

\* The run of p on s goes on, or starts.
LEMMA CalmRun ==
    ASSUME IInv, CalmInv, NEW p \in Processes, NEW a, Becomes(p, a), NEW s \in Queued,
           AtWork(proc[p], s) \/ jobs[s].state # "RUNNING",
           AtWork(a, s), RunOK(p, a, s)'
    PROVE  CalmAt(s)'
<1>1. \A q \in Processes : proc'[q] = IF q = p THEN a ELSE proc[q]
  BY DEF IInv, ThreadsOK, Becomes
<1>2. \A q \in Processes : AtWork(proc'[q], s) <=> q = p
  BY <1>1, NobodyWorks DEF CalmInv, CalmAt
<1>3. \A q \in Processes : AtWork(proc'[q], s) => RunOK(q, proc[q], s)'
  BY <1>1, <1>2 DEF RunOK
<1>4. jobs'[s].state = "RUNNING"
  BY DEF RunOK
<1>5. JobStory(s)'
  BY <1>2, <1>4 DEF JobStory, AtWork
<1> QED  BY <1>2, <1>3, <1>5 DEF CalmAt, AtWork

\* p leaves s, or brings it, and nobody works on it.
LEMMA CalmRest ==
    ASSUME IInv, CalmInv, NEW p \in Processes, NEW a, Becomes(p, a), NEW s \in Queued,
           AtWork(proc[p], s) \/ jobs[s].state # "RUNNING",
           ~AtWork(a, s), JobStory(s)'
    PROVE  CalmAt(s)'
<1>1. \A q \in Processes : proc'[q] = IF q = p THEN a ELSE proc[q]
  BY DEF IInv, ThreadsOK, Becomes
<1>2. \A q \in Processes : ~AtWork(proc'[q], s)
  BY <1>1, NobodyWorks DEF CalmInv, CalmAt
<1> QED  BY <1>2 DEF CalmAt, AtWork

\* What a run on a queued submission may rely on.
LEMMA RunFacts ==
    ASSUME IInv, CalmInv, NEW p \in Processes,
           proc[p].doing \in {"running", "failing", "reporting"},
           NEW s \in Queued, s = proc[p].sub
    PROVE  /\ AtWork(proc[p], s) /\ RunOK(p, proc[p], s)
           /\ rows[s] \in Row /\ jobs[s] \in Queue!Job /\ proc[p] \in Activity
           /\ proc[p].seen # NoRecord => proc[p].seen = rows[s]
           /\ s \in Submissions
<1>1. AtWork(proc[p], s) /\ s \in Submissions
  BY DEF AtWork, Submissions
<1>2. RunOK(p, proc[p], s)
  BY <1>1 DEF CalmInv, CalmAt
<1>3. proc[p] \in Activity /\ jobs[s] \in Queue!Job
  BY <1>1, QueueInvFacts DEF IInv, ThreadsOK, ActivityOK, QueueFacts
<1> QED  BY <1>1, <1>2, <1>3 DEF RunOK

\* A step of p is about s alone.
LEMMA CalmStep ==
    ASSUME IInv, CalmInv, NEW p \in Processes, NEW a, Becomes(p, a),
           NEW s \in Submissions,
           \A t \in Submissions : AtWork(proc[p], t) \/ AtWork(a, t) => t = s,
           \A t \in Submissions \ {s} : jobs'[t] = jobs[t] /\ rows'[t] = rows[t],
           s \in Queued => CalmAt(s)'
    PROVE  CalmInv'
<1> SUFFICES ASSUME NEW t \in Queued, t # s PROVE CalmAt(t)'
  BY DEF CalmInv
<1>1. t \in Submissions
  BY DEF Submissions
<1> QED  BY <1>1, CalmElsewhere

\* p goes on with its run on s; the queue is left alone.
LEMMA CalmGoesOn ==
    ASSUME IInv, CalmInv, NEW p \in Processes,
           proc[p].doing \in {"running", "failing"}, UNCHANGED jobs,
           NEW s \in Submissions, s = proc[p].sub,
           NEW a, Becomes(p, a), a.sub = s,
           a.doing \in {"running", "failing", "reporting"},
           \A t \in Submissions \ {s} : rows'[t] = rows[t],
           s \in Queued => RunOK(p, a, s)'
    PROVE  CalmInv'
<1>1. AtWork(proc[p], s) /\ AtWork(a, s)
  BY DEF AtWork
<1>2. s \in Queued => CalmAt(s)'
  BY <1>1, CalmRun
<1>3. \A t \in Submissions : AtWork(proc[p], t) \/ AtWork(a, t) => t = s
  BY DEF AtWork
<1>4. \A t \in Submissions \ {s} : jobs'[t] = jobs[t] /\ rows'[t] = rows[t]
  OBVIOUS
<1> QED  BY <1>2, <1>3, <1>4, CalmStep

\* The same when the row is left alone too: only the run moves.
LEMMA CalmLooksOn ==
    ASSUME IInv, CalmInv, NEW p \in Processes,
           proc[p].doing \in {"running", "failing"}, UNCHANGED <<jobs, rows>>,
           NEW a, Becomes(p, a), a.sub = proc[p].sub, a.attempt = proc[p].attempt,
           a.doing \in {"running", "failing"},
           (a.doing = "running" /\ a.step = 14) <=>
              (proc[p].doing = "running" /\ proc[p].step = 14),
           a.seen \in {NoRecord, proc[p].seen, rows[proc[p].sub]}
    PROVE  CalmInv'
<1>1. PICK s \in Submissions : s = proc[p].sub
  BY BusyFacts
<1>2. ASSUME s \in Queued PROVE RunOK(p, a, s)'
  <2>1. RunOK(p, proc[p], s)
    BY <1>1, <1>2, RunFacts
  <2> QED  BY <1>1, <2>1 DEF RunOK
<1> QED  BY <1>1, <1>2, CalmGoesOn

LEMMA FailingFacts ==
    ASSUME NEW p, proc[p] \in Activity, NEW kind
    PROVE  /\ Failing(p, kind).doing = "failing" /\ Failing(p, kind).seen = NoRecord
           /\ Failing(p, kind).sub = proc[p].sub
           /\ Failing(p, kind).attempt = proc[p].attempt
<1>1. PICK a : a = Failing(p, kind)
  OBVIOUS
<1>2. /\ a.doing = "failing" /\ a.seen = NoRecord
      /\ a.sub = proc[p].sub /\ a.attempt = proc[p].attempt
  BY <1>1 DEF Activity, Failing
<1> QED  BY <1>1, <1>2

\* A process in front of a step of the plan: it is not done.
LEMMA AtFacts ==
    ASSUME IInv, NEW p \in Processes, Running(p)
    PROVE  /\ proc[p].doing = "running" /\ proc[p].step \in 1 .. 13
           /\ proc[p] \in Activity
BY BusyFacts, PlanShape DEF Running, Activity

LEMMA CalmReadStage ==
    ASSUME IInv, CalmInv, NEW p \in Processes, ReadStage(p)
    PROVE  CalmInv'
<1>1. /\ proc[p].doing = "running" /\ proc[p].step \in 1 .. 13
      /\ proc[p] \in Activity /\ UNCHANGED <<jobs, rows>>
  BY AtFacts DEF ReadStage, At, queueVars
<1>2. CASE Becomes(p, [proc[p] EXCEPT !.seen = rows[proc[p].sub]])
  <2>1. PICK a : a = [proc[p] EXCEPT !.seen = rows[proc[p].sub]]
    OBVIOUS
  <2>2. /\ a.doing = "running" /\ a.step = proc[p].step /\ a.seen = rows[proc[p].sub]
        /\ a.sub = proc[p].sub /\ a.attempt = proc[p].attempt
    BY <1>1, <2>1 DEF Activity
  <2> QED  BY <1>1, <1>2, <2>1, <2>2, CalmLooksOn
<1>3. CASE Becomes(p, Failing(p, "permanent"))
  BY <1>1, <1>3, FailingFacts, CalmLooksOn
<1> QED  BY <1>2, <1>3 DEF ReadStage

LEMMA CalmRaise ==
    ASSUME IInv, CalmInv, NEW p \in Processes, NEW kind \in Failures, Raise(p, kind)
    PROVE  CalmInv'
<1>1. /\ proc[p].doing = "running" /\ proc[p].step \in 1 .. 13
      /\ proc[p] \in Activity /\ UNCHANGED <<jobs, rows>>
      /\ Becomes(p, Failing(p, kind))
  BY AtFacts DEF Raise, At, queueVars
<1> QED  BY <1>1, FailingFacts, CalmLooksOn

LEMMA CalmReadFailed ==
    ASSUME IInv, CalmInv, NEW p \in Processes, ReadFailed(p)
    PROVE  CalmInv'
<1>1. /\ proc[p].doing = "failing" /\ proc[p] \in Activity
      /\ UNCHANGED <<jobs, rows>>
  BY BusyFacts DEF ReadFailed, queueVars
<1>2. PICK a : a = [proc[p] EXCEPT !.seen = rows[proc[p].sub]]
  OBVIOUS
<1>3. /\ a.doing = "failing" /\ a.seen = rows[proc[p].sub]
      /\ a.sub = proc[p].sub /\ a.attempt = proc[p].attempt
  BY <1>1, <1>2 DEF Activity
<1>4. Becomes(p, a)
  BY <1>2 DEF ReadFailed
<1> QED  BY <1>1, <1>3, <1>4, CalmLooksOn

LEMMA CalmPersist ==
    ASSUME IInv, CalmInv, NEW p \in Processes, Persist(p)
    PROVE  CalmInv'
<1>1. /\ proc[p].doing = "running" /\ proc[p].step \in 1 .. 13
      /\ proc[p] \in Activity /\ UNCHANGED <<jobs, rows>>
      /\ Plan[proc[p].step] \in Outputs
  BY AtFacts DEF Persist, At, queueVars
<1>2. PICK a : a = [proc[p] EXCEPT !.step = @ + 1]
  OBVIOUS
<1>3. /\ a.doing = "running" /\ a.step = proc[p].step + 1 /\ a.seen = proc[p].seen
      /\ a.sub = proc[p].sub /\ a.attempt = proc[p].attempt
  BY <1>1, <1>2 DEF Activity
<1>4. Becomes(p, a)
  BY <1>2 DEF Persist
<1>5. proc[p].step # 13
  BY <1>1, PlanShape DEF Outputs
<1> QED  BY <1>1, <1>3, <1>4, <1>5, CalmLooksOn

LEMMA CalmWriteStage ==
    ASSUME IInv, CalmInv, NEW p \in Processes, WriteStage(p)
    PROVE  CalmInv'
<1>1. /\ proc[p].doing = "running" /\ proc[p].step \in 1 .. 13
      /\ proc[p] \in Activity /\ UNCHANGED jobs
      /\ Plan[proc[p].step] \in ProcessingStage /\ proc[p].seen # NoRecord
  BY AtFacts DEF WriteStage, At, queueVars
<1>2. PICK s \in Submissions, k \in 1 .. 13 : s = proc[p].sub /\ k = proc[p].step
  BY <1>1, BusyFacts
<1>3. PICK row : row = Advanced(proc[p].seen, Plan[k])
  OBVIOUS
<1>4. PICK a : a = [proc[p] EXCEPT !.seen = NoRecord, !.step = @ + 1]
  OBVIOUS
<1>5. /\ a.doing = "running" /\ a.sub = s /\ a.step = k + 1
      /\ a.seen = NoRecord /\ a.attempt = proc[p].attempt
  BY <1>1, <1>2, <1>4, NextStepOK
<1>6. Becomes(p, a) /\ rows' = [rows EXCEPT ![s] = row]
  BY <1>2, <1>3, <1>4 DEF WriteStage
<1>7. ASSUME s \in Queued PROVE RunOK(p, a, s)'
  <2>1. /\ RunOK(p, proc[p], s) /\ rows[s] \in Row /\ proc[p].seen = rows[s]
        /\ Grounded(rows[s], s) /\ Produced(k) \subseteq outputs[s]
    BY <1>1, <1>2, <1>7, RunFacts, BusyFacts DEF ActivityOK
  <2>2. row \in Row /\ row.attempt_count = rows[s].attempt_count
    BY <1>1, <1>2, <1>3, <2>1, AdvancedOK
  <2>3. row.stage = Plan[k]
    BY <1>3, <2>1 DEF Advanced, Row
  <2>4. Plan[k] = "COMPLETE" <=> k = 13
    <3>1. k \in {1, 2, 3, 4, 5, 6, 7, 8, 9, 10, 11, 12, 13}
      OBVIOUS
    <3> QED  BY <3>1, PlanShape
  <2>5. rows'[s] = row
    BY <1>6 DEF IInv
  <2>6. k + 1 = 14 <=> k = 13
    OBVIOUS
  <2> QED  BY <1>1, <1>5, <2>1, <2>2, <2>3, <2>4, <2>5, <2>6 DEF RunOK
<1>8. \A t \in Submissions \ {s} : rows'[t] = rows[t]
  BY <1>6 DEF IInv
<1> QED  BY <1>1, <1>2, <1>5, <1>6, <1>7, <1>8, CalmGoesOn

LEMMA CalmWriteFailed ==
    ASSUME IInv, CalmInv, NEW p \in Processes, WriteFailed(p)
    PROVE  CalmInv'
<1>1. /\ proc[p].doing = "failing" /\ proc[p] \in Activity /\ UNCHANGED jobs
      /\ proc[p].seen # NoRecord
  BY BusyFacts DEF WriteFailed, queueVars
<1>2. PICK s \in Submissions : s = proc[p].sub
  BY <1>1, BusyFacts
<1>3. PICK row : row = FailedRow(proc[p].seen)
  OBVIOUS
<1>4. PICK a : a = [proc[p] EXCEPT !.doing = "reporting", !.seen = NoRecord]
  OBVIOUS
<1>5. /\ a.doing = "reporting" /\ a.sub = s
      /\ a.seen = NoRecord /\ a.attempt = proc[p].attempt
  BY <1>1, <1>2, <1>4 DEF Activity
<1>6. Becomes(p, a) /\ rows' = [rows EXCEPT ![s] = row]
  BY <1>2, <1>3, <1>4 DEF WriteFailed
<1>7. ASSUME s \in Queued PROVE RunOK(p, a, s)'
  <2>1. /\ RunOK(p, proc[p], s) /\ rows[s] \in Row /\ proc[p].seen = rows[s]
    BY <1>1, <1>2, <1>7, RunFacts
  <2>2. /\ row \in Row /\ row.attempt_count = rows[s].attempt_count + 1
        /\ row.stage = "FAILED"
    BY <1>3, <2>1, FailedRowOK
  <2>3. rows'[s] = row
    BY <1>6 DEF IInv
  <2>4. rows[s].attempt_count \in Nat
    BY <2>1 DEF Row
  <2> QED  BY <1>1, <1>5, <2>1, <2>2, <2>3, <2>4 DEF RunOK
<1>8. \A t \in Submissions \ {s} : rows'[t] = rows[t]
  BY <1>6 DEF IInv
<1> QED  BY <1>1, <1>2, <1>5, <1>6, <1>7, <1>8, CalmGoesOn

LEMMA CalmEnqueueSubmission ==
    ASSUME IInv, CalmInv, NEW c \in Clients, NEW s \in Queued, EnqueueSubmission(c, s)
    PROVE  CalmInv'
<1>1. /\ c \in Processes /\ s \in Submissions /\ proc[c] = Idle
      /\ jobs[s].state = "ABSENT" /\ UNCHANGED jobs
  BY DEF Processes, Submissions, EnqueueSubmission, queueVars
<1>2. PICK a : a = Submitting(s)
  OBVIOUS
<1>3. Becomes(c, a) /\ a.doing = "submitting"
  BY <1>1, <1>2, SubmittingOK DEF EnqueueSubmission, Submitting
<1>4. \A t \in Submissions : ~AtWork(proc[c], t) /\ ~AtWork(a, t)
  BY <1>1, <1>3, IdleFacts DEF AtWork
<1>5. JobStory(s) /\ rows'[s] \in {rows[s], Ingested}
  BY <1>1 DEF CalmInv, CalmAt, EnqueueSubmission, IInv
<1>6. JobStory(s)'
  BY <1>1, <1>5 DEF JobStory
<1>7. CalmAt(s)'
  BY <1>1, <1>3, <1>4, <1>6, CalmRest
<1>8. \A t \in Submissions \ {s} : jobs'[t] = jobs[t] /\ rows'[t] = rows[t]
  BY <1>1 DEF EnqueueSubmission, IInv
<1> QED  BY <1>1, <1>3, <1>4, <1>7, <1>8, CalmStep

LEMMA CalmEnqueueStageJob ==
    ASSUME IInv, CalmInv, NEW c \in Clients, EnqueueStageJob(c)
    PROVE  CalmInv'
<1>1. /\ c \in Processes /\ proc[c].doing = "submitting" /\ Becomes(c, Idle)
      /\ UNCHANGED rows
  BY DEF Processes, EnqueueStageJob
<1>2. PICK s \in Submissions : s = proc[c].sub /\ rows[s] # NoRecord
  BY <1>1, BusyFacts, RowsShape
<1>3. \A t \in Submissions : ~AtWork(proc[c], t) /\ ~AtWork(Idle, t)
  BY <1>1, IdleFacts DEF AtWork
<1>4. CASE Queue!Enqueue(s, s)
  <2>1. QueueStep
    BY <1>4 DEF QueueStep
  <2>2. /\ \A q \in Submissions \ {s} : jobs'[q] = jobs[q]
        /\ jobs[s].state = "ABSENT" /\ jobs'[s].state = "PENDING"
        /\ jobs'[s].attempt_count = jobs[s].attempt_count
        /\ jobs[s].attempt_count = 0
    BY <1>4, <2>1, QueueFactsNext, EnqueueEffect DEF Unleased, QueueFacts
  <2>3. ASSUME s \in Queued PROVE CalmAt(s)'
    <3>1. JobStory(s)'
      BY <1>1, <1>2, <2>2, <2>3 DEF CalmInv, CalmAt, JobStory
    <3> QED  BY <1>1, <1>3, <2>2, <2>3, <3>1, CalmRest
  <2>4. \A t \in Submissions \ {s} : jobs'[t] = jobs[t] /\ rows'[t] = rows[t]
    BY <1>1, <2>2
  <2> QED  BY <1>1, <1>3, <2>3, <2>4, CalmStep
<1>5. CASE UNCHANGED queueVars
  <2>1. \A t \in Submissions : jobs'[t] = jobs[t] /\ rows'[t] = rows[t]
    BY <1>1, <1>5 DEF queueVars
  <2>2. s \in Queued => CalmAt(s)'
    BY <1>1, <1>2, <1>3, <2>1, CalmElsewhere
  <2> QED  BY <1>1, <1>3, <2>1, <2>2, CalmStep
<1> QED  BY <1>2, <1>4, <1>5 DEF EnqueueStageJob

LEMMA CalmProcessBid ==
    ASSUME CalmAssumption, IInv, CalmInv, NEW c \in Clients, NEW s \in Direct,
           ProcessBid(c, s)
    PROVE  CalmInv'
<1>1. /\ c \in Processes /\ s \in Submissions /\ s \notin Queued /\ proc[c] = Idle
      /\ UNCHANGED jobs
  BY DEF CalmAssumption, Processes, Submissions, ProcessBid, queueVars
<1>2. PICK a : a = Started(s, 0)
  OBVIOUS
<1>3. Becomes(c, a) /\ a.sub = s
  BY <1>1, <1>2, StartedOK DEF ProcessBid
<1>4. \A t \in Submissions : AtWork(proc[c], t) \/ AtWork(a, t) => t = s
  BY <1>1, <1>3, IdleFacts DEF AtWork
<1>5. \A t \in Submissions \ {s} : jobs'[t] = jobs[t] /\ rows'[t] = rows[t]
  BY <1>1 DEF ProcessBid, IInv
<1> QED  BY <1>1, <1>3, <1>4, <1>5, CalmStep

LEMMA CalmClaimJob ==
    ASSUME CalmAssumption, IInv, CalmInv, NEW p \in WorkerProcs, ClaimJob(p)
    PROVE  CalmInv'
<1>1. p \in Processes /\ WorkerId[p] \in WorkerIds /\ proc[p] = Idle /\ UNCHANGED rows
  BY SubmissionAssumption DEF Processes, ClaimJob
<1>2. QueueStep
  BY <1>1 DEF ClaimJob, QueueStep
<1>3. PICK s \in Submissions :
        /\ \A q \in Submissions \ {s} : jobs'[q] = jobs[q]
        /\ jobs[s].state \in Queue!Waiting
        /\ jobs'[s].state = "RUNNING" /\ jobs'[s].leased_by = WorkerId[p]
        /\ jobs'[s].lease = LeaseSeconds
        /\ jobs'[s].attempt_count = jobs[s].attempt_count + 1
  BY <1>1, <1>2, QueueFactsNext, ClaimEffect DEF ClaimJob
<1>4. Becomes(p, Started(s, jobs'[s].attempt_count))
  BY <1>3 DEF ClaimJob
<1>5. PICK n \in Nat : n = jobs'[s].attempt_count
  BY <1>2, <1>3, QueueFactsNext
<1>6. PICK a : a = Started(s, n)
  OBVIOUS
<1>7. /\ Becomes(p, a) /\ a.doing = "running" /\ a.sub = s
      /\ a.seen = NoRecord /\ a.attempt = n
  <2>1. Becomes(p, a)
    BY <1>4, <1>5, <1>6
  <2> QED  BY <1>6, <2>1, StartedOK
<1>8. a.step = 1
  BY <1>6 DEF Started, Idle
<1>9. ASSUME s \in Queued PROVE CalmAt(s)'
  <2>1. JobStory(s) /\ jobs[s].attempt_count \in Nat
    BY <1>2, <1>9, QueueFactsNext DEF CalmInv, CalmAt
  <2>2. rows[s] \in Row
    BY <1>3 DEF IInv, JobsHaveRows
  <2>3. rows[s].stage # "COMPLETE" /\ jobs[s].attempt_count = rows[s].attempt_count
    BY <1>3, <2>1 DEF JobStory, Ingested
  <2>4. LeaseSeconds \in Nat \ {0}
    BY QueueAssumption DEF QueueProofs!JobQueueAssumption, CalmAssumption
  <2>5. RunOK(p, a, s)'
    BY <1>1, <1>3, <1>5, <1>7, <1>8, <2>1, <2>2, <2>3, <2>4 DEF RunOK
  <2>6. AtWork(a, s)
    BY <1>7 DEF AtWork
  <2> QED  BY <1>1, <1>3, <1>7, <1>9, <2>5, <2>6, CalmRun
<1>10. \A t \in Submissions : AtWork(proc[p], t) \/ AtWork(a, t) => t = s
  BY <1>1, <1>7, IdleFacts DEF AtWork
<1>11. \A t \in Submissions \ {s} : jobs'[t] = jobs[t] /\ rows'[t] = rows[t]
  BY <1>1, <1>3
<1> QED  BY <1>1, <1>7, <1>9, <1>10, <1>11, CalmStep

\* The run of p is over: what is left of s is its job and its row.
LEMMA CalmEnds ==
    ASSUME IInv, CalmInv, NEW p \in Processes, Becomes(p, Idle),
           NEW s \in Submissions, s = proc[p].sub, UNCHANGED rows,
           \A t \in Submissions \ {s} : jobs'[t] = jobs[t],
           s \in Queued => AtWork(proc[p], s) /\ JobStory(s)'
    PROVE  CalmInv'
<1>1. \A t \in Submissions : ~AtWork(Idle, t)
  BY IdleFacts DEF AtWork
<1>2. s \in Queued => CalmAt(s)'
  BY <1>1, CalmRest
<1>3. \A t \in Submissions : AtWork(proc[p], t) \/ AtWork(Idle, t) => t = s
  BY <1>1 DEF AtWork
<1>4. \A t \in Submissions \ {s} : jobs'[t] = jobs[t] /\ rows'[t] = rows[t]
  OBVIOUS
<1> QED  BY <1>2, <1>3, <1>4, CalmStep

LEMMA CalmFinish ==
    ASSUME IInv, CalmInv, NEW p \in Processes, Finish(p)
    PROVE  CalmInv'
<1>1. /\ proc[p].doing = "running" /\ proc[p].step = 14 /\ proc[p] \in Activity
      /\ Becomes(p, Idle) /\ UNCHANGED rows
  BY BusyFacts, PlanShape DEF Finish, Activity
<1>2. PICK s \in Submissions : s = proc[p].sub
  BY <1>1, BusyFacts
<1>3. proc[p].attempt > 0 => WorkerId[p] \in WorkerIds
  BY <1>1, BusyFacts, SubmissionAssumption DEF ActivityOK
<1>4. CASE proc[p].attempt > 0 /\ Queue!Ack(s, WorkerId[p])
  <2>1. QueueStep
    BY <1>3, <1>4 DEF QueueStep
  <2>2. /\ \A q \in Submissions \ {s} : jobs'[q] = jobs[q]
        /\ jobs'[s].state = "SUCCEEDED" /\ jobs'[s].attempt_count = jobs[s].attempt_count
    BY <1>3, <1>4, <2>1, QueueFactsNext, AckEffect DEF Unleased
  <2>3. ASSUME s \in Queued PROVE AtWork(proc[p], s) /\ JobStory(s)'
    <3>1. AtWork(proc[p], s) /\ RunOK(p, proc[p], s)
      BY <1>1, <1>2, <2>3, RunFacts
    <3> QED  BY <1>1, <2>2, <3>1 DEF RunOK, JobStory
  <2> QED  BY <1>1, <1>2, <2>2, <2>3, CalmEnds
<1>5. CASE /\ ~(proc[p].attempt > 0 /\ Queue!HoldsLease(s, WorkerId[p]))
           /\ UNCHANGED queueVars
  <2>1. s \notin Queued
    <3> SUFFICES ASSUME s \in Queued PROVE FALSE
      OBVIOUS
    <3>1. RunOK(p, proc[p], s)
      BY <1>1, <1>2, RunFacts
    <3> QED  BY <1>5, <3>1 DEF RunOK, Queue!HoldsLease
  <2>2. jobs' = jobs
    BY <1>5 DEF queueVars
  <2> QED  BY <1>1, <1>2, <2>1, <2>2, CalmEnds
<1> QED  BY <1>2, <1>4, <1>5 DEF Finish

LEMMA CalmReportFailure ==
    ASSUME IInv, CalmInv, NEW p \in Processes, ReportFailure(p)
    PROVE  CalmInv'
<1> DEFINE retryable == proc[p].error = "retryable" /\ proc[p].attempt < MaxAttempts
           delay == IF retryable THEN Delay(proc[p].attempt) ELSE 0
<1>1. /\ proc[p].doing = "reporting" /\ proc[p].attempt \in Nat
      /\ Becomes(p, Idle) /\ UNCHANGED rows
  BY BusyFacts DEF ReportFailure, Activity
<1>2. PICK s \in Submissions, r \in BOOLEAN, d \in 0 .. MaxDelay :
        s = proc[p].sub /\ r = retryable /\ d = delay
  <2>1. delay \in 0 .. MaxDelay
    BY <1>1, DelayOK, QueueAssumption DEF QueueProofs!JobQueueAssumption
  <2> QED  BY <1>1, <2>1, BusyFacts
<1>3. proc[p].attempt > 0 => WorkerId[p] \in WorkerIds
  BY <1>1, BusyFacts, SubmissionAssumption DEF ActivityOK
<1> HIDE DEF retryable, delay
<1>4. CASE proc[p].attempt > 0 /\ Queue!Fail(s, WorkerId[p], r, d)
  <2>1. QueueStep
    BY <1>3, <1>4 DEF QueueStep
  <2>2. /\ \A q \in Submissions \ {s} : jobs'[q] = jobs[q]
        /\ jobs'[s].state \in {"RETRYABLE", "FAILED"}
        /\ jobs'[s].attempt_count = jobs[s].attempt_count
    BY <1>3, <1>4, <2>1, QueueFactsNext, FailEffect DEF Unleased
  <2>3. ASSUME s \in Queued PROVE AtWork(proc[p], s) /\ JobStory(s)'
    <3>1. AtWork(proc[p], s) /\ RunOK(p, proc[p], s) /\ rows[s].attempt_count \in Nat
      BY <1>1, <1>2, <2>3, RunFacts DEF Row
    <3> QED  BY <1>1, <2>2, <3>1 DEF RunOK, JobStory
  <2> QED  BY <1>1, <1>2, <2>2, <2>3, CalmEnds
<1>5. CASE /\ ~(proc[p].attempt > 0 /\ Queue!HoldsLease(s, WorkerId[p]))
           /\ UNCHANGED queueVars
  <2>1. s \notin Queued
    <3> SUFFICES ASSUME s \in Queued PROVE FALSE
      OBVIOUS
    <3>1. RunOK(p, proc[p], s)
      BY <1>1, <1>2, RunFacts
    <3> QED  BY <1>5, <3>1 DEF RunOK, Queue!HoldsLease
  <2>2. jobs' = jobs
    BY <1>5 DEF queueVars
  <2> QED  BY <1>1, <1>2, <2>1, <2>2, CalmEnds
<1> QED  BY <1>2, <1>4, <1>5 DEF ReportFailure, retryable, delay

\* No queued job runs while all workers rest, and the sweep finds none of them
\* stale.
LEMMA CalmAside ==
    ASSUME IInv, CalmInv, UNCHANGED <<rows, proc>>,
           \A s \in Queued :
              \/ jobs'[s] = jobs[s]
              \/ SameFor(s) /\ jobs[s].state # "RUNNING"
    PROVE  CalmInv'
<1> SUFFICES ASSUME NEW s \in Queued PROVE CalmAt(s)'
  BY DEF CalmInv
<1>1. CalmAt(s)
  BY DEF CalmInv
<1>2. CASE jobs'[s] = jobs[s]
  BY <1>1, <1>2 DEF CalmAt, JobStory, AtWork, RunOK
<1>3. CASE SameFor(s) /\ jobs[s].state # "RUNNING"
  <2>1. \A p \in Processes : ~AtWork(proc[p], s)
    BY <1>3, NobodyWorks
  <2> QED  BY <1>1, <1>3, <2>1 DEF CalmAt, JobStory, AtWork, SameFor
<1> QED  BY <1>2, <1>3

LEMMA CalmTick ==
    ASSUME faults = {}, IInv, CalmInv, Tick
    PROVE  CalmInv'
<1>1. QueueStep /\ \A p \in WorkerProcs : proc[p] = Idle
  BY DEF Tick, QueueStep
<1>2. ASSUME NEW s \in Queued PROVE SameFor(s) /\ jobs[s].state # "RUNNING"
  <2>1. s \in Submissions
    BY DEF Submissions
  <2>2. SameFor(s)
    BY <1>1, <2>1, QueueFactsNext, TickEffect DEF Tick
  <2>3. jobs[s].state # "RUNNING"
    BY <1>1, IdleFacts DEF CalmInv, CalmAt, JobStory, RunOK, AtWork
  <2> QED  BY <2>2, <2>3
<1> QED  BY <1>2, CalmAside DEF Tick

LEMMA CalmRecoverStale ==
    ASSUME IInv, CalmInv, RecoverStale
    PROVE  CalmInv'
<1>1. ASSUME NEW s \in Queued PROVE jobs'[s] = jobs[s]
  <2>1. s \in Submissions
    BY DEF Submissions
  <2>2. ~Queue!Stale(jobs[s])
    BY DEF CalmInv, CalmAt, JobStory, RunOK, Queue!Stale
  <2> QED  BY <2>1, <2>2 DEF RecoverStale, Queue!RecoverStale
<1> QED  BY <1>1, CalmAside DEF RecoverStale

LEMMA CalmNext ==
    ASSUME CalmAssumption, faults = {}, IInv, CalmInv, [Next]_vars
    PROVE  CalmInv'
<1>1. CASE \E c \in Clients : Submit(c)
  BY <1>1, CalmEnqueueSubmission, CalmProcessBid DEF Submit
<1>2. CASE \E c \in Clients : EnqueueStageJob(c)
  BY <1>2, CalmEnqueueStageJob
<1>3. CASE \E p \in WorkerProcs : ClaimJob(p)
  BY <1>3, CalmClaimJob
<1>4. CASE \E p \in Processes : Step(p)
  BY <1>4, CalmReadStage, CalmWriteStage, CalmPersist, CalmReadFailed,
     CalmWriteFailed, CalmReportFailure, CalmFinish DEF Step
<1>5. CASE \E p \in Processes, kind \in Failures : Raise(p, kind)
  BY <1>5, CalmRaise
<1>6. ~Disturb
  BY DEF Disturb, SwallowFailure, Crash
<1>7. CASE RecoverStale
  BY <1>7, CalmRecoverStale
<1>8. CASE Tick
  BY <1>8, CalmTick
<1>9. CASE UNCHANGED vars
  BY <1>9, CalmAside DEF vars
<1> QED  BY <1>1, <1>2, <1>3, <1>4, <1>5, <1>6, <1>7, <1>8, <1>9 DEF Next, Work

\* Where no run is disturbed and each submission has one entry point, the row
\* and the job of a submission tell the same story: the worker writes the row
\* first and the queue second, a retry finds the row FAILED with every attempt
\* counted, and only a job that succeeded or is about to has a COMPLETE row.
THEOREM RowAndJobAgree == CalmAssumption => (Spec => []JobAndRowAgree)
<1> SUFFICES ASSUME CalmAssumption PROVE Spec => []JobAndRowAgree
  OBVIOUS
<1> DEFINE Calm == faults = {} => CalmInv
<1>1. Init => Calm
  BY InitCalm
<1>2. IInv /\ Calm /\ [Next]_vars => Calm'
  <2>1. [Next]_vars => faults' = faults
    BY DEF Next, vars
  <2> QED  BY <2>1, CalmNext
<1>3. IInv /\ Calm => JobAndRowAgree
  BY CalmAgrees DEF JobAndRowAgree
<1> QED  BY <1>1, <1>2, <1>3, Invariant, PTL DEF Spec
===============================================================================
