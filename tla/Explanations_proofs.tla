------------------------- MODULE Explanations_proofs --------------------------
(***************************************************************************)
(* Proofs about the explanation pipeline for any number of requests, flag  *)
(* states, callers, workers, sweepers and publishers.  What the queue does *)
(* is taken from the theorems of JobQueue_proofs.                          *)
(***************************************************************************)
EXTENDS Explanations, SequenceTheorems, FiniteSetTheorems, TLAPS

QueueProofs == INSTANCE JobQueue_proofs WITH
    Jobs <- Requests, Keys <- Requests, MaxDelay <- RetryDelay

-------------------------------------------------------------------------------
(* The queue inside the pipeline.                                           *)

\* A step of the queue that somebody in the pipeline takes, or none.
QueueStep ==
    \/ \E r \in Requests : Queue!Enqueue(r, r)
    \/ \E w \in Workers : Queue!Claim(w)
    \/ \E r \in Requests, w \in Workers : Queue!Ack(r, w)
    \/ \E r \in Requests, w \in Workers : Queue!Fail(r, w, TRUE, RetryDelay)
    \/ Queue!RecoverStale
    \/ Queue!Tick
    \/ UNCHANGED queueVars

\* What the proofs below need to know of the queue.
QueueFacts ==
    /\ jobs \in [Requests -> Queue!Job]
    /\ pending \in Seq(Requests)
    /\ byKey \in [Requests -> Requests \cup {NoJob}]
    /\ \A i \in DOMAIN pending :
          jobs[pending[i]].state \in Queue!Waiting \cup {"CANCELLED"}
    /\ \A r, k \in Requests :
          byKey[k] = r <=> jobs[r].state # "ABSENT" /\ jobs[r].key = k
    /\ \A r \in Requests : jobs[r].state = "ABSENT" => jobs[r].attempt_count = 0

USE DEF Queue!JobState, Queue!Waiting, Queue!TERMINAL_STATES

LEMMA QueueAssumption == QueueProofs!JobQueueAssumption
BY ExplanationsAssumption DEF Queue!JobQueueAssumption, QueueProofs!JobQueueAssumption,
   IsFiniteSet, Queue!IsFiniteSet, QueueProofs!IsFiniteSet

LEMMA QueueTypes == QueueProofs!TypeOK <=> Queue!TypeOK
BY DEF QueueProofs!TypeOK, QueueProofs!Job, QueueProofs!JobState, QueueProofs!Waiting,
   QueueProofs!TERMINAL_STATES, Queue!TypeOK, Queue!Job

LEMMA QueueInvFacts == QueueProofs!IInv => QueueFacts
BY QueueTypes DEF QueueProofs!IInv, QueueProofs!PendingIsExact, QueueProofs!KeysAreUnique,
   QueueProofs!AbsentIsBlank, QueueProofs!Waiting, QueueFacts, Queue!TypeOK

LEMMA QueueInit == Queue!Init => QueueProofs!IInv
<1>1. Queue!Init => QueueProofs!Init
  BY DEF Queue!Init, Queue!Absent, Queue!Fresh,
     QueueProofs!Init, QueueProofs!Absent, QueueProofs!Fresh
<1>2. QueueProofs!Init => QueueProofs!IInv
  BY QueueAssumption, QueueProofs!InitIInv
<1> QED  BY <1>1, <1>2

\* A step of the pipeline takes the queue from one of its states to another.
LEMMA QueueInv == QueueProofs!IInv /\ QueueStep => QueueProofs!IInv'
<1> SUFFICES ASSUME QueueProofs!IInv, QueueStep
             PROVE  QueueProofs!IInv'
  OBVIOUS
<1>0. QueueProofs!IInv /\ [QueueProofs!Next]_(QueueProofs!vars) => QueueProofs!IInv'
  BY QueueAssumption, QueueProofs!NextIInv, Zenon
<1>1. CASE \E r \in Requests : Queue!Enqueue(r, r)
  <2>1. PICK r \in Requests : Queue!Enqueue(r, r)
    BY <1>1
  <2>2. QueueProofs!Enqueue(r, r)
    BY <2>1 DEF Queue!Enqueue, Queue!Fresh, QueueProofs!Enqueue, QueueProofs!Fresh
  <2> QED  BY <1>0, <2>2 DEF QueueProofs!Next
<1>2. CASE \E w \in Workers : Queue!Claim(w)
  <2>1. PICK w \in Workers : Queue!Claim(w)
    BY <1>2
  <2>2. QueueProofs!Claim(w)
    BY <2>1, Zenon DEF Queue!Claim, Queue!Claimable, Queue!Leased, Queue!RotatePast,
       QueueProofs!Claim, QueueProofs!Claimable, QueueProofs!Leased, QueueProofs!RotatePast
  <2> QED  BY <1>0, <2>2 DEF QueueProofs!Next
<1>3. CASE \E r \in Requests, w \in Workers : Queue!Ack(r, w)
  <2>1. PICK r \in Requests, w \in Workers : Queue!Ack(r, w)
    BY <1>3
  <2>2. QueueProofs!Ack(r, w)
    BY <2>1 DEF Queue!Ack, Queue!HoldsLease, Queue!Released,
       QueueProofs!Ack, QueueProofs!HoldsLease, QueueProofs!Released
  <2> QED  BY <1>0, <2>2 DEF QueueProofs!Next
<1>4. CASE \E r \in Requests, w \in Workers : Queue!Fail(r, w, TRUE, RetryDelay)
  <2>1. PICK r \in Requests, w \in Workers : Queue!Fail(r, w, TRUE, RetryDelay)
    BY <1>4
  <2>2. QueueProofs!Fail(r, w, TRUE, RetryDelay)
    BY <2>1 DEF Queue!Fail, Queue!HoldsLease, Queue!Released,
       QueueProofs!Fail, QueueProofs!HoldsLease, QueueProofs!Released
  <2>3. RetryDelay \in 0 .. RetryDelay
    BY QueueAssumption DEF QueueProofs!JobQueueAssumption
  <2> QED  BY <1>0, <2>2, <2>3 DEF QueueProofs!Next
<1>5. CASE Queue!RecoverStale
  <2>1. Queue!Requeued = QueueProofs!Requeued
    BY DEF Queue!Requeued, Queue!Stale, QueueProofs!Requeued, QueueProofs!Stale
  <2>2. \A S : Queue!SetToSeqs(S) = QueueProofs!SetToSeqs(S)
    BY Zenon DEF Queue!SetToSeqs, QueueProofs!SetToSeqs,
       Queue!Cardinality, QueueProofs!Cardinality
  <2>3. \A job : /\ Queue!Stale(job) <=> QueueProofs!Stale(job)
                /\ Queue!Recovered(job) = QueueProofs!Recovered(job)
    BY DEF Queue!Stale, Queue!Recovered, Queue!Released,
       QueueProofs!Stale, QueueProofs!Recovered, QueueProofs!Released
  <2>4. QueueProofs!RecoverStale
    BY <1>5, <2>1, <2>2, <2>3 DEF Queue!RecoverStale, QueueProofs!RecoverStale
  <2> QED  BY <1>0, <2>4 DEF QueueProofs!Next
<1>6. CASE Queue!Tick
  <2>1. QueueProofs!Tick
    BY <1>6 DEF Queue!Tick, Queue!Older, QueueProofs!Tick, QueueProofs!Older
  <2> QED  BY <1>0, <2>1 DEF QueueProofs!Next
<1>7. CASE UNCHANGED queueVars
  BY <1>0, <1>7 DEF queueVars, QueueProofs!vars
<1> QED  BY <1>1, <1>2, <1>3, <1>4, <1>5, <1>6, <1>7 DEF QueueStep

-------------------------------------------------------------------------------
(* What a step of the queue does to its jobs.                               *)

\* No attempt is taken back and no end is revoked.
Evolves(old, new) ==
    /\ old.attempt_count <= new.attempt_count
    /\ old.state \in Queue!TERMINAL_STATES => new.state = old.state

JobsEvolve == \A r \in Requests : Evolves(jobs[r], jobs'[r])

NoneSucceeds ==
    \A r \in Requests : jobs'[r].state = "SUCCEEDED" => jobs[r].state = "SUCCEEDED"

ChangedIsKnown ==
    \A r \in Requests : jobs'[r] # jobs[r] => jobs'[r].state # "ABSENT"

LEMMA EnqueueEffect ==
    ASSUME QueueFacts, NEW r \in Requests, Queue!Enqueue(r, r)
    PROVE  JobsEvolve /\ NoneSucceeds /\ jobs'[r].state = "PENDING"
<1>1. \A q \in Requests : q # r => jobs'[q] = jobs[q]
  BY DEF QueueFacts, Queue!Enqueue
<1>2. /\ jobs[r].attempt_count = 0 /\ jobs[r].state = "ABSENT"
      /\ jobs'[r].attempt_count = 0 /\ jobs'[r].state = "PENDING"
  BY DEF QueueFacts, Queue!Enqueue, Queue!Fresh
<1>3. \A q \in Requests : jobs[q].attempt_count \in Nat
  BY DEF QueueFacts, Queue!Job
<1> QED  BY <1>1, <1>2, <1>3 DEF JobsEvolve, NoneSucceeds, Evolves

LEMMA ClaimEffect ==
    ASSUME QueueFacts, NEW w \in Workers, Queue!Claim(w)
    PROVE  /\ JobsEvolve /\ NoneSucceeds /\ ChangedIsKnown
           /\ \E r \in Requests : jobs'[r] # jobs[r]
<1>1. PICK i \in DOMAIN pending :
        /\ Queue!Claimable(jobs[pending[i]])
        /\ jobs' = [jobs EXCEPT ![pending[i]] = Queue!Leased(@, w)]
  BY DEF Queue!Claim
<1>2. PICK r \in Requests : r = pending[i]
  BY <1>1, ElementOfSeq, LenProperties DEF QueueFacts
<1>3. /\ jobs[r].state \in {"PENDING", "RETRYABLE"}
      /\ jobs[r].attempt_count \in Nat
  BY <1>1, <1>2 DEF QueueFacts, Queue!Claimable, Queue!Job
<1>4. \A q \in Requests : q # r => jobs'[q] = jobs[q]
  BY <1>1, <1>2 DEF QueueFacts
<1>5. jobs'[r].state = "RUNNING" /\ jobs'[r].attempt_count = jobs[r].attempt_count + 1
  BY <1>1, <1>2 DEF QueueFacts, Queue!Leased, Queue!Job
<1>6. \A q \in Requests : jobs[q].attempt_count \in Nat
  BY DEF QueueFacts, Queue!Job
<1> QED  BY <1>3, <1>4, <1>5, <1>6
         DEF JobsEvolve, NoneSucceeds, ChangedIsKnown, Evolves

LEMMA AckEffect ==
    ASSUME QueueFacts, NEW r \in Requests, NEW w \in Workers, Queue!Ack(r, w)
    PROVE  /\ JobsEvolve
           /\ \A q \in Requests \ {r} : jobs'[q] = jobs[q]
           /\ jobs'[r].state = "SUCCEEDED"
<1>1. \A q \in Requests : q # r => jobs'[q] = jobs[q]
  BY DEF QueueFacts, Queue!Ack
<1>2. /\ jobs[r].state = "RUNNING" /\ jobs'[r].state = "SUCCEEDED"
      /\ jobs'[r].attempt_count = jobs[r].attempt_count
  BY DEF QueueFacts, Queue!Ack, Queue!HoldsLease, Queue!Released, Queue!Job
<1>3. \A q \in Requests : jobs[q].attempt_count \in Nat
  BY DEF QueueFacts, Queue!Job
<1> QED  BY <1>1, <1>2, <1>3 DEF JobsEvolve, Evolves

LEMMA FailEffect ==
    ASSUME QueueFacts, NEW r \in Requests, NEW w \in Workers,
           Queue!Fail(r, w, TRUE, RetryDelay)
    PROVE  /\ JobsEvolve /\ NoneSucceeds
           /\ jobs'[r].state \in {"RETRYABLE", "FAILED"}
<1>1. \A q \in Requests : q # r => jobs'[q] = jobs[q]
  BY DEF QueueFacts, Queue!Fail
<1>2. /\ jobs[r].state = "RUNNING"
      /\ jobs'[r].state \in {"RETRYABLE", "FAILED"}
      /\ jobs'[r].attempt_count = jobs[r].attempt_count
  <2>1. jobs[r].state = "RUNNING" /\ jobs[r] \in Queue!Job
    BY DEF QueueFacts, Queue!Fail, Queue!HoldsLease
  <2>2. \E s \in {"RETRYABLE", "FAILED"}, d \in {RetryDelay, NoTime} :
           jobs' = [jobs EXCEPT ![r] = Queue!Released(@, s, d)]
    BY Zenon DEF Queue!Fail
  <2>3. PICK s \in {"RETRYABLE", "FAILED"}, d \in {RetryDelay, NoTime} :
           jobs'[r] = Queue!Released(jobs[r], s, d)
    BY <2>2 DEF QueueFacts
  <2> QED  BY <2>1, <2>3 DEF Queue!Released, Queue!Job
<1>3. \A q \in Requests : jobs[q].attempt_count \in Nat
  BY DEF QueueFacts, Queue!Job
<1> QED  BY <1>1, <1>2, <1>3 DEF JobsEvolve, NoneSucceeds, Evolves

LEMMA RecoverEffect ==
    ASSUME QueueFacts, Queue!RecoverStale
    PROVE  JobsEvolve /\ NoneSucceeds /\ ChangedIsKnown
<1>1. ASSUME NEW q \in Requests
      PROVE  /\ Evolves(jobs[q], jobs'[q])
             /\ jobs'[q].state = "SUCCEEDED" => jobs[q].state = "SUCCEEDED"
             /\ jobs'[q] # jobs[q] => jobs'[q].state # "ABSENT"
  <2>1. jobs[q].attempt_count \in Nat /\ jobs[q] \in Queue!Job
    BY DEF QueueFacts, Queue!Job
  <2>2. CASE Queue!Stale(jobs[q])
    <3>1. jobs'[q] = Queue!Recovered(jobs[q])
      BY <2>2 DEF Queue!RecoverStale
    <3>2. jobs[q].state = "RUNNING"
      BY <2>2 DEF Queue!Stale
    <3>3. /\ jobs'[q].state \in {"FAILED", "PENDING"}
          /\ jobs'[q].attempt_count = jobs[q].attempt_count
      BY <2>1, <3>1 DEF Queue!Recovered, Queue!Released, Queue!Job
    <3> QED  BY <2>1, <3>2, <3>3 DEF Evolves
  <2>3. CASE ~Queue!Stale(jobs[q])
    <3>1. jobs'[q] = jobs[q]
      BY <2>3 DEF Queue!RecoverStale
    <3> QED  BY <2>1, <3>1 DEF Evolves
  <2> QED  BY <2>2, <2>3
<1> QED  BY <1>1 DEF JobsEvolve, NoneSucceeds, ChangedIsKnown

LEMMA TickEffect ==
    ASSUME QueueFacts, Queue!Tick
    PROVE  JobsEvolve /\ NoneSucceeds
<1>1. ASSUME NEW q \in Requests
      PROVE  /\ Evolves(jobs[q], jobs'[q])
             /\ jobs'[q].state = jobs[q].state
  <2>1. jobs[q].attempt_count \in Nat /\ jobs[q] \in Queue!Job
    BY DEF QueueFacts, Queue!Job
  <2>2. jobs'[q] = Queue!Older(jobs[q])
    BY DEF Queue!Tick
  <2>3. /\ jobs'[q].state = jobs[q].state
        /\ jobs'[q].attempt_count = jobs[q].attempt_count
    BY <2>1, <2>2 DEF Queue!Older, Queue!Job
  <2> QED  BY <2>1, <2>3 DEF Evolves
<1> QED  BY <1>1 DEF JobsEvolve, NoneSucceeds

LEMMA NoQueueStepEffect ==
    ASSUME QueueFacts, UNCHANGED jobs
    PROVE  JobsEvolve /\ NoneSucceeds
<1>1. \A q \in Requests : jobs[q].attempt_count \in Nat
  BY DEF QueueFacts, Queue!Job
<1> QED  BY <1>1 DEF JobsEvolve, NoneSucceeds, Evolves

-------------------------------------------------------------------------------
(* The inductive invariant.  None of the four safety properties is          *)
(* inductive alone: what a thread is about to do must be right as well.     *)

\* A copy of a job that the job has reached or passed.
Past(row, job) ==
    /\ row.attempt_count <= job.attempt_count
    /\ row.state \in Queue!TERMINAL_STATES => row.state = job.state

\* The explanation of the subject of r is the one a run of r has stored.
Stored(r) ==
    /\ explanations[SubjectOf[r]] # NoRecord
    /\ explanations[SubjectOf[r]].by = r

\* An acknowledgement follows the explanation it is for, a mark follows its
\* relay, and copies that wait to be saved tell the past.
ActivityOK(a) ==
    /\ a \in Activity
    /\ a.doing \in {"saving", "enqueueing", "generating", "acking"} => a.req \in Requests
    /\ a.then = "generating" => a.req \in Requests
    /\ a.doing = "acking" => Stored(a.req)
    /\ a.doing = "marking" => a.events # <<>> /\ sent[Head(a.events)] > 0
    /\ \A s \in a.marked : sent[s] > 0
    /\ \A r \in Requests : a.copies[r] # NoRecord => Past(a.copies[r], jobs[r])

\* Every request is registered under its own key or not at all.
OwnKey == \A r \in Requests : byKey[r] \in {r, NoJob}

TablesOK ==
    /\ jobRows \in [Requests -> [state : Queue!JobState, attempt_count : Nat]
                                   \cup {NoRecord}]
    /\ explanations \in
          [Subjects -> [by : Requests, content : {"model", "fallback"}]
                          \cup {NoRecord}]
    /\ outbox \in Seq(Subjects)
    /\ published \in SUBSET Subjects
    /\ sent \in [Subjects -> Nat]
    /\ trouble \in [aborts : 0 .. Aborts, sink : 0 .. SinkFailures]

ThreadsOK ==
    /\ DOMAIN proc = Processes
    /\ proc = [p \in Processes |-> proc[p]]
    /\ \A p \in Processes : ActivityOK(proc[p])

IInv ==
    /\ QueueProofs!IInv
    /\ OwnKey
    /\ TablesOK
    /\ ThreadsOK
    /\ ReadyIsAnnounced
    /\ PublishedWasSent
    /\ SucceededIsExplained
    /\ RowIsPast

LEMMA IInvTypeOK == IInv => TypeOK
BY QueueTypes DEF IInv, QueueProofs!IInv, TablesOK, ThreadsOK, ActivityOK, TypeOK

LEMMA IdleIsOK ==
    /\ Idle \in Activity
    /\ Idle.doing = "idle" /\ Idle.then = "idle" /\ Idle.marked = {}
    /\ \A r \in Requests : Idle.copies[r] = NoRecord
<1>1. <<>> \in Seq(Subjects)
  BY EmptySeq
<1> QED  BY <1>1 DEF Idle, Activity, NoCopies

LEMMA IdleActivityOK == ActivityOK(Idle)
BY IdleIsOK DEF ActivityOK

LEMMA BecomesIdle ==
    ASSUME NEW p \in Processes, Becomes(p, Idle)
    PROVE  \E a : ActivityOK(a)' /\ Becomes(p, a)
<1>1. PICK a : a = Idle
  OBVIOUS
<1>2. ActivityOK(a)'
  BY <1>1, IdleIsOK DEF ActivityOK, Activity
<1> QED  BY <1>1, <1>2

\* What no step takes back.
Grows ==
    /\ JobsEvolve
    /\ \A s \in Subjects : sent[s] <= sent'[s]
    /\ \A s \in Subjects : explanations[s] # NoRecord =>
                              explanations'[s] = explanations[s]

\* A thread that does not move stays right whatever the others do.
LEMMA ActivityStays ==
    ASSUME NEW a, ActivityOK(a), Grows, QueueFacts, QueueFacts', TablesOK, TablesOK'
    PROVE  ActivityOK(a)'
<1>1. a \in Activity
  BY DEF ActivityOK
<1>2. a.doing = "acking" => Stored(a.req)'
  BY ExplanationsAssumption DEF ActivityOK, Stored, Grows
<1>3. a.doing = "marking" => a.events # <<>> /\ sent'[Head(a.events)] > 0
  <2> SUFFICES ASSUME a.doing = "marking" PROVE a.events # <<>> /\ sent'[Head(a.events)] > 0
    OBVIOUS
  <2>1. a.events \in Seq(Subjects) /\ a.events # <<>> /\ sent[Head(a.events)] > 0
    BY DEF ActivityOK, Activity
  <2>2. Head(a.events) \in Subjects
    BY <2>1, HeadTailProperties
  <2> QED  BY <2>1, <2>2 DEF Grows, TablesOK
<1>4. \A s \in a.marked : sent'[s] > 0
  <2>1. a.marked \subseteq Subjects
    BY <1>1 DEF Activity
  <2> QED  BY <2>1 DEF ActivityOK, Grows, TablesOK
<1>5. ASSUME NEW r \in Requests, a.copies[r] # NoRecord
      PROVE  Past(a.copies[r], jobs'[r])
  <2>1. a.copies[r].attempt_count \in Nat
    BY <1>1, <1>5 DEF Activity
  <2>2. Past(a.copies[r], jobs[r]) /\ Evolves(jobs[r], jobs'[r])
    BY <1>5 DEF ActivityOK, Grows, JobsEvolve
  <2>3. jobs[r].attempt_count \in Nat /\ jobs'[r].attempt_count \in Nat
    BY DEF QueueFacts, Queue!Job
  <2> QED  BY <2>1, <2>2, <2>3 DEF Past, Evolves
<1> QED  BY <1>1, <1>2, <1>3, <1>4, <1>5 DEF ActivityOK, Past, Stored, Activity

LEMMA ThreadsStay ==
    ASSUME ThreadsOK, Grows, QueueFacts, QueueFacts', TablesOK, TablesOK',
           NEW p \in Processes, NEW a, ActivityOK(a)', Becomes(p, a)
    PROVE  ThreadsOK'
<1>1. DOMAIN proc' = Processes /\ proc' = [q \in Processes |-> proc'[q]]
  BY DEF ThreadsOK, Becomes
<1>2. ASSUME NEW q \in Processes PROVE ActivityOK(proc[q])'
  <2>1. CASE q = p
    <3>1. proc'[q] = a
      BY <2>1 DEF Becomes, ThreadsOK
    <3> QED  BY <3>1 DEF ActivityOK, Activity, Stored, Past
  <2>2. CASE q # p
    <3>1. PICK b : b = proc[q]
      OBVIOUS
    <3>2. ActivityOK(b)
      BY <3>1 DEF ThreadsOK
    <3>3. ActivityOK(b)'
      BY <3>2, ActivityStays
    <3>4. proc'[q] = b
      BY <2>2, <3>1 DEF Becomes, ThreadsOK
    <3> QED  BY <3>3, <3>4 DEF ActivityOK, Activity, Stored, Past
  <2> QED  BY <2>1, <2>2
<1> QED  BY <1>1, <1>2 DEF ThreadsOK

-------------------------------------------------------------------------------
(* Initially, and after the steps of DurableJobQueue.                       *)

LEMMA InitIInv == Init => IInv
<1> SUFFICES ASSUME Init PROVE IInv
  OBVIOUS
<1>1. QueueProofs!IInv /\ OwnKey
  BY QueueInit DEF Init, OwnKey, Queue!Init
<1>2. TablesOK
  BY EmptySeq, ExplanationsAssumption DEF Init, TablesOK
<1>3. ThreadsOK
  BY IdleActivityOK DEF Init, ThreadsOK
<1>4. ReadyIsAnnounced
  BY DEF Init, ReadyIsAnnounced, IsInjective, Contains
<1>5. PublishedWasSent /\ RowIsPast
  BY DEF Init, PublishedWasSent, RowIsPast
<1>6. SucceededIsExplained
  BY DEF Init, SucceededIsExplained, Queue!Init, Queue!Absent, Queue!Fresh
<1> QED  BY <1>1, <1>2, <1>3, <1>4, <1>5, <1>6 DEF IInv

\* The rows of a table that is not written stay behind the queue.
LEMMA RowsStay ==
    ASSUME IInv, QueueFacts', JobsEvolve, UNCHANGED jobRows
    PROVE  RowIsPast'
<1> SUFFICES ASSUME NEW r \in Requests, jobRows[r] # NoRecord
             PROVE  Past(jobRows[r], jobs'[r])
  BY DEF RowIsPast, Past
<1>1. Past(jobRows[r], jobs[r]) /\ Evolves(jobs[r], jobs'[r])
  BY DEF IInv, RowIsPast, Past, JobsEvolve
<1>2. /\ jobRows[r].attempt_count \in Nat
      /\ jobs[r].attempt_count \in Nat
      /\ jobs'[r].attempt_count \in Nat
  BY QueueInvFacts DEF IInv, TablesOK, QueueFacts, Queue!Job
<1> QED  BY <1>1, <1>2 DEF Past, Evolves

\* A call of the queue whose thread goes on to be right keeps the invariant,
\* if what has succeeded by it has been explained.
LEMMA QueueCallKeeps ==
    ASSUME IInv, QueueStep, JobsEvolve, OwnKey', SucceededIsExplained',
           UNCHANGED <<tables, relay, trouble>>,
           QueueFacts' =>
              \E p \in Processes : \E a : ActivityOK(a)' /\ Becomes(p, a)
    PROVE  IInv'
<1>1. QueueProofs!IInv' /\ QueueFacts /\ QueueFacts'
  <2>1. QueueProofs!IInv /\ QueueProofs!IInv'
    BY QueueInv DEF IInv
  <2> QED  BY <2>1, QueueInvFacts, PTL
<1>2. TablesOK /\ TablesOK' /\ Grows
  <2>1. TablesOK /\ TablesOK'
    BY DEF IInv, TablesOK, tables, relay
  <2>2. \A s \in Subjects : sent[s] \in Nat
    BY <2>1 DEF TablesOK
  <2> QED  BY <2>1, <2>2 DEF Grows, tables, relay
<1>3. PICK p \in Processes : \E a : ActivityOK(a)' /\ Becomes(p, a)
  BY <1>1
<1>4. ThreadsOK'
  <2>1. PICK a : ActivityOK(a)' /\ Becomes(p, a)
    BY <1>3
  <2>2. ThreadsOK
    BY DEF IInv
  <2> QED  BY <1>1, <1>2, <2>1, <2>2, ThreadsStay
<1>5. ReadyIsAnnounced' /\ PublishedWasSent'
  BY DEF IInv, ReadyIsAnnounced, PublishedWasSent, tables, relay
<1>6. RowIsPast'
  BY <1>1, RowsStay DEF tables
<1> QED  BY <1>1, <1>2, <1>4, <1>5, <1>6 DEF IInv

\* What has not succeeded by a call needs no new explanation.
LEMMA SuccessStays ==
    ASSUME IInv, NoneSucceeds, UNCHANGED explanations
    PROVE  SucceededIsExplained'
BY DEF IInv, SucceededIsExplained, NoneSucceeds

\* The copies a thread takes of the jobs that came out of the queue.
LEMMA MirroringOK ==
    ASSUME QueueFacts', NEW p \in Processes, NEW rs \in SUBSET Requests,
           NEW next \in {"idle", "generating"},
           \A r \in rs : jobs'[r].state # "ABSENT",
           next = "generating" => rs # {},
           Mirroring(p, rs, next)
    PROVE  \E a : ActivityOK(a)' /\ Becomes(p, a)
<1>1. PICK a : a = [Idle EXCEPT
        !.doing = "mirroring",
        !.req = IF next = "idle" THEN NoJob ELSE CHOOSE r \in rs : TRUE,
        !.copies = [r \in Requests |->
                       IF r \in rs THEN JobRow(jobs'[r]) ELSE NoRecord],
        !.then = next]
  OBVIOUS
<1>2. Becomes(p, a)
  BY <1>1 DEF Mirroring
<1>3. \A r \in rs : /\ JobRow(jobs'[r]) \in [state : Queue!JobState, attempt_count : Nat]
                    /\ Past(JobRow(jobs'[r]), jobs'[r])
  BY DEF QueueFacts, Queue!Job, JobRow, Past
<1>4. a.req \in Requests \cup {NoJob} /\ (next = "generating" => a.req \in Requests)
  <2>1. a.req = IF next = "idle" THEN NoJob ELSE CHOOSE r \in rs : TRUE
    BY <1>1 DEF Idle
  <2> QED  BY <2>1
<1>5. /\ a.doing = "mirroring" /\ a.then = next /\ a.marked = {}
      /\ a.copies \in [Requests -> [state : Queue!JobState, attempt_count : Nat]
                                      \cup {NoRecord}]
      /\ \A r \in Requests : a.copies[r] # NoRecord => Past(a.copies[r], jobs'[r])
  BY <1>1, <1>3 DEF Idle
<1>6. a \in Activity
  <2>1. PICK q, c : q = a.req /\ c = a.copies
    OBVIOUS
  <2>2. a = [doing |-> "mirroring", req |-> q, copies |-> c, then |-> next,
             events |-> <<>>, touched |-> {}, marked |-> {}]
    BY <1>1, <2>1 DEF Idle
  <2>3. /\ q \in Requests \cup {NoJob}
        /\ c \in [Requests -> [state : Queue!JobState, attempt_count : Nat]
                                \cup {NoRecord}]
    BY <1>4, <1>5, <2>1
  <2>4. <<>> \in Seq(Subjects)
    BY EmptySeq
  <2> HIDE DEF Queue!JobState
  <2> QED  BY <2>2, <2>3, <2>4 DEF Activity
<1>7. ActivityOK(a)'
  BY <1>4, <1>5, <1>6 DEF ActivityOK, Past, Activity
<1> QED  BY <1>2, <1>7

LEMMA RecoverStaleIInv ==
    ASSUME IInv, NEW p \in Sweepers, RecoverStale(p)
    PROVE  IInv'
<1>1. QueueFacts /\ OwnKey
  BY QueueInvFacts DEF IInv
<1>2. Queue!RecoverStale /\ UNCHANGED <<tables, relay, trouble>>
  BY DEF RecoverStale
<1>3. QueueStep
  BY <1>2 DEF QueueStep
<1>4. JobsEvolve /\ NoneSucceeds /\ ChangedIsKnown
  BY <1>1, <1>2, RecoverEffect
<1>5. OwnKey'
  BY <1>1, <1>2 DEF OwnKey, Queue!RecoverStale
<1>6. SucceededIsExplained'
  BY <1>2, <1>4, SuccessStays DEF tables
<1>7. QueueFacts' => \E a : ActivityOK(a)' /\ Becomes(p, a)
  <2>1. PICK rs \in SUBSET Requests : rs = {r \in Requests : jobs'[r] # jobs[r]}
    OBVIOUS
  <2>2. Mirroring(p, rs, "idle") /\ \A r \in rs : jobs'[r].state # "ABSENT"
    BY <1>4, <2>1 DEF RecoverStale, ChangedIsKnown
  <2> QED  BY <2>2, MirroringOK DEF Processes
<1> QED  BY <1>2, <1>3, <1>4, <1>5, <1>6, <1>7, QueueCallKeeps DEF Processes

LEMMA TickIInv == ASSUME IInv, Tick PROVE IInv'
<1>1. QueueFacts /\ OwnKey /\ Queue!Tick
  BY QueueInvFacts DEF IInv, Tick
<1>2. QueueStep /\ JobsEvolve /\ NoneSucceeds
  BY <1>1, TickEffect DEF QueueStep
<1>3. QueueProofs!IInv' /\ QueueFacts'
  <2>1. QueueProofs!IInv'
    BY <1>2, QueueInv DEF IInv
  <2> QED  BY <2>1, QueueInvFacts, PTL
<1>4. OwnKey'
  BY <1>1 DEF OwnKey, Queue!Tick
<1>5. TablesOK /\ TablesOK' /\ Grows
  <2>1. TablesOK /\ TablesOK'
    BY DEF IInv, TablesOK, tables, relay, Tick
  <2>2. \A s \in Subjects : sent[s] \in Nat
    BY <2>1 DEF TablesOK
  <2> QED  BY <1>2, <2>1, <2>2 DEF Grows, tables, relay, Tick
<1>6. ThreadsOK'
  <2>1. ASSUME NEW q \in Processes PROVE ActivityOK(proc[q])'
    <3>1. PICK b : b = proc[q]
      OBVIOUS
    <3>2. ActivityOK(b)'
      BY <1>1, <1>3, <1>5, <3>1, ActivityStays DEF IInv, ThreadsOK
    <3> QED  BY <3>1, <3>2 DEF Tick, ActivityOK, Activity, Stored, Past
  <2> QED  BY <2>1 DEF IInv, ThreadsOK, Tick
<1>7. ReadyIsAnnounced' /\ PublishedWasSent'
  BY DEF IInv, ReadyIsAnnounced, PublishedWasSent, tables, relay, Tick
<1>8. RowIsPast' /\ SucceededIsExplained'
  BY <1>2, <1>3, RowsStay, SuccessStays DEF tables, Tick
<1> QED  BY <1>3, <1>4, <1>5, <1>6, <1>7, <1>8 DEF IInv

-------------------------------------------------------------------------------
(* The other calls of the queue.                                            *)

LEMMA EnqueueJobIInv ==
    ASSUME IInv, NEW c \in Callers, EnqueueJob(c)
    PROVE  IInv'
<1> DEFINE r == proc[c].req
<1>1. QueueFacts /\ OwnKey /\ c \in Processes /\ r \in Requests
  <2>1. QueueFacts /\ OwnKey /\ ThreadsOK /\ c \in Processes
    BY QueueInvFacts DEF IInv, Processes
  <2> QED  BY <2>1 DEF ThreadsOK, ActivityOK, EnqueueJob
<1>2. Mirroring(c, {r}, "idle") /\ UNCHANGED <<tables, relay, trouble>>
  BY DEF EnqueueJob
<1>3. /\ QueueStep /\ JobsEvolve /\ NoneSucceeds /\ OwnKey'
      /\ jobs'[r].state # "ABSENT"
  <2>1. CASE byKey[r] = NoJob
    <3>1. Queue!Enqueue(r, r)
      BY <2>1 DEF EnqueueJob
    <3>2. OwnKey'
      BY <1>1, <3>1 DEF OwnKey, Queue!Enqueue, QueueFacts
    <3> HIDE DEF r
    <3> QED  BY <1>1, <3>1, <3>2, EnqueueEffect DEF QueueStep
  <2>2. CASE byKey[r] # NoJob
    <3>1. UNCHANGED queueVars
      BY <2>2 DEF EnqueueJob
    <3>2. byKey[r] = r /\ jobs[r].state # "ABSENT"
      BY <1>1, <2>2 DEF OwnKey, QueueFacts
    <3>3. OwnKey'
      BY <1>1, <3>1 DEF OwnKey, queueVars
    <3> HIDE DEF r
    <3> QED  BY <1>1, <3>1, <3>2, <3>3, NoQueueStepEffect DEF QueueStep, queueVars
  <2> QED  BY <2>1, <2>2
<1>4. SucceededIsExplained'
  BY <1>2, <1>3, SuccessStays DEF tables
<1> HIDE DEF r
<1>5. QueueFacts' => \E a : ActivityOK(a)' /\ Becomes(c, a)
  BY <1>1, <1>2, <1>3, MirroringOK
<1> QED  BY <1>1, <1>2, <1>3, <1>4, <1>5, QueueCallKeeps

LEMMA ClaimIInv ==
    ASSUME IInv, NEW w \in Workers, Claim(w)
    PROVE  IInv'
<1>1. QueueFacts /\ OwnKey /\ w \in Processes
  BY QueueInvFacts DEF IInv, Processes
<1>2. Queue!Claim(w) /\ UNCHANGED <<tables, relay, trouble>>
  BY DEF Claim
<1>3. /\ QueueStep /\ JobsEvolve /\ NoneSucceeds /\ ChangedIsKnown
      /\ \E r \in Requests : jobs'[r] # jobs[r]
  BY <1>1, <1>2, ClaimEffect DEF QueueStep
<1>4. OwnKey'
  BY <1>1, <1>2 DEF OwnKey, Queue!Claim
<1>5. SucceededIsExplained'
  BY <1>2, <1>3, SuccessStays DEF tables
<1>6. QueueFacts' => \E a : ActivityOK(a)' /\ Becomes(w, a)
  <2>1. PICK rs \in SUBSET Requests : rs = {r \in Requests : jobs'[r] # jobs[r]}
    OBVIOUS
  <2>2. /\ Mirroring(w, rs, "generating") /\ rs # {}
        /\ \A r \in rs : jobs'[r].state # "ABSENT"
    BY <1>3, <2>1 DEF Claim, ChangedIsKnown
  <2> QED  BY <1>1, <2>2, MirroringOK
<1> QED  BY <1>1, <1>2, <1>3, <1>4, <1>5, <1>6, QueueCallKeeps

LEMMA ReportUnavailableIInv ==
    ASSUME IInv, NEW w \in Workers, NEW answer \in Answers,
           ReportUnavailable(w, answer)
    PROVE  IInv'
<1> DEFINE r == proc[w].req
<1>1. QueueFacts /\ OwnKey /\ w \in Processes /\ r \in Requests
  <2>1. QueueFacts /\ OwnKey /\ ThreadsOK /\ w \in Processes
    BY QueueInvFacts DEF IInv, Processes
  <2> QED  BY <2>1 DEF ThreadsOK, ActivityOK, ReportUnavailable
<1>2. UNCHANGED <<tables, relay, trouble>>
  BY DEF ReportUnavailable
<1>3. /\ QueueStep /\ JobsEvolve /\ NoneSucceeds /\ OwnKey'
      /\ QueueFacts' => \E a : ActivityOK(a)' /\ Becomes(w, a)
  <2>1. CASE Queue!HoldsLease(r, w)
    <3>1. Queue!Fail(r, w, TRUE, RetryDelay) /\ Mirroring(w, {r}, "idle")
      BY <2>1 DEF ReportUnavailable
    <3>2. OwnKey'
      BY <1>1, <3>1 DEF OwnKey, Queue!Fail
    <3> HIDE DEF r
    <3>3. JobsEvolve /\ NoneSucceeds /\ jobs'[r].state # "ABSENT"
      BY <1>1, <3>1, FailEffect
    <3>4. QueueFacts' => \E a : ActivityOK(a)' /\ Becomes(w, a)
      BY <1>1, <3>1, <3>3, MirroringOK
    <3> QED  BY <1>1, <3>1, <3>2, <3>3, <3>4 DEF QueueStep
  <2>2. CASE ~Queue!HoldsLease(r, w)
    <3>1. UNCHANGED queueVars /\ Becomes(w, Idle)
      BY <2>2 DEF ReportUnavailable
    <3>2. OwnKey' /\ UNCHANGED jobs
      BY <1>1, <3>1 DEF OwnKey, queueVars
    <3>3. \E a : ActivityOK(a)' /\ Becomes(w, a)
      BY <1>1, <3>1, BecomesIdle
    <3> QED  BY <1>1, <3>1, <3>2, <3>3, NoQueueStepEffect DEF QueueStep
  <2> QED  BY <2>1, <2>2
<1>4. SucceededIsExplained'
  BY <1>2, <1>3, SuccessStays DEF tables
<1> HIDE DEF r
<1> QED  BY <1>1, <1>2, <1>3, <1>4, QueueCallKeeps

LEMMA AckJobIInv ==
    ASSUME IInv, NEW w \in Workers, AckJob(w)
    PROVE  IInv'
<1> DEFINE r == proc[w].req
<1>1. QueueFacts /\ OwnKey /\ w \in Processes /\ r \in Requests /\ Stored(r)
  <2>1. QueueFacts /\ OwnKey /\ ThreadsOK /\ w \in Processes
    BY QueueInvFacts DEF IInv, Processes
  <2> QED  BY <2>1 DEF ThreadsOK, ActivityOK, AckJob
<1>2. UNCHANGED <<tables, relay, trouble>>
  BY DEF AckJob
<1>3. /\ QueueStep /\ JobsEvolve /\ OwnKey' /\ SucceededIsExplained'
      /\ QueueFacts' => \E a : ActivityOK(a)' /\ Becomes(w, a)
  <2>1. CASE Queue!HoldsLease(r, w)
    <3>1. Queue!Ack(r, w) /\ Mirroring(w, {r}, "idle")
      BY <2>1 DEF AckJob
    <3>2. OwnKey'
      BY <1>1, <3>1 DEF OwnKey, Queue!Ack
    <3> HIDE DEF r
    <3>3. /\ JobsEvolve /\ jobs'[r].state # "ABSENT"
          /\ \A q \in Requests \ {r} : jobs'[q] = jobs[q]
      BY <1>1, <3>1, AckEffect
    <3>4. SucceededIsExplained'
      BY <1>1, <1>2, <3>3 DEF IInv, SucceededIsExplained, Stored, tables
    <3>5. QueueFacts' => \E a : ActivityOK(a)' /\ Becomes(w, a)
      BY <1>1, <3>1, <3>3, MirroringOK
    <3> QED  BY <1>1, <3>1, <3>2, <3>3, <3>4, <3>5 DEF QueueStep
  <2>2. CASE ~Queue!HoldsLease(r, w)
    <3>1. UNCHANGED queueVars /\ Becomes(w, Idle)
      BY <2>2 DEF AckJob
    <3>2. OwnKey' /\ UNCHANGED jobs
      BY <1>1, <3>1 DEF OwnKey, queueVars
    <3>3. \E a : ActivityOK(a)' /\ Becomes(w, a)
      BY <1>1, <3>1, BecomesIdle
    <3>4. JobsEvolve /\ NoneSucceeds
      BY <1>1, <3>2, NoQueueStepEffect
    <3>5. SucceededIsExplained'
      BY <1>2, <3>4, SuccessStays DEF tables
    <3> QED  BY <3>1, <3>2, <3>3, <3>4, <3>5 DEF QueueStep
  <2> QED  BY <2>1, <2>2
<1> HIDE DEF r
<1> QED  BY <1>1, <1>2, <1>3, QueueCallKeeps

-------------------------------------------------------------------------------
(* Steps between the calls of the queue.                                    *)

\* A step that leaves the queue alone and whose thread goes on to be right
\* keeps the invariant, if its tables do.
LEMMA TableStepKeeps ==
    ASSUME IInv, UNCHANGED queueVars, TablesOK',
           \A s \in Subjects : sent[s] <= sent'[s],
           \A s \in Subjects : explanations[s] # NoRecord =>
                                  explanations'[s] = explanations[s],
           ReadyIsAnnounced', PublishedWasSent', RowIsPast',
           NEW p \in Processes, NEW a, ActivityOK(a)', Becomes(p, a)
    PROVE  IInv'
<1>1. QueueFacts /\ QueueProofs!IInv' /\ QueueFacts'
  <2>1. QueueProofs!IInv /\ QueueProofs!IInv'
    BY QueueInv DEF IInv, QueueStep
  <2> QED  BY <2>1, QueueInvFacts, PTL
<1>2. OwnKey'
  BY DEF IInv, OwnKey, queueVars
<1>3. JobsEvolve /\ NoneSucceeds
  BY <1>1, NoQueueStepEffect DEF queueVars
<1>4. ThreadsOK'
  BY <1>1, <1>3, ThreadsStay DEF IInv, Grows
<1>5. SucceededIsExplained'
  <2> SUFFICES ASSUME NEW r \in Requests, jobs'[r].state = "SUCCEEDED"
               PROVE  /\ explanations'[SubjectOf[r]] # NoRecord
                      /\ explanations'[SubjectOf[r]].by = r
    BY DEF SucceededIsExplained
  <2>1. /\ explanations[SubjectOf[r]] # NoRecord
        /\ explanations[SubjectOf[r]].by = r
    BY <1>3 DEF IInv, SucceededIsExplained, NoneSucceeds
  <2> QED  BY <2>1, ExplanationsAssumption
<1> QED  BY <1>1, <1>2, <1>4, <1>5 DEF IInv

\* A step that changes nothing but what its thread is doing.
LEMMA LocalStepKeeps ==
    ASSUME IInv, UNCHANGED <<queueVars, tables, relay>>,
           trouble' \in [aborts : 0 .. Aborts, sink : 0 .. SinkFailures],
           NEW p \in Processes, NEW a, ActivityOK(a), Becomes(p, a)
    PROVE  IInv'
<1>1. TablesOK /\ TablesOK'
  BY DEF IInv, TablesOK, tables, relay
<1>2. \A s \in Subjects : sent[s] <= sent'[s]
  BY <1>1 DEF TablesOK, relay
<1>3. ReadyIsAnnounced' /\ PublishedWasSent' /\ RowIsPast'
  BY DEF IInv, ReadyIsAnnounced, PublishedWasSent, RowIsPast, queueVars, tables, relay
<1>4. ActivityOK(a)'
  BY DEF ActivityOK, Activity, Stored, Past, queueVars, tables, relay
<1>5. UNCHANGED queueVars /\ UNCHANGED explanations
  BY DEF tables
<1> QED  BY <1>1, <1>2, <1>3, <1>4, <1>5, TableStepKeeps

LEMMA AbortIInv ==
    ASSUME IInv, NEW p \in Processes, Abort(p)
    PROVE  IInv'
<1>1. trouble' \in [aborts : 0 .. Aborts, sink : 0 .. SinkFailures]
  <2>1. /\ trouble \in [aborts : 0 .. Aborts, sink : 0 .. SinkFailures]
        /\ trouble.aborts < Aborts
        /\ trouble' = [trouble EXCEPT !.aborts = @ + 1]
    BY DEF Abort, IInv, TablesOK
  <2>2. Aborts \in Nat /\ SinkFailures \in Nat
    BY ExplanationsAssumption
  <2> QED  BY <2>1, <2>2
<1> QED  BY <1>1, IdleActivityOK, LocalStepKeeps DEF Abort

LEMMA FindByKeyIInv ==
    ASSUME IInv, NEW c \in Callers, NEW r \in Requests, FindByKey(c, r)
    PROVE  IInv'
<1>1. PICK a : a = [Idle EXCEPT !.doing = "saving", !.req = r]
  OBVIOUS
<1>2. ActivityOK(a)
  BY <1>1, IdleIsOK DEF ActivityOK, Activity, Idle
<1>3. /\ UNCHANGED <<queueVars, tables, relay>> /\ Becomes(c, a)
      /\ trouble' \in [aborts : 0 .. Aborts, sink : 0 .. SinkFailures]
  BY <1>1 DEF FindByKey, IInv, TablesOK
<1> QED  BY <1>2, <1>3, LocalStepKeeps DEF Processes

LEMMA SavePendingIInv ==
    ASSUME IInv, NEW c \in Callers, SavePending(c)
    PROVE  IInv'
<1>1. PICK a, r : a = [proc[c] EXCEPT !.doing = "enqueueing"] /\ r = proc[c].req
  OBVIOUS
<1>2. /\ c \in Processes /\ r \in Requests /\ QueueFacts
      /\ ActivityOK(proc[c]) /\ TablesOK
  <2>1. QueueFacts /\ c \in Processes /\ ThreadsOK /\ TablesOK
    BY QueueInvFacts DEF IInv, Processes
  <2> QED  BY <1>1, <2>1 DEF ThreadsOK, ActivityOK, SavePending
<1>3. Becomes(c, a) /\ jobRows' = [jobRows EXCEPT ![r] = Pending]
  BY <1>1 DEF SavePending
<1>4. UNCHANGED <<queueVars, explanations, relay, trouble>>
  BY DEF SavePending
<1>5. TablesOK'
  BY <1>2, <1>3, <1>4 DEF TablesOK, relay, Pending
<1>6. RowIsPast'
  <2>1. Past(Pending, jobs[r])
    BY <1>2 DEF Past, Pending, QueueFacts, Queue!Job
  <2>2. \A q \in Requests : q # r => jobRows'[q] = jobRows[q]
    BY <1>2, <1>3 DEF TablesOK
  <2>3. jobRows'[r] = Pending
    BY <1>2, <1>3 DEF TablesOK
  <2> QED  BY <1>4, <2>1, <2>2, <2>3 DEF IInv, RowIsPast, Past, queueVars
<1>7. ActivityOK(a)
  <2>1. PICK b : b = proc[c] /\ ActivityOK(b)
    BY <1>2
  <2>2. b.doing = "saving" /\ b \in Activity /\ a = [b EXCEPT !.doing = "enqueueing"]
    BY <1>1, <2>1 DEF SavePending, ActivityOK
  <2>3. /\ a \in Activity /\ a.doing = "enqueueing" /\ a.req = b.req
        /\ a.marked = b.marked /\ a.copies = b.copies
    <3> HIDE DEF Queue!JobState
    <3> QED  BY <2>2 DEF Activity
  <2> QED  BY <1>1, <1>2, <2>1, <2>3 DEF ActivityOK
<1>8. ActivityOK(a)'
  BY <1>4, <1>7 DEF ActivityOK, Activity, Stored, Past, queueVars, relay
<1>9. /\ \A s \in Subjects : sent[s] <= sent'[s]
      /\ ReadyIsAnnounced' /\ PublishedWasSent'
  BY <1>2, <1>4 DEF IInv, TablesOK, ReadyIsAnnounced, PublishedWasSent, relay
<1> QED  BY <1>2, <1>3, <1>4, <1>5, <1>6, <1>8, <1>9, TableStepKeeps

LEMMA MirrorIInv ==
    ASSUME IInv, NEW p \in Processes, NEW r \in Requests, Mirror(p, r)
    PROVE  IInv'
<1>1. PICK left, copy : /\ left = [proc[p].copies EXCEPT ![r] = NoRecord]
                        /\ copy = proc[p].copies[r]
  OBVIOUS
<1>2. ActivityOK(proc[p]) /\ TablesOK /\ QueueFacts
  BY QueueInvFacts DEF IInv, ThreadsOK
<1>3. /\ copy # NoRecord /\ jobRows' = [jobRows EXCEPT ![r] = copy]
      /\ UNCHANGED <<queueVars, explanations, relay, trouble>>
      /\ Becomes(p, IF left # NoCopies THEN [proc[p] EXCEPT !.copies = left]
                    ELSE IF proc[p].then = "idle" THEN Idle
                    ELSE [Idle EXCEPT !.doing = proc[p].then, !.req = proc[p].req])
  BY <1>1 DEF Mirror
<1>4. /\ copy \in [state : Queue!JobState, attempt_count : Nat]
      /\ Past(copy, jobs[r])
  BY <1>1, <1>2, <1>3 DEF ActivityOK, Activity
<1>5. TablesOK'
  <2> HIDE DEF Queue!JobState
  <2> QED  BY <1>2, <1>3, <1>4 DEF TablesOK, relay
<1>6. RowIsPast'
  <2>1. \A q \in Requests : q # r => jobRows'[q] = jobRows[q]
    BY <1>2, <1>3 DEF TablesOK
  <2>2. jobRows'[r] = copy
    BY <1>2, <1>3 DEF TablesOK
  <2> QED  BY <1>3, <1>4, <2>1, <2>2 DEF IInv, RowIsPast, Past, queueVars
<1>7. PICK a : ActivityOK(a) /\ Becomes(p, a)
  <2>1. CASE left # NoCopies
    <3>1. PICK a : a = [proc[p] EXCEPT !.copies = left]
      OBVIOUS
    <3>2. ActivityOK(a)
      BY <1>1, <1>2, <3>1 DEF ActivityOK, Activity
    <3> QED  BY <1>3, <2>1, <3>1, <3>2
  <2>2. CASE left = NoCopies /\ proc[p].then = "idle"
    BY <1>3, <2>2, IdleActivityOK
  <2>3. CASE left = NoCopies /\ proc[p].then # "idle"
    <3>1. proc[p].then = "generating" /\ proc[p].req \in Requests
      BY <1>2, <2>3 DEF ActivityOK, Activity
    <3>2. PICK a : a = [Idle EXCEPT !.doing = "generating", !.req = proc[p].req]
      OBVIOUS
    <3>3. ActivityOK(a)
      BY <3>1, <3>2, IdleIsOK DEF ActivityOK, Activity, Idle
    <3> QED  BY <1>3, <2>3, <3>1, <3>2, <3>3
  <2> QED  BY <2>1, <2>2, <2>3
<1>8. ActivityOK(a)'
  BY <1>3, <1>7 DEF ActivityOK, Activity, Stored, Past, queueVars, relay
<1>9. /\ \A s \in Subjects : sent[s] <= sent'[s]
      /\ ReadyIsAnnounced' /\ PublishedWasSent'
  BY <1>2, <1>3 DEF IInv, TablesOK, ReadyIsAnnounced, PublishedWasSent, relay
<1> QED  BY <1>3, <1>5, <1>6, <1>7, <1>8, <1>9, TableStepKeeps

LEMMA PersistIInv ==
    ASSUME IInv, NEW w \in Workers, NEW answer \in Answers, Persist(w, answer)
    PROVE  IInv'
<1>1. PICK r, s : r = proc[w].req /\ s = SubjectOf[r]
  OBVIOUS
<1>2. /\ w \in Processes /\ r \in Requests /\ s \in Subjects
      /\ ActivityOK(proc[w]) /\ TablesOK
  <2>1. w \in Processes /\ ThreadsOK /\ TablesOK
    BY DEF IInv, Processes
  <2>2. r \in Requests /\ ActivityOK(proc[w])
    BY <1>1, <2>1 DEF ThreadsOK, ActivityOK, Persist
  <2> QED  BY <1>1, <2>1, <2>2, ExplanationsAssumption
<1>3. UNCHANGED <<queueVars, jobRows, published, sent, trouble>>
  BY DEF Persist
<1>4. CASE Contains(outbox, s)
  <2>1. Becomes(w, Idle) /\ UNCHANGED <<explanations, outbox>>
    BY <1>1, <1>4 DEF Persist
  <2>2. trouble' \in [aborts : 0 .. Aborts, sink : 0 .. SinkFailures]
    BY <1>2, <1>3 DEF TablesOK
  <2> QED  BY <1>2, <1>3, <2>1, <2>2, IdleActivityOK, LocalStepKeeps
           DEF tables, relay
<1>5. CASE ~Contains(outbox, s)
  <2>1. PICK x : x = [by |-> r, content |-> Content(answer)]
    OBVIOUS
  <2>2. PICK a : a = [proc[w] EXCEPT !.doing = "acking"]
    OBVIOUS
  <2>3. /\ explanations' = [explanations EXCEPT ![s] = x]
        /\ outbox' = Append(outbox, s)
        /\ Becomes(w, a)
    BY <1>1, <1>5, <2>1, <2>2 DEF Persist
  <2>4. x \in [by : Requests, content : {"model", "fallback"}] /\ x # NoRecord
    <3>1. Content(answer) \in {"model", "fallback"}
      <4>1. Content(answer) # "none" /\ answer \in ANSWERS
        BY ExplanationsAssumption DEF Persist
      <4> QED  BY <4>1 DEF Content, ANSWERS
    <3> QED  BY <1>2, <2>1, <3>1, ExplanationsAssumption
  <2>5. TablesOK'
    <3>1. outbox' \in Seq(Subjects)
      BY <1>2, <2>3, AppendProperties DEF TablesOK
    <3> QED  BY <1>2, <1>3, <2>3, <2>4, <3>1 DEF TablesOK
  <2>6. /\ Len(outbox) \in Nat /\ Len(outbox') = Len(outbox) + 1
        /\ DOMAIN outbox = 1 .. Len(outbox)
        /\ DOMAIN outbox' = 1 .. Len(outbox) + 1
        /\ \A i \in 1 .. Len(outbox) : outbox'[i] = outbox[i] /\ outbox[i] # s
        /\ outbox'[Len(outbox) + 1] = s
    BY <1>2, <1>5, <2>3, AppendProperties, LenProperties DEF TablesOK, Contains
  <2>7. /\ explanations[s] = NoRecord /\ explanations'[s] = x
        /\ \A t \in Subjects : t # s => explanations'[t] = explanations[t]
    BY <1>2, <1>5, <2>3 DEF IInv, ReadyIsAnnounced, TablesOK
  <2>8. ReadyIsAnnounced'
    <3>1. IsInjective(outbox')
      BY <2>6 DEF IInv, ReadyIsAnnounced, IsInjective
    <3>2. \A t \in Subjects : Contains(outbox', t) <=> t = s \/ Contains(outbox, t)
      BY <2>6 DEF Contains
    <3> QED  BY <2>4, <2>7, <3>1, <3>2 DEF IInv, ReadyIsAnnounced
  <2>9. PublishedWasSent' /\ RowIsPast'
    BY <1>3 DEF IInv, PublishedWasSent, RowIsPast, queueVars
  <2>10. ActivityOK(a)'
    <3>1. PICK b : b = proc[w] /\ ActivityOK(b)
      BY <1>2
    <3>2. a \in Activity /\ a.doing = "acking" /\ a.req = b.req /\ a.then = b.then
          /\ a.marked = b.marked /\ a.copies = b.copies
      <4>1. b \in Activity /\ a = [b EXCEPT !.doing = "acking"]
        BY <2>2, <3>1 DEF ActivityOK
      <4> HIDE DEF Queue!JobState
      <4> QED  BY <4>1 DEF Activity
    <3>3. Stored(a.req)'
      BY <1>1, <2>1, <2>4, <2>7, <3>1, <3>2 DEF Stored
    <3>4. /\ \A t \in a.marked : sent'[t] > 0
          /\ \A q \in Requests : a.copies[q] # NoRecord => Past(a.copies[q], jobs'[q])
      BY <1>3, <3>1, <3>2 DEF ActivityOK, queueVars
    <3>5. a.req \in Requests
      BY <1>1, <1>2, <3>1, <3>2
    <3> QED  BY <3>2, <3>3, <3>4, <3>5 DEF ActivityOK, Activity, Stored, Past
  <2>11. \A t \in Subjects : /\ sent[t] <= sent'[t]
                             /\ explanations[t] # NoRecord => explanations'[t] = explanations[t]
    BY <1>2, <1>3, <2>7 DEF TablesOK
  <2> QED  BY <1>2, <1>3, <2>3, <2>5, <2>8, <2>9, <2>10, <2>11, TableStepKeeps
<1> QED  BY <1>4, <1>5

-------------------------------------------------------------------------------
(* The relay.                                                               *)

LEMMA EventsFinite == ASSUME TablesOK PROVE IsFiniteSet(Unpublished)
<1>1. outbox \in Seq(Subjects) /\ DOMAIN outbox = 1 .. Len(outbox) /\ Len(outbox) \in Nat
  BY LenProperties DEF TablesOK
<1>2. PICK S : S = {outbox[i] : i \in 1 .. Len(outbox)}
  OBVIOUS
<1>3. IsFiniteSet(S)
  <2>1. outbox \in Surjection(1 .. Len(outbox), S)
    BY <1>1, <1>2 DEF Surjection
  <2>2. IsFiniteSet(1 .. Len(outbox))
    BY <1>1, FS_Interval
  <2> QED  BY <2>1, <2>2, FS_Surjection
<1>4. Unpublished \subseteq S
  BY <1>1, <1>2 DEF Unpublished, Events, Contains
<1> QED  BY <1>3, <1>4, FS_Subset

LEMMA ListUnpublishedIInv ==
    ASSUME IInv, NEW p \in Publishers, ListUnpublished(p)
    PROVE  IInv'
<1>1. PICK batch \in SetToSeqs(Unpublished) :
         Becomes(p, [Idle EXCEPT !.doing = "relaying", !.events = batch])
  BY DEF ListUnpublished
<1>2. batch \in Seq(Subjects)
  <2>1. IsFiniteSet(Unpublished)
    BY EventsFinite DEF IInv
  <2>2. PICK n : n = Cardinality(Unpublished) /\ n \in Nat
    BY <2>1, FS_CardinalityType
  <2>3. batch \in [1 .. n -> Subjects]
    BY <1>1, <2>2 DEF SetToSeqs, Unpublished, Events
  <2> QED  BY <2>2, <2>3, SeqDef
<1>3. PICK a : a = [Idle EXCEPT !.doing = "relaying", !.events = batch]
  OBVIOUS
<1>4. ActivityOK(a)
  BY <1>2, <1>3, IdleIsOK DEF ActivityOK, Activity, Idle
<1>5. /\ UNCHANGED <<queueVars, tables, relay>> /\ p \in Processes
      /\ trouble' \in [aborts : 0 .. Aborts, sink : 0 .. SinkFailures]
  BY DEF ListUnpublished, IInv, TablesOK, Processes
<1> QED  BY <1>1, <1>3, <1>4, <1>5, LocalStepKeeps

\* The event a publisher is working on, and what is left after it.
LEMMA BatchOK ==
    ASSUME IInv, NEW p \in Publishers, proc[p].events # <<>>
    PROVE  /\ p \in Processes /\ ActivityOK(proc[p]) /\ TablesOK
           /\ Head(proc[p].events) \in Subjects
           /\ Tail(proc[p].events) \in Seq(Subjects)
<1>1. p \in Processes /\ ActivityOK(proc[p]) /\ TablesOK
  BY DEF IInv, Processes, ThreadsOK
<1>2. proc[p].events \in Seq(Subjects)
  BY <1>1 DEF ActivityOK, Activity
<1> QED  BY <1>1, <1>2, HeadTailProperties

LEMMA RelayIInv ==
    ASSUME IInv, NEW p \in Publishers, Relay(p)
    PROVE  IInv'
<1>1. PICK s, a : s = Head(proc[p].events) /\ a = [proc[p] EXCEPT !.doing = "marking"]
  OBVIOUS
<1>2. /\ p \in Processes /\ ActivityOK(proc[p]) /\ TablesOK /\ s \in Subjects
  BY <1>1, BatchOK DEF Relay
<1>3. /\ sent' = [sent EXCEPT ![s] = @ + 1] /\ Becomes(p, a)
      /\ UNCHANGED <<queueVars, tables, outbox, published, trouble>>
      /\ proc[p].events # <<>>
  BY <1>1 DEF Relay
<1>4. TablesOK'
  BY <1>2, <1>3 DEF TablesOK, tables
<1>5. /\ \A t \in Subjects : sent[t] <= sent'[t]
      /\ sent'[s] > 0
  BY <1>2, <1>3 DEF TablesOK
<1>6. ReadyIsAnnounced' /\ RowIsPast'
  BY <1>3 DEF IInv, ReadyIsAnnounced, RowIsPast, queueVars, tables
<1>7. PublishedWasSent'
  <2>1. \A t \in published : t \in Subjects /\ sent[t] \in Nat /\ sent'[t] \in Nat
    BY <1>2, <1>4, <1>3 DEF TablesOK
  <2> QED  BY <1>3, <1>5, <2>1 DEF IInv, PublishedWasSent
<1>8. ActivityOK(a)'
  <2>1. PICK b : b = proc[p] /\ ActivityOK(b)
    BY <1>2
  <2>2. /\ a \in Activity /\ b \in Activity /\ a.doing = "marking" /\ a.req = b.req
        /\ a.then = b.then /\ a.events = b.events /\ a.marked = b.marked
        /\ a.copies = b.copies
    <3>1. b \in Activity /\ a = [b EXCEPT !.doing = "marking"]
      BY <1>1, <2>1 DEF ActivityOK
    <3> HIDE DEF Queue!JobState
    <3> QED  BY <3>1 DEF Activity
  <2>3. a.events # <<>> /\ sent'[Head(a.events)] > 0
    BY <1>1, <1>3, <1>5, <2>1, <2>2
  <2>4. \A t \in a.marked : sent'[t] > 0
    <3>1. \A t \in b.marked : t \in Subjects /\ sent[t] > 0
      BY <2>1, <2>2 DEF ActivityOK, Activity
    <3>2. \A t \in Subjects : sent[t] \in Nat /\ sent'[t] \in Nat
      BY <1>2, <1>4 DEF TablesOK
    <3> QED  BY <1>5, <2>2, <3>1, <3>2
  <2>5. \A q \in Requests : a.copies[q] # NoRecord => Past(a.copies[q], jobs'[q])
    BY <1>3, <2>1, <2>2 DEF ActivityOK, queueVars
  <2>6. a.then = "generating" => a.req \in Requests
    BY <2>1, <2>2 DEF ActivityOK
  <2> QED  BY <2>2, <2>3, <2>4, <2>5, <2>6 DEF ActivityOK, Activity, Past
<1>9. UNCHANGED queueVars /\ UNCHANGED explanations
  BY <1>3 DEF tables
<1> QED  BY <1>2, <1>3, <1>4, <1>5, <1>6, <1>7, <1>8, <1>9, TableStepKeeps

\* A publisher that goes on to the next event of its batch stays right: it
\* has marked nothing, or what it has just relayed.
LEMMA NextEventOK ==
    ASSUME IInv, NEW p \in Publishers, proc[p].events # <<>>,
           NEW s, s = Head(proc[p].events),
           NEW touched \in SUBSET Subjects, NEW marked \in SUBSET Subjects,
           marked \subseteq proc[p].marked \cup {s},
           s \in marked => s \in proc[p].marked \/ sent[s] > 0,
           NEW a, a = [proc[p] EXCEPT !.doing = "relaying", !.events = Tail(@),
                                      !.touched = touched, !.marked = marked]
    PROVE  ActivityOK(a)
<1>1. PICK b : b = proc[p]
  OBVIOUS
<1>2. /\ ActivityOK(b) /\ Tail(b.events) \in Seq(Subjects)
  BY <1>1, BatchOK
<1>3. b \in Activity /\ a = [b EXCEPT !.doing = "relaying", !.events = Tail(b.events),
                                      !.touched = touched, !.marked = marked]
  BY <1>1, <1>2 DEF ActivityOK
<1>4. /\ a \in Activity /\ a.doing = "relaying" /\ a.req = b.req /\ a.then = b.then
      /\ a.marked = marked /\ a.copies = b.copies
  <2> HIDE DEF Queue!JobState
  <2> QED  BY <1>2, <1>3 DEF Activity
<1>5. \A t \in marked : sent[t] > 0
  BY <1>1, <1>2 DEF ActivityOK
<1> QED  BY <1>2, <1>4, <1>5 DEF ActivityOK

LEMMA RecordAttemptIInv ==
    ASSUME IInv, NEW p \in Publishers, RecordAttempt(p)
    PROVE  IInv'
<1>1. PICK s : s = Head(proc[p].events)
  OBVIOUS
<1>2. /\ p \in Processes /\ ActivityOK(proc[p]) /\ TablesOK /\ s \in Subjects
  BY <1>1, BatchOK DEF RecordAttempt
<1>3. PICK a : a = [proc[p] EXCEPT !.doing = "relaying", !.events = Tail(@),
                                   !.touched = @ \cup {s}, !.marked = @]
  OBVIOUS
<1>4. /\ Becomes(p, a) /\ UNCHANGED <<queueVars, tables, relay>>
  <2>1. a = [proc[p] EXCEPT !.events = Tail(@), !.touched = @ \cup {s}]
    BY <1>2, <1>3 DEF RecordAttempt, ActivityOK, Activity
  <2> QED  BY <1>1, <2>1 DEF RecordAttempt
<1>5. trouble' \in [aborts : 0 .. Aborts, sink : 0 .. SinkFailures]
  <2>1. /\ trouble \in [aborts : 0 .. Aborts, sink : 0 .. SinkFailures]
        /\ trouble.sink < SinkFailures
        /\ trouble' = [trouble EXCEPT !.sink = @ + 1]
    BY DEF RecordAttempt, IInv, TablesOK
  <2>2. Aborts \in Nat /\ SinkFailures \in Nat
    BY ExplanationsAssumption
  <2> QED  BY <2>1, <2>2
<1>6. ActivityOK(a)
  <2>1. /\ proc[p].touched \cup {s} \in SUBSET Subjects
        /\ proc[p].marked \in SUBSET Subjects
        /\ proc[p].events # <<>>
    BY <1>2 DEF ActivityOK, Activity, RecordAttempt
  <2> QED  BY <1>1, <1>3, <2>1, NextEventOK
<1> QED  BY <1>2, <1>4, <1>5, <1>6, LocalStepKeeps

LEMMA MarkPublishedIInv ==
    ASSUME IInv, NEW p \in Publishers, MarkPublished(p)
    PROVE  IInv'
<1>1. PICK s : s = Head(proc[p].events)
  OBVIOUS
<1>2. proc[p].events # <<>> /\ sent[s] > 0
  <2>1. ActivityOK(proc[p]) /\ proc[p].doing = "marking"
    BY DEF MarkPublished, IInv, ThreadsOK, Processes
  <2> QED  BY <1>1, <2>1 DEF ActivityOK
<1>3. p \in Processes /\ ActivityOK(proc[p]) /\ TablesOK /\ s \in Subjects
  BY <1>1, <1>2, BatchOK
<1>4. PICK touched, marked :
         /\ touched = IF s \in published THEN proc[p].touched ELSE proc[p].touched \cup {s}
         /\ marked = IF s \in published THEN proc[p].marked ELSE proc[p].marked \cup {s}
  OBVIOUS
<1>5. PICK a : a = [proc[p] EXCEPT !.doing = "relaying", !.events = Tail(@),
                                   !.touched = touched, !.marked = marked]
  OBVIOUS
<1>6. Becomes(p, a) /\ UNCHANGED <<queueVars, tables, relay, trouble>>
  BY <1>1, <1>4, <1>5 DEF MarkPublished
<1>7. ActivityOK(a)
  <2>1. touched \in SUBSET Subjects /\ marked \in SUBSET Subjects
    BY <1>3, <1>4 DEF ActivityOK, Activity
  <2> QED  BY <1>1, <1>2, <1>4, <1>5, <2>1, NextEventOK
<1>8. trouble' \in [aborts : 0 .. Aborts, sink : 0 .. SinkFailures]
  BY <1>3, <1>6 DEF TablesOK
<1> QED  BY <1>3, <1>6, <1>7, <1>8, LocalStepKeeps

LEMMA CommitBatchIInv ==
    ASSUME IInv, NEW p \in Publishers, CommitBatch(p)
    PROVE  IInv'
<1>1. p \in Processes /\ ActivityOK(proc[p]) /\ TablesOK
  BY DEF IInv, Processes, ThreadsOK
<1>2. /\ published' = published \cup proc[p].marked /\ Becomes(p, Idle)
      /\ UNCHANGED <<queueVars, tables, outbox, sent, trouble>>
  BY DEF CommitBatch
<1>3. TablesOK' /\ PublishedWasSent'
  <2>1. proc[p].marked \subseteq Subjects /\ \A s \in proc[p].marked : sent[s] > 0
    BY <1>1 DEF ActivityOK, Activity
  <2> QED  BY <1>1, <1>2, <2>1 DEF IInv, TablesOK, PublishedWasSent, tables
<1>4. ReadyIsAnnounced' /\ RowIsPast'
  BY <1>2 DEF IInv, ReadyIsAnnounced, RowIsPast, queueVars, tables
<1>5. /\ \A s \in Subjects : sent[s] <= sent'[s]
      /\ UNCHANGED queueVars /\ UNCHANGED explanations
  BY <1>1, <1>2 DEF TablesOK, tables
<1> QED  BY <1>1, <1>2, <1>3, <1>4, <1>5, BecomesIdle, TableStepKeeps

-------------------------------------------------------------------------------
(* The theorems.                                                            *)

LEMMA NextIInv == IInv /\ [Next]_vars => IInv'
<1> SUFFICES ASSUME IInv, [Next]_vars PROVE IInv'
  OBVIOUS
<1>1. ASSUME NEW c \in Callers, CallerStep(c) PROVE IInv'
  BY <1>1, SavePendingIInv, EnqueueJobIInv DEF CallerStep
<1>2. ASSUME NEW w \in Workers, WorkerStep(w) PROVE IInv'
  BY <1>2, ClaimIInv, PersistIInv, ReportUnavailableIInv, AckJobIInv DEF WorkerStep
<1>3. ASSUME NEW p \in Publishers, PublisherStep(p) PROVE IInv'
  BY <1>3, ListUnpublishedIInv, RelayIInv, MarkPublishedIInv, CommitBatchIInv
     DEF PublisherStep
<1>4. ASSUME NEW p \in Callers \cup Workers \cup Sweepers, NEW r \in Requests,
             Mirror(p, r)
      PROVE  IInv'
  <2>1. p \in Processes
    BY DEF Processes
  <2> QED  BY <1>4, <2>1, MirrorIInv
<1>5. CASE UNCHANGED vars
  <2>1. UNCHANGED queueVars /\ UNCHANGED <<tables, relay>> /\ UNCHANGED proc
        /\ UNCHANGED trouble
    BY <1>5 DEF vars, queueVars, tables, relay
  <2>2. QueueProofs!IInv'
    BY <2>1, QueueInv DEF IInv, QueueStep
  <2>3. OwnKey' /\ TablesOK' /\ ReadyIsAnnounced' /\ PublishedWasSent'
        /\ SucceededIsExplained' /\ RowIsPast'
    BY <2>1 DEF IInv, OwnKey, TablesOK, ReadyIsAnnounced, PublishedWasSent,
                SucceededIsExplained, RowIsPast, queueVars, tables, relay
  <2>4. ThreadsOK'
    BY <2>1 DEF IInv, ThreadsOK, ActivityOK, Activity, Stored, Past,
                queueVars, tables, relay
  <2> QED  BY <2>2, <2>3, <2>4 DEF IInv
<1> QED  BY <1>1, <1>2, <1>3, <1>4, <1>5, FindByKeyIInv, RecoverStaleIInv,
            RecordAttemptIInv, AbortIInv, TickIInv DEF Next

LEMMA Invariant == Spec => []IInv
BY InitIInv, NextIInv, PTL DEF Spec

\* Every variable keeps its type, the queue inside the pipeline too.
THEOREM TypeCorrect == Spec => []TypeOK
BY Invariant, IInvTypeOK, PTL

\* _persist writes explanation and event together: one is there exactly when
\* the other is, and the event is there once.
THEOREM ReadyAnnounced == Spec => []ReadyIsAnnounced
<1>1. IInv => ReadyIsAnnounced
  BY DEF IInv
<1> QED  BY <1>1, Invariant, PTL

\* publish_pending marks no event the sink has not taken.
THEOREM PublishedAfterSent == Spec => []PublishedWasSent
<1>1. IInv => PublishedWasSent
  BY DEF IInv
<1> QED  BY <1>1, Invariant, PTL

\* process_pending acknowledges a job only when its own explanation is stored.
THEOREM SucceededExplained == Spec => []SucceededIsExplained
<1>1. IInv => SucceededIsExplained
  BY DEF IInv
<1> QED  BY <1>1, Invariant, PTL

\* The rows DurableJobQueue saves tell the past of the queue and never what
\* did not happen.
THEOREM RowsTellThePast == Spec => []RowIsPast
<1>1. IInv => RowIsPast
  BY DEF IInv
<1> QED  BY <1>1, Invariant, PTL
-------------------------------------------------------------------------------
(* How often an event is relayed.                                           *)

\* A thread that has nothing of a batch, and one that has: what is left of it
\* holds no event twice and none that is marked.
Quiet(a) == a.doing \notin {"relaying", "marking"} /\ a.events = <<>> /\ a.marked = {}

OnBatch(a) ==
    /\ a.doing \in {"relaying", "marking"}
    /\ IsInjective(a.events)
    /\ \A i \in DOMAIN a.events : a.events[i] \notin a.marked

\* A publisher that does a sends event s no more, unless its batch aborts: it
\* has just sent it, has marked it, or has not listed what is now published.
Done(a, s, pub) ==
    \/ a.doing = "marking" /\ Head(a.events) = s
    \/ s \in a.marked
    \/ s \in pub /\ ~Contains(a.events, s)

DoneWith(s) == {p \in Publishers : Done(proc[p], s, published)}

\* Every relay of an event is one publisher's, or the batch it was part of has
\* aborted.
RelaysCounted ==
    /\ \A p \in Processes : Quiet(proc[p]) \/ OnBatch(proc[p])
    /\ \A s \in Subjects : sent[s] <= Cardinality(DoneWith(s)) + trouble.aborts

LEMMA CountOfMore ==
    ASSUME NEW A, NEW B \in SUBSET Publishers, A \subseteq B
    PROVE  Cardinality(A) <= Cardinality(B) /\ Cardinality(A) \in Nat
<1>1. IsFiniteSet(B)
  BY ExplanationsAssumption, FS_Subset
<1> QED  BY <1>1, FS_Subset, FS_CardinalityType

LEMMA CountOfOneMore ==
    ASSUME NEW A \in SUBSET Publishers, NEW B \in SUBSET Publishers, NEW p,
           p \notin A, A \cup {p} \subseteq B
    PROVE  Cardinality(A) + 1 <= Cardinality(B)
<1>1. IsFiniteSet(A)
  BY ExplanationsAssumption, FS_Subset
<1>2. Cardinality(A \cup {p}) = Cardinality(A) + 1
  BY <1>1, FS_AddElement
<1> QED  BY <1>2, CountOfMore

LEMMA CountOfOneLess ==
    ASSUME NEW A \in SUBSET Publishers, NEW B \in SUBSET Publishers, NEW p,
           A \subseteq B \cup {p}
    PROVE  Cardinality(A) <= Cardinality(B) + 1
<1>1. IsFiniteSet(B) /\ IsFiniteSet(B \cup {p})
  <2>1. IsFiniteSet(B)
    BY ExplanationsAssumption, FS_Subset
  <2> QED  BY <2>1, FS_AddElement
<1>2. /\ Cardinality(B \cup {p}) <= Cardinality(B) + 1
      /\ Cardinality(B) \in Nat /\ Cardinality(B \cup {p}) \in Nat
  <2>1. Cardinality(B) \in Nat /\ Cardinality(B \cup {p}) \in Nat
    BY <1>1, FS_CardinalityType
  <2>2. \/ Cardinality(B \cup {p}) = Cardinality(B)
        \/ Cardinality(B \cup {p}) = Cardinality(B) + 1
    BY <1>1, FS_AddElement
  <2> QED  BY <2>1, <2>2
<1>3. Cardinality(A) <= Cardinality(B \cup {p}) /\ Cardinality(A) \in Nat
  <2>1. IsFiniteSet(A)
    BY <1>1, FS_Subset
  <2> QED  BY <1>1, <2>1, FS_Subset, FS_CardinalityType
<1> QED  BY <1>2, <1>3

\* A step of one thread that relays nothing and takes back nothing.
LEMMA OneThreadKeepsCount ==
    ASSUME IInv, RelaysCounted, NEW p \in Processes, NEW a, Becomes(p, a),
           UNCHANGED sent, published \subseteq published',
           trouble'.aborts = trouble.aborts,
           Quiet(a) \/ OnBatch(a),
           \A s \in Subjects : Done(proc[p], s, published) => Done(a, s, published')
    PROVE  RelaysCounted'
<1>1. /\ proc' = [proc EXCEPT ![p] = a] /\ DOMAIN proc = Processes
      /\ Publishers \subseteq Processes
  BY DEF Becomes, IInv, ThreadsOK, Processes
<1>2. \A q \in Processes : Quiet(proc'[q]) \/ OnBatch(proc'[q])
  BY <1>1 DEF RelaysCounted
<1>3. ASSUME NEW s \in Subjects
      PROVE  sent'[s] <= Cardinality(DoneWith(s)') + trouble'.aborts
  <2>1. PICK A, B : A = DoneWith(s) /\ B = DoneWith(s)'
    OBVIOUS
  <2>2. A \subseteq B
    BY <1>1, <2>1 DEF DoneWith, Done
  <2>3. A \in SUBSET Publishers /\ B \in SUBSET Publishers
    BY <2>1 DEF DoneWith
  <2>4. /\ Cardinality(A) <= Cardinality(B)
        /\ Cardinality(A) \in Nat /\ Cardinality(B) \in Nat
    BY <2>2, <2>3, CountOfMore
  <2>5. /\ sent[s] <= Cardinality(A) + trouble.aborts /\ sent'[s] = sent[s]
        /\ sent[s] \in Nat /\ trouble.aborts \in Nat
    BY <2>1, ExplanationsAssumption DEF RelaysCounted, IInv, TablesOK
  <2>6. sent'[s] <= Cardinality(B) + trouble'.aborts
    BY <2>4, <2>5
  <2> QED  BY <2>1, <2>6
<1> QED  BY <1>2, <1>3 DEF RelaysCounted, Quiet, OnBatch

\* A step of a thread that is on no batch, before and after.
LEMMA QuietStepKeepsCount ==
    ASSUME IInv, RelaysCounted, NEW p \in Processes,
           proc[p].doing \notin {"relaying", "marking"},
           \E a : Quiet(a) /\ Becomes(p, a),
           UNCHANGED <<published, sent, trouble>>
    PROVE  RelaysCounted'
<1>1. PICK a : Quiet(a) /\ Becomes(p, a)
  OBVIOUS
<1>2. Quiet(proc[p])
  BY DEF RelaysCounted, OnBatch
<1>3. \A s : ~Contains(a.events, s)
  BY <1>1 DEF Quiet, Contains
<1>4. \A s \in Subjects : Done(proc[p], s, published) => Done(a, s, published')
  BY <1>1, <1>2, <1>3 DEF Done, Quiet
<1> QED  BY <1>1, <1>4, OneThreadKeepsCount


LEMMA MirroringIsQuiet ==
    ASSUME NEW p, NEW rs, NEW next, Mirroring(p, rs, next)
    PROVE  \E a : Quiet(a) /\ Becomes(p, a)
<1>1. \A q, c : Quiet([Idle EXCEPT !.doing = "mirroring", !.req = q,
                                   !.copies = c, !.then = next])
  BY DEF Idle, Quiet
<1>2. \E q, c : Becomes(p, [Idle EXCEPT !.doing = "mirroring", !.req = q,
                                        !.copies = c, !.then = next])
  BY Zenon DEF Mirroring
<1> QED  BY <1>1, <1>2, Zenon

LEMMA IdleIsQuiet == Quiet(Idle) /\ Idle.doing = "idle"
BY DEF Idle, Quiet

\* Callers, workers and sweepers never touch a batch.
LEMMA CallerStepCount ==
    ASSUME IInv, RelaysCounted, NEW c \in Callers,
           CallerStep(c) \/ \E r \in Requests : FindByKey(c, r)
    PROVE  RelaysCounted'
<1>1. c \in Processes /\ ActivityOK(proc[c])
  BY DEF IInv, Processes, ThreadsOK
<1>2. UNCHANGED <<published, sent, trouble>>
  BY DEF CallerStep, FindByKey, SavePending, EnqueueJob, relay
<1>3. proc[c].doing \notin {"relaying", "marking"}
  BY IdleIsQuiet DEF CallerStep, FindByKey, SavePending, EnqueueJob, Idle
<1>4. \E a : Quiet(a) /\ Becomes(c, a)
  <2>1. CASE SavePending(c)
    <3>1. PICK b, a : b = proc[c] /\ a = [b EXCEPT !.doing = "enqueueing"]
      OBVIOUS
    <3>2. Quiet(b) /\ b \in Activity
      BY <1>1, <1>3, <3>1 DEF RelaysCounted, OnBatch, ActivityOK
    <3>3. Quiet(a)
      BY <3>1, <3>2 DEF Quiet, Activity
    <3> QED  BY <2>1, <3>1, <3>3 DEF SavePending
  <2>2. CASE EnqueueJob(c)
    BY <2>2, MirroringIsQuiet DEF EnqueueJob
  <2>3. CASE \E r \in Requests : FindByKey(c, r)
    <3>1. PICK r \in Requests : FindByKey(c, r)
      BY <2>3
    <3>2. PICK a : a = [Idle EXCEPT !.doing = "saving", !.req = r]
      OBVIOUS
    <3>3. Quiet(a)
      BY <3>2 DEF Idle, Quiet
    <3> QED  BY <3>1, <3>2, <3>3 DEF FindByKey
  <2> QED  BY <2>1, <2>2, <2>3 DEF CallerStep
<1> QED  BY <1>1, <1>2, <1>3, <1>4, QuietStepKeepsCount

LEMMA WorkerStepCount ==
    ASSUME IInv, RelaysCounted, NEW w \in Workers, WorkerStep(w)
    PROVE  RelaysCounted'
<1>1. w \in Processes /\ ActivityOK(proc[w])
  BY DEF IInv, Processes, ThreadsOK
<1>2. CASE Claim(w)
  <2>1. proc[w].doing = "idle" /\ UNCHANGED <<published, sent, trouble>>
    BY <1>2, IdleIsQuiet DEF Claim, relay
  <2>2. \E a : Quiet(a) /\ Becomes(w, a)
    BY <1>2, MirroringIsQuiet DEF Claim
  <2> QED  BY <1>1, <2>1, <2>2, QuietStepKeepsCount
<1>3. CASE \E answer \in Answers : Persist(w, answer)
  <2>1. PICK answer \in Answers : Persist(w, answer)
    BY <1>3
  <2>2. proc[w].doing = "generating" /\ UNCHANGED <<published, sent, trouble>>
    BY <2>1 DEF Persist
  <2>3. PICK b, a : b = proc[w] /\ a = [b EXCEPT !.doing = "acking"]
    OBVIOUS
  <2>4. Quiet(b) /\ b \in Activity
    BY <1>1, <2>2, <2>3 DEF RelaysCounted, OnBatch, ActivityOK
  <2>5. Quiet(a)
    BY <2>3, <2>4 DEF Quiet, Activity
  <2>6. Becomes(w, a) \/ Becomes(w, Idle)
    BY <2>1, <2>3 DEF Persist
  <2>7. \E x : Quiet(x) /\ Becomes(w, x)
    BY <2>5, <2>6, IdleIsQuiet
  <2> QED  BY <1>1, <2>2, <2>7, QuietStepKeepsCount
<1>4. CASE \E answer \in Answers : ReportUnavailable(w, answer)
  <2>1. proc[w].doing = "generating" /\ UNCHANGED <<published, sent, trouble>>
    BY <1>4 DEF ReportUnavailable, relay
  <2>2. Mirroring(w, {proc[w].req}, "idle") \/ Becomes(w, Idle)
    BY <1>4 DEF ReportUnavailable
  <2>3. \E a : Quiet(a) /\ Becomes(w, a)
    BY <2>2, MirroringIsQuiet, IdleIsQuiet
  <2> QED  BY <1>1, <2>1, <2>3, QuietStepKeepsCount
<1>5. CASE AckJob(w)
  <2>1. proc[w].doing = "acking" /\ UNCHANGED <<published, sent, trouble>>
    BY <1>5 DEF AckJob, relay
  <2>2. Mirroring(w, {proc[w].req}, "idle") \/ Becomes(w, Idle)
    BY <1>5 DEF AckJob
  <2>3. \E a : Quiet(a) /\ Becomes(w, a)
    BY <2>2, MirroringIsQuiet, IdleIsQuiet
  <2> QED  BY <1>1, <2>1, <2>3, QuietStepKeepsCount
<1> QED  BY <1>2, <1>3, <1>4, <1>5 DEF WorkerStep

LEMMA MirrorCount ==
    ASSUME IInv, RelaysCounted, NEW p \in Processes, NEW r \in Requests, Mirror(p, r)
    PROVE  RelaysCounted'
<1>1. PICK b, left : b = proc[p] /\ left = [b.copies EXCEPT ![r] = NoRecord]
  OBVIOUS
<1>2. b.doing = "mirroring" /\ UNCHANGED <<published, sent, trouble>>
  BY <1>1 DEF Mirror, relay
<1>3. Quiet(b) /\ b \in Activity
  BY <1>1, <1>2 DEF RelaysCounted, OnBatch, IInv, ThreadsOK, ActivityOK
<1>4. PICK a, c : a = [b EXCEPT !.copies = left]
                  /\ c = [Idle EXCEPT !.doing = b.then, !.req = b.req]
  OBVIOUS
<1>5. Quiet(a) /\ Quiet(c)
  BY <1>3, <1>4 DEF Quiet, Activity, Idle
<1>6. Becomes(p, a) \/ Becomes(p, Idle) \/ Becomes(p, c)
  BY <1>1, <1>4 DEF Mirror
<1>7. \E x : Quiet(x) /\ Becomes(p, x)
  BY <1>5, <1>6, IdleIsQuiet
<1> QED  BY <1>1, <1>2, <1>7, QuietStepKeepsCount

LEMMA RecoverStaleCount ==
    ASSUME IInv, RelaysCounted, NEW p \in Sweepers, RecoverStale(p)
    PROVE  RelaysCounted'
<1>1. p \in Processes /\ proc[p].doing = "idle" /\ UNCHANGED <<published, sent, trouble>>
  BY IdleIsQuiet DEF RecoverStale, relay, Processes
<1>2. \E a : Quiet(a) /\ Becomes(p, a)
  BY MirroringIsQuiet DEF RecoverStale
<1> QED  BY <1>1, <1>2, QuietStepKeepsCount

-------------------------------------------------------------------------------
(* The steps of a publisher.                                                *)

\* The event at the head of a batch is not in the rest of it.
LEMMA RestOfBatch ==
    ASSUME NEW a \in Activity, OnBatch(a), a.events # <<>>
    PROVE  /\ IsInjective(Tail(a.events))
           /\ Head(a.events) \in Subjects /\ Head(a.events) \notin a.marked
           /\ \A s \in Subjects : Contains(Tail(a.events), s)
                                    <=> Contains(a.events, s) /\ s # Head(a.events)
           /\ \A i \in DOMAIN Tail(a.events) :
                 /\ Tail(a.events)[i] \notin a.marked
                 /\ Tail(a.events)[i] # Head(a.events)
<1>1. PICK e : e = a.events
  OBVIOUS
<1>2. e \in Seq(Subjects) /\ e # <<>> /\ IsInjective(e)
      /\ \A i \in DOMAIN e : e[i] \notin a.marked
  BY <1>1 DEF Activity, OnBatch
<1>3. /\ Len(e) \in Nat /\ Len(e) >= 1 /\ DOMAIN e = 1 .. Len(e)
      /\ Head(e) = e[1] /\ Head(e) \in Subjects
      /\ Tail(e) \in Seq(Subjects) /\ Len(Tail(e)) = Len(e) - 1
      /\ DOMAIN Tail(e) = 1 .. (Len(e) - 1)
      /\ \A i \in 1 .. (Len(e) - 1) : Tail(e)[i] = e[i + 1]
  BY <1>2, HeadTailProperties, LenProperties
<1>4. \A i, k \in 1 .. Len(e) : e[i] = e[k] => i = k
  BY <1>2, <1>3 DEF IsInjective
<1>5. IsInjective(Tail(e))
  BY <1>3, <1>4 DEF IsInjective
<1>6. \A i \in 1 .. (Len(e) - 1) : Tail(e)[i] \notin a.marked /\ Tail(e)[i] # e[1]
  BY <1>2, <1>3, <1>4
<1>7. ASSUME NEW s \in Subjects
      PROVE  Contains(Tail(e), s) <=> Contains(e, s) /\ s # e[1]
  <2>1. ASSUME Contains(Tail(e), s) PROVE Contains(e, s) /\ s # e[1]
    <3>1. PICK i \in 1 .. (Len(e) - 1) : Tail(e)[i] = s
      BY <1>3, <2>1 DEF Contains
    <3>2. i + 1 \in 1 .. Len(e) /\ e[i + 1] = s
      BY <1>3, <3>1
    <3> QED  BY <1>6, <3>1, <3>2 DEF Contains
  <2>2. ASSUME Contains(e, s), s # e[1] PROVE Contains(Tail(e), s)
    <3>1. PICK i \in 1 .. Len(e) : e[i] = s
      BY <2>2 DEF Contains
    <3>2. i - 1 \in 1 .. (Len(e) - 1) /\ Tail(e)[i - 1] = s
      BY <1>3, <2>2, <3>1
    <3> QED  BY <1>3, <3>2 DEF Contains
  <2> QED  BY <2>1, <2>2
<1> QED  BY <1>1, <1>2, <1>3, <1>5, <1>6, <1>7

\* A publisher at an event of its batch.
LEMMA AtEvent ==
    ASSUME IInv, RelaysCounted, NEW p \in Publishers,
           proc[p].doing \in {"relaying", "marking"}
    PROVE  p \in Processes /\ proc[p] \in Activity /\ OnBatch(proc[p])
BY DEF IInv, Processes, ThreadsOK, ActivityOK, RelaysCounted, Quiet

LEMMA ListUnpublishedCount ==
    ASSUME IInv, RelaysCounted, NEW p \in Publishers, ListUnpublished(p)
    PROVE  RelaysCounted'
<1>1. PICK batch \in SetToSeqs(Unpublished) :
         Becomes(p, [Idle EXCEPT !.doing = "relaying", !.events = batch])
  BY DEF ListUnpublished
<1>2. PICK a : a = [Idle EXCEPT !.doing = "relaying", !.events = batch]
  OBVIOUS
<1>3. a.doing = "relaying" /\ a.events = batch /\ a.marked = {}
  BY <1>2 DEF Idle
<1>4. /\ IsInjective(batch) /\ DOMAIN batch = 1 .. Len(batch)
      /\ \A i \in DOMAIN batch : batch[i] \notin published
  <2>1. IsFiniteSet(Unpublished)
    BY EventsFinite DEF IInv
  <2>2. PICK n : n = Cardinality(Unpublished) /\ n \in Nat
    BY <2>1, FS_CardinalityType
  <2>3. batch \in [1 .. n -> Unpublished] /\ IsInjective(batch)
    <3>1. /\ batch \in [1 .. n -> Unpublished]
          /\ \A i, k \in 1 .. n : batch[i] = batch[k] => i = k
      BY <1>1, <2>2 DEF SetToSeqs
    <3> QED  BY <3>1 DEF IsInjective
  <2>4. batch \in Seq(Unpublished)
    BY <2>2, <2>3, SeqDef
  <2>5. DOMAIN batch = 1 .. Len(batch)
    BY <2>4, LenProperties
  <2> QED  BY <2>3, <2>5 DEF Unpublished
<1>5. OnBatch(a)
  BY <1>3, <1>4 DEF OnBatch
<1>6. p \in Processes /\ proc[p] = Idle /\ UNCHANGED <<published, sent, trouble>>
  BY DEF ListUnpublished, Processes, relay
<1>7. ASSUME NEW s \in Subjects, Done(proc[p], s, published)
      PROVE  Done(a, s, published)
  <2>1. s \in published
    BY <1>6, <1>7, IdleIsQuiet DEF Done, Quiet
  <2>2. ~Contains(batch, s)
    BY <1>4, <2>1 DEF Contains
  <2> QED  BY <1>3, <2>1, <2>2 DEF Done
<1> QED  BY <1>1, <1>2, <1>5, <1>6, <1>7, OneThreadKeepsCount

\* The publisher that relays an event was not done with it and now is.
LEMMA RelayCount ==
    ASSUME IInv, RelaysCounted, NEW p \in Publishers, Relay(p)
    PROVE  RelaysCounted'
<1>1. PICK b, e, a : b = proc[p] /\ e = Head(b.events) /\ a = [b EXCEPT !.doing = "marking"]
  OBVIOUS
<1>2. p \in Processes /\ b \in Activity /\ OnBatch(b) /\ b.doing = "relaying" /\ b.events # <<>>
  BY <1>1, AtEvent DEF Relay
<1>3. /\ sent' = [sent EXCEPT ![e] = @ + 1] /\ Becomes(p, a)
      /\ UNCHANGED <<published, trouble>>
  BY <1>1 DEF Relay
<1>4. /\ e \in Subjects /\ e \notin b.marked
      /\ Contains(b.events, e)
  <2>1. e \in Subjects /\ e \notin b.marked
    BY <1>1, <1>2, RestOfBatch
  <2>2. b.events \in Seq(Subjects)
    BY <1>2 DEF Activity
  <2>3. Len(b.events) \in Nat /\ Len(b.events) >= 1 /\ b.events[1] = e
    BY <1>1, <1>2, <2>2, HeadTailProperties, LenProperties
  <2>4. 1 \in 1 .. Len(b.events)
    BY <2>3
  <2> QED  BY <2>1, <2>3, <2>4 DEF Contains
<1>5. a.doing = "marking" /\ a.events = b.events /\ a.marked = b.marked
  BY <1>1, <1>2 DEF Activity
<1>6. ~Done(b, e, published) /\ Done(a, e, published)
      /\ \A s \in Subjects : Done(b, s, published) => Done(a, s, published)
  BY <1>1, <1>2, <1>4, <1>5 DEF Done
<1>7. OnBatch(a)
  BY <1>2, <1>5 DEF OnBatch
<1>8. /\ proc' = [proc EXCEPT ![p] = a] /\ DOMAIN proc = Processes
      /\ Publishers \subseteq Processes
  BY <1>3 DEF Becomes, IInv, ThreadsOK, Processes
<1>9. \A q \in Processes : Quiet(proc'[q]) \/ OnBatch(proc'[q])
  BY <1>7, <1>8 DEF RelaysCounted
<1>10. ASSUME NEW s \in Subjects
       PROVE  sent'[s] <= Cardinality(DoneWith(s)') + trouble'.aborts
  <2>1. PICK A, B : A = DoneWith(s) /\ B = DoneWith(s)'
    OBVIOUS
  <2>2. A \in SUBSET Publishers /\ B \in SUBSET Publishers /\ A \subseteq B
    BY <1>1, <1>3, <1>6, <1>8, <2>1 DEF DoneWith
  <2>3. /\ Cardinality(A) <= Cardinality(B)
        /\ Cardinality(A) \in Nat /\ Cardinality(B) \in Nat
    BY <2>2, CountOfMore
  <2>4. /\ sent[s] <= Cardinality(A) + trouble.aborts
        /\ sent[s] \in Nat /\ trouble.aborts \in Nat /\ trouble'.aborts = trouble.aborts
    BY <1>3, <2>1, ExplanationsAssumption DEF RelaysCounted, IInv, TablesOK
  <2>5. sent'[s] = IF s = e THEN sent[s] + 1 ELSE sent[s]
    BY <1>3, <1>4 DEF IInv, TablesOK
  <2>6. CASE s = e
    <3>1. p \notin A /\ p \in B
      BY <1>1, <1>3, <1>6, <1>8, <2>1, <2>6 DEF DoneWith
    <3>2. Cardinality(A) + 1 <= Cardinality(B)
      BY <2>2, <3>1, CountOfOneMore
    <3>3. sent'[s] <= Cardinality(B) + trouble'.aborts
      BY <2>3, <2>4, <2>5, <2>6, <3>2
    <3> QED  BY <2>1, <3>3
  <2>7. CASE s # e
    <3>1. sent'[s] <= Cardinality(B) + trouble'.aborts
      BY <2>3, <2>4, <2>5, <2>7
    <3> QED  BY <2>1, <3>1
  <2> QED  BY <2>6, <2>7
<1> QED  BY <1>9, <1>10 DEF RelaysCounted, Quiet, OnBatch

LEMMA RecordAttemptCount ==
    ASSUME IInv, RelaysCounted, NEW p \in Publishers, RecordAttempt(p)
    PROVE  RelaysCounted'
<1>1. PICK b, e, t, a : /\ b = proc[p] /\ e = Head(b.events) /\ t = b.touched \cup {e}
                        /\ a = [b EXCEPT !.events = Tail(b.events), !.touched = t]
  OBVIOUS
<1>2. p \in Processes /\ b \in Activity /\ OnBatch(b) /\ b.doing = "relaying" /\ b.events # <<>>
  BY <1>1, AtEvent DEF RecordAttempt
<1>3. Becomes(p, a)
  BY <1>1, <1>2 DEF RecordAttempt, Activity
<1>4. /\ UNCHANGED <<published, sent>> /\ trouble'.aborts = trouble.aborts
  BY DEF RecordAttempt, relay, IInv, TablesOK
<1>5. a.doing = "relaying" /\ a.events = Tail(b.events) /\ a.marked = b.marked
  BY <1>1, <1>2 DEF Activity
<1>6. OnBatch(a) /\ \A s \in Subjects : Done(b, s, published) => Done(a, s, published)
  BY <1>2, <1>5, RestOfBatch DEF OnBatch, Done
<1> QED  BY <1>1, <1>2, <1>3, <1>4, <1>6, OneThreadKeepsCount

LEMMA MarkPublishedCount ==
    ASSUME IInv, RelaysCounted, NEW p \in Publishers, MarkPublished(p)
    PROVE  RelaysCounted'
<1>1. PICK b, e : b = proc[p] /\ e = Head(b.events)
  OBVIOUS
<1>2. PICK t, m, a : /\ t = IF e \in published THEN b.touched ELSE b.touched \cup {e}
                     /\ m = IF e \in published THEN b.marked ELSE b.marked \cup {e}
                     /\ a = [b EXCEPT !.doing = "relaying", !.events = Tail(b.events),
                                      !.touched = t, !.marked = m]
  OBVIOUS
<1>3. /\ p \in Processes /\ b \in Activity /\ OnBatch(b) /\ b.doing = "marking"
      /\ b.events # <<>>
  BY <1>1, AtEvent DEF MarkPublished, IInv, ThreadsOK, ActivityOK
<1>4. Becomes(p, a) /\ UNCHANGED <<published, sent, trouble>>
  BY <1>1, <1>2 DEF MarkPublished, relay
<1>5. a.doing = "relaying" /\ a.events = Tail(b.events) /\ a.marked = m
  BY <1>2, <1>3 DEF Activity
<1>6. OnBatch(a)
  BY <1>1, <1>2, <1>3, <1>5, RestOfBatch DEF OnBatch
<1>7. \A s \in Subjects : Done(b, s, published) => Done(a, s, published)
  BY <1>1, <1>2, <1>3, <1>5, RestOfBatch DEF Done
<1> QED  BY <1>1, <1>3, <1>4, <1>6, <1>7, OneThreadKeepsCount

LEMMA CommitBatchCount ==
    ASSUME IInv, RelaysCounted, NEW p \in Publishers, CommitBatch(p)
    PROVE  RelaysCounted'
<1>1. /\ p \in Processes /\ proc[p].doing = "relaying" /\ proc[p].events = <<>>
      /\ published' = published \cup proc[p].marked /\ Becomes(p, Idle)
      /\ UNCHANGED <<sent, trouble>>
  BY DEF CommitBatch, Processes
<1>2. \A s : ~Contains(Idle.events, s)
  BY DEF Idle, Contains
<1>3. \A s \in Subjects : Done(proc[p], s, published) => Done(Idle, s, published')
  BY <1>1, <1>2 DEF Done
<1> QED  BY <1>1, <1>3, IdleIsQuiet, OneThreadKeepsCount

\* What a batch that aborts had sent, its abort accounts for.
LEMMA AbortCount ==
    ASSUME IInv, RelaysCounted, NEW p \in Processes, Abort(p)
    PROVE  RelaysCounted'
<1>1. /\ proc' = [proc EXCEPT ![p] = Idle] /\ DOMAIN proc = Processes
      /\ Publishers \subseteq Processes
      /\ UNCHANGED <<published, sent>>
      /\ trouble.aborts \in Nat /\ trouble'.aborts = trouble.aborts + 1
  BY ExplanationsAssumption
     DEF Abort, Becomes, IInv, ThreadsOK, TablesOK, Processes, relay
<1>2. \A q \in Processes : Quiet(proc'[q]) \/ OnBatch(proc'[q])
  BY <1>1, IdleIsQuiet DEF RelaysCounted
<1>3. ASSUME NEW s \in Subjects
      PROVE  sent'[s] <= Cardinality(DoneWith(s)') + trouble'.aborts
  <2>1. PICK A, B : A = DoneWith(s) /\ B = DoneWith(s)'
    OBVIOUS
  <2>2. /\ A \in SUBSET Publishers /\ B \in SUBSET Publishers
        /\ A \subseteq B \cup {p}
    BY <1>1, <2>1 DEF DoneWith, Done
  <2>3. Cardinality(A) <= Cardinality(B) + 1
    BY <2>2, CountOfOneLess
  <2>4. /\ Cardinality(A) \in Nat /\ Cardinality(B) \in Nat
    BY <2>2, CountOfMore
  <2>5. /\ sent[s] <= Cardinality(A) + trouble.aborts /\ sent[s] \in Nat
        /\ sent'[s] = sent[s]
    BY <1>1, <2>1 DEF RelaysCounted, IInv, TablesOK
  <2>6. sent'[s] <= Cardinality(B) + trouble'.aborts
    BY <1>1, <2>3, <2>4, <2>5
  <2> QED  BY <2>1, <2>6
<1> QED  BY <1>2, <1>3 DEF RelaysCounted, Quiet, OnBatch

LEMMA InitCount == Init => RelaysCounted
<1> SUFFICES ASSUME Init PROVE RelaysCounted
  OBVIOUS
<1>1. \A p \in Processes : Quiet(proc[p])
  BY IdleIsQuiet DEF Init
<1>2. ASSUME NEW s \in Subjects
      PROVE  sent[s] <= Cardinality(DoneWith(s)) + trouble.aborts
  <2>1. DoneWith(s) \in SUBSET Publishers
    BY DEF DoneWith
  <2>2. Cardinality(DoneWith(s)) \in Nat
    BY <2>1, CountOfMore
  <2> QED  BY <2>2 DEF Init
<1> QED  BY <1>1, <1>2 DEF RelaysCounted

LEMMA NextCount == IInv /\ RelaysCounted /\ [Next]_vars => RelaysCounted'
<1> SUFFICES ASSUME IInv, RelaysCounted, [Next]_vars PROVE RelaysCounted'
  OBVIOUS
<1>1. ASSUME NEW p \in Publishers, PublisherStep(p) PROVE RelaysCounted'
  BY <1>1, ListUnpublishedCount, RelayCount, MarkPublishedCount, CommitBatchCount
     DEF PublisherStep
<1>2. ASSUME NEW p \in Callers \cup Workers \cup Sweepers, NEW r \in Requests,
             Mirror(p, r)
      PROVE  RelaysCounted'
  BY <1>2, MirrorCount DEF Processes
<1>3. CASE Tick \/ UNCHANGED vars
  <2>1. UNCHANGED <<published, sent, trouble, proc>>
    BY <1>3 DEF Tick, relay, vars
  <2> QED  BY <2>1 DEF RelaysCounted, DoneWith, Done, Quiet, OnBatch
<1> QED  BY <1>1, <1>2, <1>3, CallerStepCount, WorkerStepCount, RecoverStaleCount,
            RecordAttemptCount, AbortCount DEF Next

LEMMA CountIsBounded ==
    ASSUME IInv, RelaysCounted
    PROVE  BoundedDuplication
<1> SUFFICES ASSUME NEW s \in Subjects
             PROVE  sent[s] <= Cardinality(Publishers) + trouble.aborts
  BY DEF BoundedDuplication
<1>1. DoneWith(s) \subseteq Publishers
  BY DEF DoneWith
<1>2. /\ Cardinality(DoneWith(s)) <= Cardinality(Publishers)
      /\ Cardinality(DoneWith(s)) \in Nat /\ Cardinality(Publishers) \in Nat
  BY <1>1, CountOfMore
<1>3. /\ sent[s] <= Cardinality(DoneWith(s)) + trouble.aborts
      /\ sent[s] \in Nat /\ trouble.aborts \in Nat
  BY ExplanationsAssumption DEF RelaysCounted, IInv, TablesOK
<1> QED  BY <1>2, <1>3

LEMMA CountInvariant == Spec => []RelaysCounted
BY InitCount, NextCount, Invariant, PTL DEF Spec

\* However publishers overlap, an event is relayed at most once by each of them
\* and once more for every batch that is aborted.
THEOREM DuplicationBounded == Spec => []BoundedDuplication
BY CountIsBounded, CountInvariant, Invariant, PTL

-------------------------------------------------------------------------------
(* The pipeline implements ExplanationRelay.                                *)

\* What a publisher has listed is in the outbox.
Listed(events) == \A i \in DOMAIN events : Contains(outbox, events[i])
ListedIsAnnounced == \A p \in Processes : Listed(proc[p].events)

\* A thread that drops what it has listed, keeps it or goes on to the rest.
Shrinks(p) ==
    \E a : /\ Becomes(p, a)
           /\ \/ a.events \in {<<>>, proc[p].events}
              \/ proc[p].events # <<>> /\ a.events = Tail(proc[p].events)

OutboxGrows == \A s : Contains(outbox, s) => Contains(outbox', s)

LEMMA ShrinkKeeps ==
    ASSUME IInv, ListedIsAnnounced, NEW p \in Processes, Shrinks(p), OutboxGrows
    PROVE  ListedIsAnnounced'
<1>1. PICK a : /\ Becomes(p, a)
               /\ \/ a.events \in {<<>>, proc[p].events}
                  \/ proc[p].events # <<>> /\ a.events = Tail(proc[p].events)
  BY DEF Shrinks
<1>2. DOMAIN proc = Processes /\ ActivityOK(proc[p])
  BY DEF IInv, ThreadsOK
<1>3. Listed(a.events)
  <2>1. PICK e : e = proc[p].events /\ e \in Seq(Subjects) /\ Listed(e)
    BY <1>2 DEF ActivityOK, Activity, ListedIsAnnounced
  <2>2. CASE a.events = <<>>
    BY <2>2 DEF Listed
  <2>3. CASE e # <<>> /\ a.events = Tail(e)
    <3>1. /\ Len(e) \in Nat /\ DOMAIN e = 1 .. Len(e) /\ DOMAIN Tail(e) = 1 .. (Len(e) - 1)
          /\ \A i \in 1 .. (Len(e) - 1) : Tail(e)[i] = e[i + 1]
      BY <2>1, <2>3, HeadTailProperties, LenProperties
    <3>2. \A i \in 1 .. (Len(e) - 1) : i + 1 \in 1 .. Len(e)
      BY <3>1
    <3> QED  BY <2>1, <2>3, <3>1, <3>2 DEF Listed
  <2> QED  BY <1>1, <2>1, <2>2, <2>3
<1>4. ASSUME NEW q \in Processes PROVE Listed(proc'[q].events)
  BY <1>1, <1>2, <1>3 DEF Becomes, ListedIsAnnounced
<1>5. \A q \in Processes : \A i \in DOMAIN proc'[q].events : Contains(outbox', proc'[q].events[i])
  BY <1>4 DEF Listed, OutboxGrows
<1> QED  BY <1>5 DEF ListedIsAnnounced, Listed

LEMMA IdleShrinks == ASSUME NEW p, Becomes(p, Idle) PROVE Shrinks(p)
<1>1. Idle.events = <<>>
  BY DEF Idle
<1> QED  BY <1>1 DEF Shrinks

LEMMA MirroringShrinks == ASSUME NEW p, NEW rs, NEW next, Mirroring(p, rs, next) PROVE Shrinks(p)
<1>1. PICK a : Quiet(a) /\ Becomes(p, a)
  BY MirroringIsQuiet
<1> QED  BY <1>1 DEF Quiet, Shrinks

LEMMA OutboxStays == ASSUME UNCHANGED outbox PROVE OutboxGrows
BY DEF OutboxGrows

LEMMA OutboxAppended ==
    ASSUME IInv, NEW s \in Subjects, outbox' = Append(outbox, s)
    PROVE  OutboxGrows
<1>1. PICK o \in Seq(Subjects) : o = outbox /\ outbox' = Append(o, s)
  BY DEF IInv, TablesOK
<1>2. /\ DOMAIN o = 1 .. Len(o) /\ Len(o) \in Nat /\ DOMAIN Append(o, s) = 1 .. (Len(o) + 1)
      /\ \A i \in 1 .. Len(o) : Append(o, s)[i] = o[i]
  BY AppendProperties, LenProperties
<1> QED  BY <1>1, <1>2 DEF OutboxGrows, Contains

LEMMA WorkerListed ==
    ASSUME IInv, ListedIsAnnounced, NEW w \in Workers, WorkerStep(w)
    PROVE  ListedIsAnnounced'
<1>1. w \in Processes /\ ActivityOK(proc[w])
  BY DEF IInv, Processes, ThreadsOK
<1>2. CASE Claim(w)
  <2>1. OutboxGrows /\ Shrinks(w)
    BY <1>2, OutboxStays, MirroringShrinks DEF Claim, relay
  <2> QED  BY <1>1, <2>1, ShrinkKeeps
<1>3. CASE \E answer \in Answers : Persist(w, answer)
  <2>1. PICK answer \in Answers : Persist(w, answer)
    BY <1>3
  <2>2. PICK b, a : b = proc[w] /\ a = [b EXCEPT !.doing = "acking"]
    OBVIOUS
  <2>3. a.events = b.events
    BY <1>1, <2>2 DEF ActivityOK, Activity
  <2>4. Becomes(w, a) \/ Becomes(w, Idle)
    BY <2>1, <2>2 DEF Persist
  <2>5. Shrinks(w)
    BY <2>2, <2>3, <2>4, IdleShrinks DEF Shrinks
  <2>6. OutboxGrows
    <3>1. CASE UNCHANGED outbox
      BY <3>1, OutboxStays
    <3>2. CASE outbox' = Append(outbox, SubjectOf[proc[w].req])
      <4>1. SubjectOf[proc[w].req] \in Subjects
        BY <1>1, <2>1, ExplanationsAssumption DEF Persist, ActivityOK
      <4> QED  BY <3>2, <4>1, OutboxAppended
    <3> QED  BY <2>1, <3>1, <3>2 DEF Persist
  <2> QED  BY <1>1, <2>5, <2>6, ShrinkKeeps
<1>4. CASE \E answer \in Answers : ReportUnavailable(w, answer)
  <2>1. OutboxGrows
    BY <1>4, OutboxStays DEF ReportUnavailable, relay
  <2>2. Mirroring(w, {proc[w].req}, "idle") \/ Becomes(w, Idle)
    BY <1>4 DEF ReportUnavailable
  <2>3. Shrinks(w)
    BY <2>2, MirroringShrinks, IdleShrinks
  <2> QED  BY <1>1, <2>1, <2>3, ShrinkKeeps
<1>5. CASE AckJob(w)
  <2>1. OutboxGrows
    BY <1>5, OutboxStays DEF AckJob, relay
  <2>2. Mirroring(w, {proc[w].req}, "idle") \/ Becomes(w, Idle)
    BY <1>5 DEF AckJob
  <2>3. Shrinks(w)
    BY <2>2, MirroringShrinks, IdleShrinks
  <2> QED  BY <1>1, <2>1, <2>3, ShrinkKeeps
<1> QED  BY <1>2, <1>3, <1>4, <1>5 DEF WorkerStep

LEMMA CallerListed ==
    ASSUME IInv, ListedIsAnnounced, NEW c \in Callers, CallerStep(c) \/ \E r \in Requests : FindByKey(c, r)
    PROVE  ListedIsAnnounced'
<1>1. c \in Processes /\ ActivityOK(proc[c])
  BY DEF IInv, Processes, ThreadsOK
<1>2. OutboxGrows
  BY OutboxStays DEF CallerStep, FindByKey, SavePending, EnqueueJob, relay
<1>3. Shrinks(c)
  <2>1. CASE SavePending(c)
    <3>1. PICK b, a : b = proc[c] /\ a = [b EXCEPT !.doing = "enqueueing"]
      OBVIOUS
    <3>2. a.events = b.events
      BY <1>1, <3>1 DEF ActivityOK, Activity
    <3> QED  BY <2>1, <3>1, <3>2 DEF SavePending, Shrinks
  <2>2. CASE EnqueueJob(c)
    BY <2>2, MirroringShrinks DEF EnqueueJob
  <2>3. CASE \E r \in Requests : FindByKey(c, r)
    <3>1. PICK r \in Requests : FindByKey(c, r)
      BY <2>3
    <3>2. PICK a : a = [Idle EXCEPT !.doing = "saving", !.req = r]
      OBVIOUS
    <3>3. a.events = <<>>
      BY <3>2 DEF Idle
    <3> QED  BY <3>1, <3>2, <3>3 DEF FindByKey, Shrinks
  <2> QED  BY <2>1, <2>2, <2>3 DEF CallerStep
<1> QED  BY <1>1, <1>2, <1>3, ShrinkKeeps

LEMMA MirrorListed ==
    ASSUME IInv, ListedIsAnnounced, NEW p \in Processes, NEW r \in Requests, Mirror(p, r)
    PROVE  ListedIsAnnounced'
<1>1. PICK b, left : b = proc[p] /\ left = [b.copies EXCEPT ![r] = NoRecord]
  OBVIOUS
<1>2. PICK a, c : a = [b EXCEPT !.copies = left]
                  /\ c = [Idle EXCEPT !.doing = b.then, !.req = b.req]
  OBVIOUS
<1>3. a.events = b.events /\ c.events = <<>>
  BY <1>1, <1>2 DEF IInv, ThreadsOK, ActivityOK, Activity, Idle
<1>4. Becomes(p, a) \/ Becomes(p, Idle) \/ Becomes(p, c)
  BY <1>1, <1>2 DEF Mirror
<1>5. Shrinks(p)
  BY <1>1, <1>3, <1>4, IdleShrinks DEF Shrinks
<1>6. OutboxGrows
  BY OutboxStays DEF Mirror, relay
<1> QED  BY <1>5, <1>6, ShrinkKeeps

LEMMA PublisherListed ==
    ASSUME IInv, ListedIsAnnounced, NEW p \in Publishers, PublisherStep(p) \/ RecordAttempt(p)
    PROVE  ListedIsAnnounced'
<1>1. p \in Processes /\ ActivityOK(proc[p])
  BY DEF IInv, Processes, ThreadsOK
<1>2. OutboxGrows
  BY OutboxStays DEF PublisherStep, ListUnpublished, Relay, MarkPublished, CommitBatch, RecordAttempt, relay
<1>3. CASE ListUnpublished(p)
  <2>1. PICK batch \in SetToSeqs(Unpublished) :
           Becomes(p, [Idle EXCEPT !.doing = "relaying", !.events = batch])
    BY <1>3 DEF ListUnpublished
  <2>2. PICK a : a = [Idle EXCEPT !.doing = "relaying", !.events = batch]
    OBVIOUS
  <2>3. a.events = batch /\ Becomes(p, a)
    BY <2>1, <2>2 DEF Idle
  <2>4. \A i \in DOMAIN batch : Contains(outbox, batch[i])
    <3>1. PICK n : batch \in [1 .. n -> Unpublished]
      BY <2>1 DEF SetToSeqs
    <3> QED  BY <3>1 DEF Unpublished, Events
  <2>5. outbox' = outbox
    BY <1>3 DEF ListUnpublished, relay
  <2>6. proc' = [proc EXCEPT ![p] = a] /\ DOMAIN proc = Processes
    BY <2>3 DEF Becomes, IInv, ThreadsOK
  <2>7. \A q \in Processes : \A i \in DOMAIN proc'[q].events : Contains(outbox, proc'[q].events[i])
    BY <2>3, <2>4, <2>6 DEF ListedIsAnnounced, Listed
  <2> QED  BY <2>5, <2>7 DEF ListedIsAnnounced, Listed
<1>4. CASE Relay(p)
  <2>1. PICK b, a : b = proc[p] /\ a = [b EXCEPT !.doing = "marking"]
    OBVIOUS
  <2>2. a.events = b.events /\ Becomes(p, a)
    BY <1>1, <1>4, <2>1 DEF Relay, ActivityOK, Activity
  <2>3. Shrinks(p)
    BY <2>1, <2>2 DEF Shrinks
  <2> QED  BY <1>1, <1>2, <2>3, ShrinkKeeps
<1>5. CASE MarkPublished(p)
  <2>1. PICK b, e : b = proc[p] /\ e = Head(b.events)
    OBVIOUS
  <2>2. PICK t, m, a : /\ t = IF e \in published THEN b.touched ELSE b.touched \cup {e}
                       /\ m = IF e \in published THEN b.marked ELSE b.marked \cup {e}
                       /\ a = [b EXCEPT !.doing = "relaying", !.events = Tail(b.events),
                                        !.touched = t, !.marked = m]
    OBVIOUS
  <2>3. Becomes(p, a)
    BY <1>5, <2>1, <2>2 DEF MarkPublished
  <2>4. a.events = Tail(b.events) /\ b.events # <<>>
    BY <1>1, <1>5, <2>1, <2>2 DEF MarkPublished, ActivityOK, Activity
  <2>5. Shrinks(p)
    BY <2>1, <2>3, <2>4 DEF Shrinks
  <2> QED  BY <1>1, <1>2, <2>5, ShrinkKeeps
<1>6. CASE CommitBatch(p)
  <2>1. Shrinks(p)
    BY <1>6, IdleShrinks DEF CommitBatch
  <2> QED  BY <1>1, <1>2, <2>1, ShrinkKeeps
<1>7. CASE RecordAttempt(p)
  <2>1. PICK b, t, a : /\ b = proc[p] /\ t = b.touched \cup {Head(b.events)}
                       /\ a = [b EXCEPT !.events = Tail(b.events), !.touched = t]
    OBVIOUS
  <2>2. b \in Activity /\ b.events # <<>>
    BY <1>1, <1>7, <2>1 DEF RecordAttempt, ActivityOK
  <2>3. Becomes(p, a)
    BY <1>7, <2>1, <2>2 DEF RecordAttempt, Activity
  <2>4. a.events = Tail(b.events)
    BY <2>1, <2>2 DEF Activity
  <2>5. Shrinks(p)
    BY <2>1, <2>2, <2>3, <2>4 DEF Shrinks
  <2> QED  BY <1>1, <1>2, <2>5, ShrinkKeeps
<1> QED  BY <1>3, <1>4, <1>5, <1>6, <1>7 DEF PublisherStep

LEMMA NextListed == IInv /\ ListedIsAnnounced /\ [Next]_vars => ListedIsAnnounced'
<1> SUFFICES ASSUME IInv, ListedIsAnnounced, [Next]_vars PROVE ListedIsAnnounced'
  OBVIOUS
<1>1. ASSUME NEW p \in Callers \cup Workers \cup Sweepers, NEW r \in Requests, Mirror(p, r)
      PROVE  ListedIsAnnounced'
  BY <1>1, MirrorListed DEF Processes
<1>2. ASSUME NEW p \in Processes, Abort(p) PROVE ListedIsAnnounced'
  <2>1. Shrinks(p) /\ OutboxGrows
    BY <1>2, IdleShrinks, OutboxStays DEF Abort, relay
  <2> QED  BY <2>1, ShrinkKeeps
<1>3. ASSUME NEW p \in Sweepers, RecoverStale(p) PROVE ListedIsAnnounced'
  <2>1. Shrinks(p) /\ OutboxGrows /\ p \in Processes
    BY <1>3, MirroringShrinks, OutboxStays DEF RecoverStale, relay, Processes
  <2> QED  BY <2>1, ShrinkKeeps
<1>4. CASE Tick \/ UNCHANGED vars
  <2>1. UNCHANGED <<outbox, proc>>
    BY <1>4 DEF Tick, relay, vars
  <2> QED  BY <2>1 DEF ListedIsAnnounced, Listed
<1> QED  BY <1>1, <1>2, <1>3, <1>4, CallerListed, WorkerListed, PublisherListed DEF Next

LEMMA ListedInvariant == Spec => []ListedIsAnnounced
<1>1. Init => ListedIsAnnounced
  BY DEF Init, Idle, ListedIsAnnounced, Listed
<1> QED  BY <1>1, NextListed, Invariant, PTL DEF Spec

\* A step that leaves the tables readers and subscribers see as they are.
SameTables == UNCHANGED <<explanations, outbox, sent, published>>

LEMMA SameIsStutter ==
    ASSUME SameTables
    PROVE  [Promised!Next]_(Promised!vars)
BY DEF SameTables, Promised!vars

\* To persist an answer is to explain and announce the subject, or nothing.
LEMMA PersistExplains ==
    ASSUME IInv, NEW w \in Workers, NEW answer \in Answers, Persist(w, answer)
    PROVE  [Promised!Next]_(Promised!vars)
<1>0. PICK r, s, text : r = proc[w].req /\ s = SubjectOf[r] /\ text = [by |-> r, content |-> Content(answer)]
  OBVIOUS
<1>1. CASE ~Contains(outbox, s)
  <2>1. r \in Requests /\ s \in Subjects
    <3>1. w \in Processes /\ proc[w].doing = "generating"
      BY DEF Persist, Processes
    <3>2. r \in Requests
      BY <1>0, <3>1 DEF IInv, ThreadsOK, ActivityOK
    <3> QED  BY <1>0, <3>2, ExplanationsAssumption
  <2>2. explanations[s] = NoRecord
    BY <1>1, <2>1 DEF IInv, ReadyIsAnnounced
  <2>3. text \in [by : Requests, content : {"model", "fallback"}]
    <3>1. Content(answer) \in {"model", "fallback"}
      <4>1. answer \in ANSWERS /\ Content(answer) # "none"
        BY ExplanationsAssumption DEF Persist
      <4> QED  BY <4>1 DEF Content, ANSWERS
    <3> QED  BY <1>0, <2>1, <3>1
  <2>4. /\ explanations' = [explanations EXCEPT ![s] = text] /\ outbox' = Append(outbox, s)
        /\ sent' = sent /\ published' = published
    BY <1>0, <1>1 DEF Persist
  <2>5. Promised!Explain(s)
    BY <2>2, <2>3, <2>4 DEF Promised!Explain
  <2> QED  BY <2>1, <2>5 DEF Promised!Next
<1>2. CASE Contains(outbox, s)
  <2>1. SameTables
    BY <1>0, <1>2 DEF Persist, SameTables
  <2> QED  BY <2>1, SameIsStutter
<1> QED  BY <1>1, <1>2

\* To relay an event is to deliver it.
LEMMA RelayDelivers ==
    ASSUME IInv, ListedIsAnnounced, IInv', BoundedDuplication',
           NEW p \in Publishers, Relay(p)
    PROVE  [Promised!Next]_(Promised!vars)
<1>1. PICK s : s = Head(proc[p].events)
  OBVIOUS
<1>2. /\ p \in Processes /\ ActivityOK(proc[p]) /\ TablesOK /\ s \in Subjects
  BY <1>1, BatchOK DEF Relay
<1>3. Contains(outbox, s)
  <2>1. PICK e \in Seq(Subjects) : e = proc[p].events /\ e # <<>>
    BY <1>2 DEF Relay, ActivityOK, Activity
  <2>2. 1 \in DOMAIN e /\ e[1] = s
    BY <1>1, <2>1, HeadTailProperties, LenProperties
  <2> QED  BY <1>2, <2>1, <2>2 DEF ListedIsAnnounced, Listed
<1>4. sent' = [sent EXCEPT ![s] = @ + 1] /\ UNCHANGED <<explanations, outbox, published>>
  BY <1>1 DEF Relay, tables
<1>5. sent[s] < Cardinality(Publishers) + Aborts
  <2>2. PICK n, c, d : n = sent[s] /\ c = Cardinality(Publishers) /\ d = trouble'.aborts
    OBVIOUS
  <2>3. n \in Nat /\ n + 1 = sent'[s] /\ d \in 0 .. Aborts
    BY <1>2, <1>4, <2>2 DEF TablesOK, IInv
  <2>4. c \in Nat /\ Aborts \in Nat
    BY <2>2, ExplanationsAssumption, FS_CardinalityType
  <2>5. n + 1 <= c + d
    BY <1>2, <2>2, <2>3 DEF BoundedDuplication
  <2>6. n < c + Aborts
    BY <2>3, <2>4, <2>5
  <2> QED  BY <2>2, <2>6
<1>6. Promised!Deliver(s)
  BY <1>3, <1>4, <1>5 DEF Promised!Deliver, Promised!Contains, Contains
<1> QED  BY <1>2, <1>6 DEF Promised!Next

\* To commit a batch is to settle what it has marked.
LEMMA CommitSettles ==
    ASSUME IInv, NEW p \in Publishers, CommitBatch(p)
    PROVE  [Promised!Next]_(Promised!vars)
<1>1. PICK batch : batch = proc[p].marked
  OBVIOUS
<1>2. p \in Processes /\ ActivityOK(proc[p])
  BY DEF IInv, Processes, ThreadsOK
<1>3. batch \in SUBSET Subjects /\ \A s \in batch : sent[s] > 0
  BY <1>1, <1>2 DEF ActivityOK, Activity
<1>4. published' = published \cup batch /\ UNCHANGED <<explanations, outbox, sent>>
  BY <1>1 DEF CommitBatch, tables
<1>5. Promised!Settle(batch)
  BY <1>3, <1>4 DEF Promised!Settle
<1> QED  BY <1>3, <1>5 DEF Promised!Next

LEMMA StepKeepsPromise ==
    ASSUME IInv, ListedIsAnnounced, IInv', BoundedDuplication', [Next]_vars
    PROVE  [Promised!Next]_(Promised!vars)
<1>1. CASE UNCHANGED vars \/ Tick
  <2>1. SameTables
    BY <1>1 DEF vars, Tick, tables, relay, SameTables
  <2> QED  BY <2>1, SameIsStutter
<1>2. ASSUME NEW c \in Callers, CallerStep(c) \/ \E r \in Requests : FindByKey(c, r)
      PROVE  [Promised!Next]_(Promised!vars)
  <2>1. SameTables
    BY <1>2 DEF CallerStep, FindByKey, SavePending, EnqueueJob, tables, relay, SameTables
  <2> QED  BY <2>1, SameIsStutter
<1>3. ASSUME NEW w \in Workers, WorkerStep(w)
      PROVE  [Promised!Next]_(Promised!vars)
  <2>1. CASE \E answer \in Answers : Persist(w, answer)
    BY <2>1, PersistExplains
  <2>2. CASE Claim(w) \/ AckJob(w) \/ \E answer \in Answers : ReportUnavailable(w, answer)
    <3>1. SameTables
      BY <2>2 DEF Claim, AckJob, ReportUnavailable, tables, relay, SameTables
    <3> QED  BY <3>1, SameIsStutter
  <2> QED  BY <1>3, <2>1, <2>2 DEF WorkerStep
<1>4. ASSUME NEW p \in Publishers, PublisherStep(p) \/ RecordAttempt(p)
      PROVE  [Promised!Next]_(Promised!vars)
  <2>1. CASE Relay(p)
    BY <2>1, RelayDelivers
  <2>2. CASE CommitBatch(p)
    BY <2>2, CommitSettles
  <2>3. CASE ListUnpublished(p) \/ MarkPublished(p) \/ RecordAttempt(p)
    <3>1. SameTables
      BY <2>3 DEF ListUnpublished, MarkPublished, RecordAttempt, tables, relay, SameTables
    <3> QED  BY <3>1, SameIsStutter
  <2> QED  BY <1>4, <2>1, <2>2, <2>3 DEF PublisherStep
<1>5. ASSUME NEW p, (p \in Sweepers /\ RecoverStale(p)) \/ Abort(p) \/ \E r \in Requests : Mirror(p, r)
      PROVE  [Promised!Next]_(Promised!vars)
  <2>1. SameTables
    BY <1>5 DEF RecoverStale, Abort, Mirror, tables, relay, SameTables
  <2> QED  BY <2>1, SameIsStutter
<1> QED  BY <1>1, <1>2, <1>3, <1>4, <1>5 DEF Next

\* Whatever overlaps, is delivered twice or aborts: what readers and subscribers
\* see of the pipeline is what ExplanationRelay promises them.
THEOREM PipelineKeepsPromise == Spec => ImplementsRelay
<1>1. Init => Promised!Init
  BY DEF Init, Promised!Init
<1>2. IInv /\ ListedIsAnnounced /\ IInv' /\ BoundedDuplication' /\ [Next]_vars
      => [Promised!Next]_(Promised!vars)
  BY StepKeepsPromise
<1> QED  BY <1>1, <1>2, Invariant, ListedInvariant, DuplicationBounded, PTL
            DEF Spec, ImplementsRelay, Promised!Spec

-------------------------------------------------------------------------------
(* What follows from the promise alone.                                     *)

AnnouncedIsExplained ==
    \A s \in Subjects : Contains(outbox, s) => explanations[s] # NoRecord

PromiseInv == Promised!TypeOK /\ AnnouncedIsExplained /\ Promised!Promise

LEMMA DeliveriesAreNat == Cardinality(Publishers) + Aborts \in Nat
BY ExplanationsAssumption, FS_CardinalityType

LEMMA PromiseInit == Promised!Init => PromiseInv
<1> SUFFICES ASSUME Promised!Init PROVE PromiseInv
  OBVIOUS
<1>1. Promised!TypeOK
  BY DEF Promised!Init, Promised!TypeOK
<1>2. AnnouncedIsExplained
  BY DEF Promised!Init, AnnouncedIsExplained, Contains
<1>3. Promised!Promise
  BY DeliveriesAreNat DEF Promised!Init, Promised!Promise
<1> QED  BY <1>1, <1>2, <1>3 DEF PromiseInv

LEMMA ExplainKeeps ==
    ASSUME PromiseInv, NEW s \in Subjects, Promised!Explain(s)
    PROVE  PromiseInv'
<1>1. PICK text \in [by : Requests, content : {"model", "fallback"}] :
         explanations' = [explanations EXCEPT ![s] = text]
  BY DEF Promised!Explain
<1>2. text # NoRecord
  BY ExplanationsAssumption
<1>3. PICK o : o = outbox /\ o \in Seq(Subjects) /\ outbox' = Append(o, s)
  BY DEF PromiseInv, Promised!TypeOK, Promised!Explain
<1>4. /\ UNCHANGED <<sent, published>>
      /\ explanations \in [Subjects -> [by : Requests, content : {"model", "fallback"}] \cup {NoRecord}]
  BY DEF PromiseInv, Promised!TypeOK, Promised!Explain
<1>5. Promised!TypeOK'
  BY <1>1, <1>3, <1>4 DEF PromiseInv, Promised!TypeOK
<1>6. AnnouncedIsExplained'
  <2>1. SUFFICES ASSUME NEW t \in Subjects, NEW i \in DOMAIN outbox', outbox'[i] = t
                 PROVE  explanations'[t] # NoRecord
    BY DEF AnnouncedIsExplained, Contains
  <2>2. /\ DOMAIN o = 1 .. Len(o) /\ Len(o) \in Nat /\ DOMAIN Append(o, s) = 1 .. (Len(o) + 1)
        /\ \A k \in 1 .. Len(o) : Append(o, s)[k] = o[k]
        /\ Append(o, s)[Len(o) + 1] = s
    BY <1>3, AppendProperties, LenProperties
  <2>3. CASE t = s
    BY <1>1, <1>2, <1>4, <2>3
  <2>4. CASE t # s
    <3>1. i \in DOMAIN o /\ o[i] = t
      BY <1>3, <2>1, <2>2, <2>4
    <3>2. explanations[t] # NoRecord
      BY <1>3, <3>1 DEF PromiseInv, AnnouncedIsExplained, Contains
    <3> QED  BY <1>1, <1>4, <2>4, <3>2
  <2> QED  BY <2>3, <2>4
<1>7. Promised!Promise'
  BY <1>1, <1>2, <1>4 DEF PromiseInv, Promised!Promise
<1> QED  BY <1>5, <1>6, <1>7 DEF PromiseInv

LEMMA DeliverKeeps ==
    ASSUME PromiseInv, NEW s \in Subjects, Promised!Deliver(s)
    PROVE  PromiseInv'
<1>1. /\ sent' = [sent EXCEPT ![s] = sent[s] + 1]
      /\ UNCHANGED <<explanations, outbox, published>>
      /\ Contains(outbox, s) /\ sent[s] < Cardinality(Publishers) + Aborts
  BY DEF Promised!Deliver, Promised!Contains, Contains
<1>2. sent \in [Subjects -> Nat]
  BY DEF PromiseInv, Promised!TypeOK
<1>3. Promised!TypeOK'
  BY <1>1, <1>2 DEF PromiseInv, Promised!TypeOK
<1>4. AnnouncedIsExplained'
  BY <1>1 DEF PromiseInv, AnnouncedIsExplained
<1>5. ASSUME NEW t \in Subjects
      PROVE  /\ sent'[t] > 0 => explanations'[t] # NoRecord
             /\ t \in published' => sent'[t] > 0
             /\ sent'[t] <= Cardinality(Publishers) + Aborts
  <2>1. CASE t = s
    <3>1. sent'[t] = sent[s] + 1 /\ sent[s] \in Nat
      BY <1>1, <1>2, <2>1
    <3>2. explanations'[t] # NoRecord
      BY <1>1, <2>1 DEF PromiseInv, AnnouncedIsExplained
    <3> QED  BY <1>1, <3>1, <3>2, DeliveriesAreNat
  <2>2. CASE t # s
    <3>1. sent'[t] = sent[t]
      BY <1>1, <1>2, <2>2
    <3> QED  BY <1>1, <3>1 DEF PromiseInv, Promised!Promise
  <2> QED  BY <2>1, <2>2
<1>6. Promised!Promise'
  BY <1>5 DEF Promised!Promise
<1> QED  BY <1>3, <1>4, <1>6 DEF PromiseInv

LEMMA SettleKeeps ==
    ASSUME PromiseInv, NEW batch \in SUBSET Subjects, Promised!Settle(batch)
    PROVE  PromiseInv'
<1>1. /\ \A s \in batch : sent[s] > 0
      /\ published' = published \cup batch /\ UNCHANGED <<explanations, outbox, sent>>
  BY DEF Promised!Settle
<1>2. Promised!TypeOK'
  BY <1>1 DEF PromiseInv, Promised!TypeOK
<1>3. AnnouncedIsExplained'
  BY <1>1 DEF PromiseInv, AnnouncedIsExplained
<1>4. Promised!Promise'
  BY <1>1 DEF PromiseInv, Promised!Promise
<1> QED  BY <1>2, <1>3, <1>4 DEF PromiseInv

LEMMA PromiseNext == PromiseInv /\ [Promised!Next]_(Promised!vars) => PromiseInv'
<1> SUFFICES ASSUME PromiseInv, [Promised!Next]_(Promised!vars) PROVE PromiseInv'
  OBVIOUS
<1>1. CASE UNCHANGED Promised!vars
  BY <1>1 DEF PromiseInv, Promised!TypeOK, AnnouncedIsExplained, Promised!Promise, Promised!vars
<1> QED  BY <1>1, ExplainKeeps, DeliverKeeps, SettleKeeps DEF Promised!Next

\* Whatever keeps the promise delivers nothing unexplained, settles nothing
\* undelivered and delivers nothing more often than it may.
THEOREM PromiseIsKept == Promised!Spec => []Promised!Promise
<1>1. PromiseInv => Promised!Promise
  BY DEF PromiseInv
<1> QED  BY <1>1, PromiseInit, PromiseNext, PTL DEF Promised!Spec

LEMMA StepRevokesNothing ==
    ASSUME PromiseInv, [Promised!Next]_(Promised!vars)
    PROVE  [/\ \A s \in Subjects : explanations[s] # NoRecord => explanations'[s] = explanations[s]
            /\ published \subseteq published']_(Promised!vars)
<1>1. CASE UNCHANGED Promised!vars
  BY <1>1
<1>2. ASSUME NEW t \in Subjects, Promised!Explain(t)
      PROVE  /\ \A s \in Subjects : explanations[s] # NoRecord => explanations'[s] = explanations[s]
             /\ published \subseteq published'
  <2>1. PICK text : explanations' = [explanations EXCEPT ![t] = text]
    BY <1>2 DEF Promised!Explain
  <2>2. explanations[t] = NoRecord /\ published' = published
    BY <1>2 DEF Promised!Explain
  <2> QED  BY <2>1, <2>2 DEF PromiseInv, Promised!TypeOK
<1>3. CASE (\E t \in Subjects : Promised!Deliver(t)) \/ \E batch \in SUBSET Subjects : Promised!Settle(batch)
  BY <1>3 DEF Promised!Deliver, Promised!Settle
<1> QED  BY <1>1, <1>2, <1>3 DEF Promised!Next

\* Whatever keeps the promise revokes no explanation and settles for good.
THEOREM NothingIsRevoked == Promised!Spec => Promised!NothingIsRevoked
BY PromiseInit, PromiseNext, StepRevokesNothing, PTL DEF Promised!Spec, Promised!NothingIsRevoked
===============================================================================
