--------------------------- MODULE JobQueue_proofs ----------------------------
(***************************************************************************)
(* Proofs about InMemoryJobQueue for every set of jobs, workers and keys,  *)
(* every retry budget, lease length and delay.                             *)
(***************************************************************************)
EXTENDS JobQueue, SequenceTheorems, FiniteSetTheorems, FunctionTheorems, TLAPS

-------------------------------------------------------------------------------
(* Sequences: what the deque's operations do to a sequence without          *)
(* repetitions.                                                             *)

\* s without its i-th element, rotated so that what followed it comes first.
Rotated(s, i) == SubSeq(s, i + 1, Len(s)) \o SubSeq(s, 1, i - 1)

\* Appending a new element keeps a sequence free of repetitions.
LEMMA AppendKeepsInjective ==
    ASSUME NEW S, NEW s \in Seq(S), NEW e \in S, IsInjective(s),
           \A i \in DOMAIN s : s[i] # e
    PROVE  IsInjective(Append(s, e))
<1>1. /\ Append(s, e) \in Seq(S)
      /\ Len(s) \in Nat
      /\ DOMAIN s = 1 .. Len(s)
      /\ Len(Append(s, e)) = Len(s) + 1
      /\ DOMAIN Append(s, e) = 1 .. Len(s) + 1
      /\ \A i \in 1 .. Len(s) : Append(s, e)[i] = s[i]
      /\ Append(s, e)[Len(s) + 1] = e
  BY AppendProperties, LenProperties
<1> QED  BY <1>1 DEF IsInjective

\* Removing the i-th element and rotating keeps exactly the other elements,
\* each as often as before.
LEMMA RotatedProperties ==
    ASSUME NEW S, NEW s \in Seq(S), NEW i \in DOMAIN s, IsInjective(s)
    PROVE  /\ Rotated(s, i) \in Seq(S)
           /\ IsInjective(Rotated(s, i))
           /\ \A a \in DOMAIN Rotated(s, i) :
                 \E b \in DOMAIN s : b # i /\ Rotated(s, i)[a] = s[b]
           /\ \A b \in DOMAIN s : b # i =>
                 \E a \in DOMAIN Rotated(s, i) : Rotated(s, i)[a] = s[b]
<1> DEFINE n == Len(s)
           front == SubSeq(s, i + 1, n)
           back == SubSeq(s, 1, i - 1)
           r == Rotated(s, i)
           At(m) == IF m <= n - i THEN m + i ELSE m - (n - i)
<1>1. n \in Nat /\ DOMAIN s = 1 .. n /\ i \in 1 .. n /\ \A m \in 1 .. n : s[m] \in S
  BY LenProperties, ElementOfSeq
<1>2. /\ front \in Seq(S)
      /\ Len(front) = n - i
      /\ \A m \in 1 .. n - i : front[m] = s[m + i]
  <2>1. \A m \in i + 1 .. n : s[m] \in S
    BY <1>1
  <2>2. /\ front \in Seq(S)
        /\ Len(front) = IF i + 1 <= n THEN n - (i + 1) + 1 ELSE 0
        /\ \A m \in 1 .. n - (i + 1) + 1 : front[m] = s[(i + 1) + m - 1]
    BY <1>1, <2>1, SubSeqProperties
  <2>3. /\ n - (i + 1) + 1 = n - i
        /\ i + 1 <= n \/ n - i = 0
        /\ \A m \in 1 .. n - i : (i + 1) + m - 1 = m + i
    BY <1>1
  <2> HIDE DEF front, n
  <2> QED  BY <1>1, <2>2, <2>3
<1>3. /\ back \in Seq(S)
      /\ Len(back) = i - 1
      /\ \A m \in 1 .. i - 1 : back[m] = s[m]
  <2>1. \A m \in 1 .. i - 1 : s[m] \in S
    BY <1>1
  <2>2. /\ back \in Seq(S)
        /\ Len(back) = IF 1 <= i - 1 THEN i - 1 - 1 + 1 ELSE 0
        /\ \A m \in 1 .. i - 1 - 1 + 1 : back[m] = s[1 + m - 1]
    BY <1>1, <2>1, SubSeqProperties
  <2> QED  BY <1>1, <2>2
<1>4. /\ r \in Seq(S)
      /\ Len(r) = n - 1
      /\ \A m \in 1 .. n - 1 : r[m] = s[At(m)]
  <2>1. /\ r \in Seq(S)
        /\ Len(r) = Len(front) + Len(back)
        /\ \A m \in 1 .. Len(front) + Len(back) :
              r[m] = IF m <= Len(front) THEN front[m] ELSE back[m - Len(front)]
    BY <1>2, <1>3, ConcatProperties DEF Rotated
  <2> HIDE DEF front, back, n, r
  <2>2. Len(front) + Len(back) = n - 1
    BY <1>1, <1>2, <1>3
  <2>3. ASSUME NEW m \in 1 .. n - 1  PROVE r[m] = s[At(m)]
    <3>1. CASE m <= n - i
      <4>1. r[m] = front[m] /\ m \in 1 .. n - i
        BY <1>1, <1>2, <2>1, <2>2, <2>3, <3>1
      <4> QED  BY <1>2, <3>1, <4>1
    <3>2. CASE ~(m <= n - i)
      <4>1. r[m] = back[m - (n - i)] /\ m - (n - i) \in 1 .. i - 1
        BY <1>1, <1>2, <2>1, <2>2, <2>3, <3>2
      <4> QED  BY <1>3, <3>2, <4>1
    <3> QED  BY <3>1, <3>2
  <2> QED  BY <2>1, <2>2, <2>3
<1>5. DOMAIN r = 1 .. n - 1
  BY <1>1, <1>4, LenProperties
<1>6. \A m \in 1 .. n - 1 : At(m) \in (1 .. n) \ {i}
  BY <1>1
<1>7. \A m, k \in 1 .. n - 1 : At(m) = At(k) => m = k
  BY <1>1
<1>8. \A b \in (1 .. n) \ {i} : \E m \in 1 .. n - 1 : At(m) = b
  <2> TAKE b \in (1 .. n) \ {i}
  <2>1. CASE b > i
    <3>1. b - i \in 1 .. n - 1 /\ At(b - i) = b
      BY <1>1, <2>1
    <3> QED  BY <3>1
  <2>2. CASE b < i
    <3>1. b + (n - i) \in 1 .. n - 1 /\ At(b + (n - i)) = b
      BY <1>1, <2>2
    <3> QED  BY <3>1
  <2> QED  BY <1>1, <2>1, <2>2
<1> HIDE DEF At, r
<1>9. IsInjective(r)
  BY <1>1, <1>4, <1>5, <1>6, <1>7 DEF IsInjective
<1> QED  BY <1>1, <1>4, <1>5, <1>6, <1>8, <1>9 DEF r

\* An enumeration of a finite set without repetitions meets every element.
LEMMA EnumerationProperties ==
    ASSUME NEW S, IsFiniteSet(S), NEW q \in SetToSeqs(S)
    PROVE  /\ q \in Seq(S)
           /\ IsInjective(q)
           /\ \A e \in S : \E i \in DOMAIN q : q[i] = e
<1> DEFINE n == Cardinality(S)
           R == {q[i] : i \in 1 .. n}
<1>1. n \in Nat
  BY FS_CardinalityType
<1>2. q \in [1 .. n -> S] /\ \A i, j \in 1 .. n : i # j => q[i] # q[j]
  BY DEF SetToSeqs
<1>3. q \in Seq(S)
  BY <1>1, <1>2, SeqDef
<1>4. q \in Bijection(1 .. n, R)
  BY <1>2 DEF Bijection, Injection, Surjection, IsInjective
<1>5. ExistsBijection(1 .. n, R)
  BY <1>4 DEF ExistsBijection
<1>6. IsFiniteSet(1 .. n) /\ Cardinality(1 .. n) = n
  BY <1>1, FS_Interval
<1>7. Cardinality(R) = n
  BY <1>5, <1>6, FS_Bijection
<1>8. R \in SUBSET S
  BY <1>2
<1>9. R = S
  BY <1>7, <1>8, FS_Subset
<1> QED  BY <1>2, <1>3, <1>9 DEF IsInjective

\* u is a sequence over S without repetitions that holds the elements of s and
\* those of t, and nothing else.
Joins(u, s, t, S) ==
    /\ u \in Seq(S)
    /\ IsInjective(u)
    /\ \A a \in DOMAIN s : \E c \in DOMAIN u : u[c] = s[a]
    /\ \A b \in DOMAIN t : \E c \in DOMAIN u : u[c] = t[b]
    /\ \A c \in DOMAIN u : \/ \E a \in DOMAIN s : u[c] = s[a]
                           \/ \E b \in DOMAIN t : u[c] = t[b]

\* The concatenation of two sequences without repetitions and without a
\* common element joins them.
LEMMA ConcatInjective ==
    ASSUME NEW S, NEW s \in Seq(S), NEW t \in Seq(S), IsInjective(s), IsInjective(t),
           \A a \in DOMAIN s, b \in DOMAIN t : s[a] # t[b]
    PROVE  Joins(s \o t, s, t, S)
<1> DEFINE m == Len(s)
           n == Len(t)
           u == s \o t
<1>1. m \in Nat /\ n \in Nat /\ DOMAIN s = 1 .. m /\ DOMAIN t = 1 .. n
  BY LenProperties
<1>2. /\ u \in Seq(S)
      /\ Len(u) = m + n
      /\ \A i \in 1 .. m + n : u[i] = IF i <= m THEN s[i] ELSE t[i - m]
  BY ConcatProperties
<1>3. DOMAIN u = 1 .. m + n
  BY <1>1, <1>2, LenProperties
<1> HIDE DEF u
<1>4. \A a \in 1 .. m : a \in 1 .. m + n /\ u[a] = s[a]
  BY <1>1, <1>2
<1>5. ASSUME NEW b \in 1 .. n  PROVE b + m \in 1 .. m + n /\ u[b + m] = t[b]
  <2>1. b + m \in 1 .. m + n /\ ~(b + m <= m) /\ (b + m) - m = b
    BY <1>1
  <2> QED  BY <1>2, <2>1
<1>6. \A c \in 1 .. m + n : \/ c \in 1 .. m /\ u[c] = s[c]
                            \/ c - m \in 1 .. n /\ u[c] = t[c - m]
  BY <1>1, <1>2
<1>7. IsInjective(u)
  <2>1. SUFFICES ASSUME NEW a \in 1 .. m + n, NEW b \in 1 .. m + n, u[a] = u[b]
                 PROVE  a = b
    BY <1>3 DEF IsInjective
  <2>2. CASE a \in 1 .. m /\ u[a] = s[a]
    <3>1. CASE b \in 1 .. m /\ u[b] = s[b]
      BY <1>1, <2>1, <2>2, <3>1 DEF IsInjective
    <3>2. CASE b - m \in 1 .. n /\ u[b] = t[b - m]
      BY <1>1, <2>1, <2>2, <3>2
    <3> QED  BY <1>6, <3>1, <3>2
  <2>3. CASE a - m \in 1 .. n /\ u[a] = t[a - m]
    <3>1. CASE b \in 1 .. m /\ u[b] = s[b]
      BY <1>1, <2>1, <2>3, <3>1
    <3>2. CASE b - m \in 1 .. n /\ u[b] = t[b - m]
      <4>1. a - m = b - m
        BY <1>1, <2>1, <2>3, <3>2 DEF IsInjective
      <4> QED  BY <1>1, <4>1
    <3> QED  BY <1>6, <3>1, <3>2
  <2> QED  BY <1>6, <2>2, <2>3
<1>8. \A b \in DOMAIN t : \E c \in DOMAIN u : u[c] = t[b]
  BY <1>1, <1>3, <1>5
<1>9. \A a \in DOMAIN s : \E c \in DOMAIN u : u[c] = s[a]
  BY <1>1, <1>3, <1>4
<1>10. \A c \in DOMAIN u : \/ \E a \in DOMAIN s : u[c] = s[a]
                          \/ \E b \in DOMAIN t : u[c] = t[b]
  BY <1>1, <1>3, <1>6
<1>11. Joins(u, s, t, S)
  BY <1>2, <1>7, <1>8, <1>9, <1>10 DEF Joins
<1> QED  BY <1>11 DEF u

-------------------------------------------------------------------------------
(* The inductive invariant.  PendingIsExact needs the type of the deque and *)
(* of the jobs, AttemptBudget needs to know nothing else, but claim finds   *)
(* its job through the deque: only PendingIsExact says that what it finds   *)
(* is waiting, and so still has an attempt left.                            *)

\* An id nobody enqueued was never claimed.
AbsentIsBlank ==
    \A j \in Jobs : jobs[j].state = "ABSENT" => jobs[j].attempt_count = 0

IInv ==
    /\ TypeOK
    /\ PendingIsExact
    /\ AttemptBudget
    /\ LeaseIsExact
    /\ KeysAreUnique
    /\ AbsentIsBlank

\* The parts that speak of one job at a time.
JobOK(job) ==
    /\ job \in Job
    /\ job.attempt_count <= MaxAttempts
    /\ job.state \in Waiting => job.attempt_count < MaxAttempts
    /\ job.state = "RUNNING" <=> job.leased_by # NoWorker
    /\ job.state = "RUNNING" <=> job.lease # NoTime
    /\ job.state = "ABSENT" => job.attempt_count = 0

USE DEF JobState, Waiting, TERMINAL_STATES

\* The invariant, job by job.
LEMMA IInvByJob ==
    IInv <=> /\ jobs = [j \in Jobs |-> jobs[j]]
             /\ \A j \in Jobs : JobOK(jobs[j])
             /\ pending \in Seq(Jobs)
             /\ byKey \in [Keys -> Jobs \cup {NoJob}]
             /\ PendingIsExact
             /\ KeysAreUnique
BY DEF IInv, TypeOK, AttemptBudget, LeaseIsExact, AbsentIsBlank, JobOK

LEMMA InitIInv == Init => IInv
<1> SUFFICES ASSUME Init PROVE IInv
  OBVIOUS
<1>1. JobOK(Absent)
  BY JobQueueAssumption DEF JobOK, Absent, Fresh, Job
<1>2. TypeOK /\ AttemptBudget /\ LeaseIsExact /\ AbsentIsBlank
  BY <1>1, EmptySeq DEF Init, TypeOK, AttemptBudget, LeaseIsExact, AbsentIsBlank, JobOK
<1>3. PendingIsExact
  BY DEF Init, PendingIsExact, IsInjective, Absent, Fresh
<1>4. KeysAreUnique
  BY JobQueueAssumption DEF Init, KeysAreUnique, Absent, Fresh
<1> QED  BY <1>2, <1>3, <1>4 DEF IInv

\* What each operation does to one job keeps the job well formed.
LEMMA FreshIsOK ==
    ASSUME NEW k \in Keys \cup {NoKey}
    PROVE  JobOK(Fresh("PENDING", k))
BY JobQueueAssumption DEF JobOK, Fresh, Job

LEMMA LeasedIsOK ==
    ASSUME NEW job, JobOK(job), job.state \in Waiting, NEW w \in Workers
    PROVE  JobOK(Leased(job, w))
<1> DEFINE new == Leased(job, w)
<1>1. /\ new.state = "RUNNING" /\ new.attempt_count = job.attempt_count + 1
      /\ new.leased_by = w /\ new.lease = LeaseSeconds
      /\ new.retry = job.retry /\ new.key = job.key
      /\ DOMAIN new = DOMAIN job
  BY DEF Leased, JobOK, Job
<1>2. new.attempt_count \in Nat /\ new.attempt_count <= MaxAttempts
  BY <1>1, JobQueueAssumption DEF JobOK, Job
<1>3. new.lease \in -1 .. LeaseSeconds /\ new.lease # NoTime
  BY <1>1, JobQueueAssumption
<1>4. new \in Job
  BY <1>1, <1>2, <1>3 DEF Leased, JobOK, Job
<1> HIDE DEF new
<1>5. JobOK(new)
  BY <1>1, <1>2, <1>3, <1>4, JobQueueAssumption DEF JobOK
<1> QED  BY <1>5 DEF new

LEMMA ReleasedIsOK ==
    ASSUME NEW job, JobOK(job), NEW s \in JobState \ {"RUNNING"},
           s \in Waiting => job.attempt_count < MaxAttempts,
           NEW r \in (0 .. MaxDelay) \cup {NoTime}
    PROVE  JobOK(Released(job, s, r))
BY JobQueueAssumption DEF JobOK, Job, Released

LEMMA OlderIsOK ==
    ASSUME NEW job, JobOK(job)
    PROVE  JobOK(Older(job)) /\ Older(job).state = job.state /\ Older(job).key = job.key
<1> DEFINE new == Older(job)
           left == IF job.lease = NoTime \/ job.lease = -1 THEN job.lease
                   ELSE job.lease - 1
           wait == IF job.retry = NoTime \/ job.retry = 0 THEN job.retry
                   ELSE job.retry - 1
<1>1. /\ left \in (-1 .. LeaseSeconds) \cup {NoTime}
      /\ left = NoTime <=> job.lease = NoTime
  BY JobQueueAssumption DEF JobOK, Job
<1>2. wait \in (0 .. MaxDelay) \cup {NoTime}
  BY JobQueueAssumption DEF JobOK, Job
<1> HIDE DEF left, wait
<1>3. new = [job EXCEPT !.lease = left, !.retry = wait]
  BY DEF Older, left, wait, JobOK, Job
<1>4. /\ new \in Job /\ new.lease = left /\ new.state = job.state
      /\ new.attempt_count = job.attempt_count
      /\ new.leased_by = job.leased_by /\ new.key = job.key
  BY <1>1, <1>2, <1>3 DEF JobOK, Job
<1> HIDE DEF new
<1>5. JobOK(new)
  BY <1>1, <1>4 DEF JobOK
<1> QED  BY <1>4, <1>5 DEF new

\* A step that replaces job j by a well-formed one of the same key, which was
\* known before and is now, and leaves the index alone.
LEMMA ReplaceJob ==
    ASSUME IInv, NEW j \in Jobs, NEW job, JobOK(job), job.key = jobs[j].key,
           jobs[j].state # "ABSENT", job.state # "ABSENT",
           jobs' = [jobs EXCEPT ![j] = job], UNCHANGED byKey,
           pending' \in Seq(Jobs), PendingIsExact'
    PROVE  IInv'
<1>1. jobs' = [i \in Jobs |-> jobs'[i]] /\ \A i \in Jobs : JobOK(jobs'[i])
  BY IInvByJob DEF IInv, TypeOK
<1>2. TypeOK' /\ AttemptBudget' /\ LeaseIsExact' /\ AbsentIsBlank'
  BY <1>1 DEF IInv, TypeOK, AttemptBudget, LeaseIsExact, AbsentIsBlank, JobOK
<1>3. KeysAreUnique'
  BY DEF IInv, TypeOK, KeysAreUnique
<1> QED  BY <1>2, <1>3 DEF IInv

LEMMA EnqueueIInv ==
    ASSUME IInv, NEW j \in Jobs, NEW k \in Keys \cup {NoKey}, Enqueue(j, k)
    PROVE  IInv'
<1> DEFINE job == Fresh("PENDING", k)
<1>1. JobOK(job) /\ job.state = "PENDING" /\ job.key = k
  BY FreshIsOK DEF Fresh
<1> HIDE DEF job
<1>2. /\ jobs[j].state = "ABSENT" /\ jobs' = [jobs EXCEPT ![j] = job]
      /\ k # NoKey => byKey[k] = NoJob
      /\ byKey' = IF k = NoKey THEN byKey ELSE [byKey EXCEPT ![k] = j]
      /\ pending' = Append(pending, j)
  BY DEF Enqueue, job
<1>3. jobs' = [i \in Jobs |-> jobs'[i]] /\ \A i \in Jobs : JobOK(jobs'[i])
  BY <1>1, <1>2, IInvByJob DEF IInv, TypeOK
<1>4. pending' \in Seq(Jobs) /\ byKey' \in [Keys -> Jobs \cup {NoJob}]
  BY <1>2, AppendProperties DEF IInv, TypeOK
<1>5. TypeOK' /\ AttemptBudget' /\ LeaseIsExact' /\ AbsentIsBlank'
  BY <1>3, <1>4 DEF TypeOK, AttemptBudget, LeaseIsExact, AbsentIsBlank, JobOK
<1>6. PendingIsExact'
  <2>1. \A i \in DOMAIN pending : pending[i] # j
    BY <1>2 DEF IInv, PendingIsExact
  <2>2. IsInjective(pending')
    BY <1>2, <2>1, AppendKeepsInjective DEF IInv, TypeOK, PendingIsExact
  <2>3. /\ DOMAIN pending = 1 .. Len(pending) /\ Len(pending) \in Nat
        /\ DOMAIN pending' = 1 .. Len(pending) + 1
        /\ \A i \in DOMAIN pending : pending'[i] = pending[i]
        /\ pending'[Len(pending) + 1] = j
    BY <1>2, <1>4, AppendProperties, LenProperties DEF IInv, TypeOK
  <2>4. ASSUME NEW i \in Jobs, jobs'[i].state \in Waiting
        PROVE  \E a \in DOMAIN pending' : pending'[a] = i
    BY <1>2, <2>3, <2>4 DEF IInv, TypeOK, PendingIsExact
  <2>5. ASSUME NEW a \in DOMAIN pending'
        PROVE  jobs'[pending'[a]].state \in Waiting \cup {"CANCELLED"}
    <3>1. CASE a \in DOMAIN pending
      <4>1. pending[a] \in Jobs /\ pending[a] # j
        BY <2>1, <3>1, ElementOfSeq, <2>3 DEF IInv, TypeOK
      <4> QED  BY <1>2, <2>3, <3>1, <4>1 DEF IInv, TypeOK, PendingIsExact
    <3>2. CASE a = Len(pending) + 1
      BY <1>1, <1>2, <2>3, <3>2 DEF IInv, TypeOK
    <3> QED  BY <2>3, <3>1, <3>2
  <2> QED  BY <2>2, <2>4, <2>5 DEF PendingIsExact
<1>7. KeysAreUnique'
  BY <1>1, <1>2, JobQueueAssumption DEF IInv, TypeOK, Job, KeysAreUnique
<1> QED  BY <1>5, <1>6, <1>7 DEF IInv

LEMMA ClaimIInv ==
    ASSUME IInv, NEW w \in Workers, Claim(w)
    PROVE  IInv'
<1> PICK i \in DOMAIN pending :
       /\ Claimable(jobs[pending[i]])
       /\ jobs' = [jobs EXCEPT ![pending[i]] = Leased(@, w)]
       /\ pending' = RotatePast(i)
       /\ UNCHANGED byKey
  BY DEF Claim
<1> DEFINE j == pending[i]
           job == Leased(jobs[j], w)
<1>1. j \in Jobs /\ pending \in Seq(Jobs) /\ jobs[j].state \in Waiting
  BY ElementOfSeq, LenProperties DEF IInv, TypeOK, Claimable
<1>2. JobOK(job) /\ job.state = "RUNNING" /\ job.key = jobs[j].key
  <2>1. JobOK(jobs[j])
    BY <1>1, IInvByJob
  <2>2. JobOK(job)
    BY <1>1, <2>1, LeasedIsOK
  <2> QED  BY <2>1, <2>2 DEF Leased, JobOK, Job
<1>3. jobs' = [jobs EXCEPT ![j] = job]
  BY <1>1 DEF IInv, TypeOK
<1> HIDE DEF job
<1>4. /\ pending' \in Seq(Jobs)
      /\ IsInjective(pending')
      /\ \A a \in DOMAIN pending' :
            \E b \in DOMAIN pending : b # i /\ pending'[a] = pending[b]
      /\ \A b \in DOMAIN pending : b # i =>
            \E a \in DOMAIN pending' : pending'[a] = pending[b]
  <2>1. pending' = Rotated(pending, i)
    BY DEF RotatePast, Rotated
  <2>2. IsInjective(pending)
    BY DEF IInv, PendingIsExact
  <2> QED  BY <1>1, <2>1, <2>2, RotatedProperties
<1>5. PendingIsExact'
  <2>1. ASSUME NEW e \in Jobs, jobs'[e].state \in Waiting
        PROVE  \E a \in DOMAIN pending' : pending'[a] = e
    <3>1. e # j /\ jobs[e].state \in Waiting
      BY <1>1, <1>2, <1>3, <2>1 DEF IInv, TypeOK
    <3>2. PICK b \in DOMAIN pending : pending[b] = e
      BY <3>1 DEF IInv, PendingIsExact
    <3> QED  BY <1>4, <3>1, <3>2
  <2>2. ASSUME NEW a \in DOMAIN pending'
        PROVE  jobs'[pending'[a]].state \in Waiting \cup {"CANCELLED"}
    <3>1. PICK b \in DOMAIN pending : b # i /\ pending'[a] = pending[b]
      BY <1>4
    <3>2. pending[b] # j /\ pending[b] \in Jobs
      BY <1>1, <3>1, ElementOfSeq, LenProperties DEF IInv, PendingIsExact, IsInjective
    <3> QED  BY <1>3, <3>1, <3>2 DEF IInv, TypeOK, PendingIsExact
  <2> QED  BY <1>4, <2>1, <2>2 DEF PendingIsExact
<1> QED  BY <1>1, <1>2, <1>3, <1>4, <1>5, ReplaceJob

\* A job that leaves RUNNING, or is cancelled, without touching the deque.
LEMMA ReleaseIInv ==
    ASSUME IInv, NEW j \in Jobs, NEW s \in TERMINAL_STATES,
           jobs[j].state = "RUNNING" \/ s = "CANCELLED",
           jobs[j].state \in Waiting \cup {"RUNNING"},
           jobs' = [jobs EXCEPT ![j] = Released(@, s, NoTime)],
           UNCHANGED <<pending, byKey>>
    PROVE  IInv'
<1> DEFINE job == Released(jobs[j], s, NoTime)
<1>1. JobOK(job) /\ job.state = s /\ job.key = jobs[j].key
  <2>1. JobOK(jobs[j])
    BY IInvByJob
  <2>2. JobOK(job)
    BY <2>1, ReleasedIsOK
  <2> QED  BY <2>1, <2>2 DEF Released, JobOK, Job
<1>2. jobs' = [jobs EXCEPT ![j] = job]
  BY DEF IInv, TypeOK
<1> HIDE DEF job
<1>3. PendingIsExact'
  <2>1. ASSUME NEW e \in Jobs, jobs'[e].state \in Waiting
        PROVE  \E a \in DOMAIN pending : pending[a] = e
    BY <1>1, <1>2, <2>1 DEF IInv, TypeOK, PendingIsExact
  <2>2. ASSUME NEW a \in DOMAIN pending
        PROVE  jobs'[pending[a]].state \in Waiting \cup {"CANCELLED"}
    <3>1. pending[a] \in Jobs /\ jobs[pending[a]].state \in Waiting \cup {"CANCELLED"}
      BY ElementOfSeq, LenProperties DEF IInv, TypeOK, PendingIsExact
    <3> QED  BY <1>1, <1>2, <3>1 DEF IInv, TypeOK
  <2> QED  BY <2>1, <2>2 DEF IInv, PendingIsExact
<1> QED  BY <1>1, <1>2, <1>3, ReplaceJob DEF IInv, TypeOK

LEMMA RenewIInv ==
    ASSUME IInv, NEW j \in Jobs, NEW w \in Workers, RenewLease(j, w)
    PROVE  IInv'
<1> DEFINE job == [jobs[j] EXCEPT !.lease = LeaseSeconds]
<1>1. jobs[j].state = "RUNNING" /\ jobs' = [jobs EXCEPT ![j] = job]
  BY DEF RenewLease, HoldsLease, IInv, TypeOK
<1>2. JobOK(job) /\ job.state = "RUNNING" /\ job.key = jobs[j].key
  <2>1. JobOK(jobs[j])
    BY IInvByJob
  <2>2. LeaseSeconds \in (-1 .. LeaseSeconds) \cup {NoTime} /\ LeaseSeconds # NoTime
    BY JobQueueAssumption
  <2>3. /\ job \in Job /\ job.lease = LeaseSeconds
        /\ job.state = jobs[j].state /\ job.key = jobs[j].key
        /\ job.leased_by = jobs[j].leased_by
        /\ job.attempt_count = jobs[j].attempt_count
    BY <2>1, <2>2 DEF JobOK, Job
  <2> HIDE DEF job
  <2> QED  BY <1>1, <2>1, <2>2, <2>3 DEF JobOK
<1> HIDE DEF job
<1>3. PendingIsExact'
  <2>1. \A e \in Jobs : jobs'[e].state = jobs[e].state
    BY <1>1, <1>2 DEF IInv, TypeOK
  <2>2. \A a \in DOMAIN pending : pending[a] \in Jobs
    BY ElementOfSeq, LenProperties DEF IInv, TypeOK
  <2> QED  BY <2>1, <2>2 DEF RenewLease, IInv, PendingIsExact
<1> QED  BY <1>1, <1>2, <1>3, ReplaceJob DEF RenewLease, IInv, TypeOK

LEMMA FailIInv ==
    ASSUME IInv, NEW j \in Jobs, NEW w \in Workers, NEW r \in BOOLEAN,
           NEW d \in 0 .. MaxDelay, Fail(j, w, r, d)
    PROVE  IInv'
<1> USE DEF Fail, HoldsLease
<1>1. CASE ~(r /\ jobs[j].attempt_count < MaxAttempts)
  BY <1>1, ReleaseIInv
<1>2. CASE r /\ jobs[j].attempt_count < MaxAttempts
  <2> DEFINE job == Released(jobs[j], "RETRYABLE", d)
  <2>1. JobOK(job) /\ job.state = "RETRYABLE" /\ job.key = jobs[j].key
    <3>1. JobOK(jobs[j])
      BY IInvByJob
    <3>2. JobOK(job)
      BY <1>2, <3>1, ReleasedIsOK
    <3> QED  BY <3>1, <3>2 DEF Released, JobOK, Job
  <2>2. /\ jobs' = [jobs EXCEPT ![j] = job] /\ jobs[j].state = "RUNNING"
        /\ pending' = Append(pending, j) /\ UNCHANGED byKey
    BY <1>2 DEF IInv, TypeOK
  <2> HIDE DEF job
  <2>3. \A a \in DOMAIN pending : pending[a] # j
    BY <2>2 DEF IInv, PendingIsExact
  <2>4. /\ DOMAIN pending = 1 .. Len(pending) /\ Len(pending) \in Nat
        /\ pending' \in Seq(Jobs)
        /\ DOMAIN pending' = 1 .. Len(pending) + 1
        /\ \A a \in DOMAIN pending : pending[a] \in Jobs /\ pending'[a] = pending[a]
        /\ pending'[Len(pending) + 1] = j
    BY <2>2, AppendProperties, LenProperties, ElementOfSeq DEF IInv, TypeOK
  <2>5. PendingIsExact'
    <3>1. IsInjective(pending')
      BY <2>2, <2>3, AppendKeepsInjective DEF IInv, TypeOK, PendingIsExact
    <3>2. ASSUME NEW e \in Jobs, jobs'[e].state \in Waiting
          PROVE  \E a \in DOMAIN pending' : pending'[a] = e
      <4>1. CASE e = j
        BY <2>4, <4>1
      <4>2. CASE e # j
        <5>1. jobs'[e] = jobs[e]
          BY <2>2, <4>2 DEF IInv, TypeOK
        <5>2. PICK a \in DOMAIN pending : pending[a] = e
          BY <3>2, <5>1 DEF IInv, PendingIsExact
        <5> QED  BY <2>4, <5>2
      <4> QED  BY <4>1, <4>2
    <3>3. ASSUME NEW a \in DOMAIN pending'
          PROVE  jobs'[pending'[a]].state \in Waiting \cup {"CANCELLED"}
      <4>1. CASE a \in DOMAIN pending
        BY <2>2, <2>3, <2>4, <4>1 DEF IInv, TypeOK, PendingIsExact
      <4>2. CASE a = Len(pending) + 1
        BY <2>1, <2>2, <2>4, <4>2 DEF IInv, TypeOK
      <4> QED  BY <2>4, <4>1, <4>2
    <3> QED  BY <3>1, <3>2, <3>3 DEF PendingIsExact
  <2> QED  BY <2>1, <2>2, <2>4, <2>5, ReplaceJob
<1> QED  BY <1>1, <1>2

LEMMA RecoverIInv ==
    ASSUME IInv, RecoverStale
    PROVE  IInv'
<1> PICK q \in SetToSeqs(Requeued) : pending' = pending \o q
  BY DEF RecoverStale
<1>1. /\ jobs' = [j \in Jobs |-> IF Stale(jobs[j]) THEN Recovered(jobs[j])
                                  ELSE jobs[j]]
      /\ UNCHANGED byKey
  BY DEF RecoverStale
<1>2. Requeued \in SUBSET Jobs /\ IsFiniteSet(Requeued)
  BY JobQueueAssumption, FS_Subset DEF Requeued
<1>3. /\ q \in Seq(Requeued)
      /\ IsInjective(q)
      /\ \A e \in Requeued : \E b \in DOMAIN q : q[b] = e
  BY <1>2, EnumerationProperties
<1>4. q \in Seq(Jobs) /\ \A b \in DOMAIN q : q[b] \in Requeued
  BY <1>2, <1>3, SeqMonotonic, ElementOfSeq, LenProperties
<1>5. ASSUME NEW j \in Jobs
      PROVE  /\ JobOK(jobs'[j])
             /\ jobs'[j].key = jobs[j].key
             /\ jobs[j].state # "ABSENT" <=> jobs'[j].state # "ABSENT"
             /\ j \in Requeued => jobs'[j].state = "PENDING"
             /\ Stale(jobs[j]) /\ j \notin Requeued => jobs'[j].state = "FAILED"
             /\ ~Stale(jobs[j]) => jobs'[j] = jobs[j]
  <2>1. JobOK(jobs[j])
    BY IInvByJob
  <2>2. CASE ~Stale(jobs[j])
    BY <1>1, <2>1, <2>2 DEF Requeued
  <2>3. CASE Stale(jobs[j]) /\ j \in Requeued
    <3>1. jobs'[j] = Released(jobs[j], "PENDING", NoTime) /\ jobs[j].state = "RUNNING"
      BY <1>1, <2>1, <2>3, JobQueueAssumption DEF Recovered, Requeued, Stale, JobOK, Job
    <3>2. JobOK(jobs'[j])
      BY <2>1, <2>3, <3>1, ReleasedIsOK DEF Requeued
    <3> QED  BY <2>1, <2>3, <3>1, <3>2 DEF Released, JobOK, Job
  <2>4. CASE Stale(jobs[j]) /\ j \notin Requeued
    <3>1. jobs'[j] = Released(jobs[j], "FAILED", jobs[j].retry) /\ jobs[j].state = "RUNNING"
      BY <1>1, <2>1, <2>4, JobQueueAssumption DEF Recovered, Requeued, Stale, JobOK, Job
    <3>2. JobOK(jobs'[j])
      <4>1. jobs[j].retry \in (0 .. MaxDelay) \cup {NoTime}
        BY <2>1 DEF JobOK, Job
      <4> QED  BY <2>1, <3>1, <4>1, ReleasedIsOK
    <3> QED  BY <2>1, <2>4, <3>1, <3>2 DEF Released, JobOK, Job
  <2> QED  BY <2>2, <2>3, <2>4
<1>6. \A a \in DOMAIN pending :
         pending[a] \in Jobs /\ jobs[pending[a]].state \in Waiting \cup {"CANCELLED"}
  BY ElementOfSeq, LenProperties DEF IInv, TypeOK, PendingIsExact
<1>7. Joins(pending', pending, q, Jobs)
  <2>1. \A a \in DOMAIN pending, b \in DOMAIN q : pending[a] # q[b]
    BY <1>4, <1>6 DEF Requeued, Stale
  <2>2. pending \in Seq(Jobs) /\ IsInjective(pending)
    BY DEF IInv, TypeOK, PendingIsExact
  <2>3. Joins(pending \o q, pending, q, Jobs)
    BY <1>3, <1>4, <2>1, <2>2, ConcatInjective
  <2> QED  BY <2>3
<1>8. TypeOK' /\ AttemptBudget' /\ LeaseIsExact' /\ AbsentIsBlank'
  BY <1>1, <1>5, <1>7 DEF Joins, IInv, TypeOK, AttemptBudget, LeaseIsExact, AbsentIsBlank, JobOK
<1>9. PendingIsExact'
  <2>1. ASSUME NEW e \in Jobs, jobs'[e].state \in Waiting
        PROVE  \E c \in DOMAIN pending' : pending'[c] = e
    <3>1. CASE e \in Requeued
      <4>1. PICK b \in DOMAIN q : q[b] = e
        BY <1>3, <3>1
      <4> QED  BY <1>7, <4>1 DEF Joins
    <3>2. CASE e \notin Requeued
      <4>1. jobs[e].state \in Waiting
        BY <1>5, <2>1, <3>2
      <4>2. PICK a \in DOMAIN pending : pending[a] = e
        BY <4>1 DEF IInv, PendingIsExact
      <4> QED  BY <1>7, <4>2 DEF Joins
    <3> QED  BY <3>1, <3>2
  <2>2. ASSUME NEW c \in DOMAIN pending'
        PROVE  jobs'[pending'[c]].state \in Waiting \cup {"CANCELLED"}
    <3>1. CASE \E a \in DOMAIN pending : pending'[c] = pending[a]
      BY <1>5, <1>6, <3>1 DEF Stale
    <3>2. CASE \E b \in DOMAIN q : pending'[c] = q[b]
      BY <1>2, <1>4, <1>5, <3>2
    <3> QED  BY <1>7, <3>1, <3>2 DEF Joins
  <2> QED  BY <1>7, <2>1, <2>2 DEF Joins, PendingIsExact
<1>10. KeysAreUnique'
  BY <1>1, <1>5 DEF IInv, KeysAreUnique
<1> QED  BY <1>8, <1>9, <1>10 DEF IInv

LEMMA TickIInv ==
    ASSUME IInv, Tick
    PROVE  IInv'
<1>1. ASSUME NEW j \in Jobs
      PROVE  JobOK(jobs'[j]) /\ jobs'[j].state = jobs[j].state /\ jobs'[j].key = jobs[j].key
  <2>1. JobOK(jobs[j])
    BY IInvByJob
  <2>2. jobs'[j] = Older(jobs[j])
    BY DEF Tick
  <2> QED  BY <2>1, <2>2, OlderIsOK
<1>2. \A a \in DOMAIN pending : pending[a] \in Jobs
  BY ElementOfSeq, LenProperties DEF IInv, TypeOK
<1>3. TypeOK' /\ AttemptBudget' /\ LeaseIsExact' /\ AbsentIsBlank'
  BY <1>1 DEF Tick, IInv, TypeOK, AttemptBudget, LeaseIsExact, AbsentIsBlank, JobOK
<1>4. PendingIsExact'
  BY <1>1, <1>2 DEF Tick, IInv, PendingIsExact
<1>5. KeysAreUnique'
  BY <1>1 DEF Tick, IInv, KeysAreUnique
<1> QED  BY <1>3, <1>4, <1>5 DEF IInv

LEMMA NextIInv == IInv /\ [Next]_vars => IInv'
<1> SUFFICES ASSUME IInv, [Next]_vars PROVE IInv'
  OBVIOUS
<1>1. ASSUME NEW j \in Jobs, NEW k \in Keys \cup {NoKey}, Enqueue(j, k) PROVE IInv'
  BY <1>1, EnqueueIInv
<1>2. ASSUME NEW w \in Workers, Claim(w) PROVE IInv'
  BY <1>2, ClaimIInv
<1>3. ASSUME NEW j \in Jobs, NEW w \in Workers, RenewLease(j, w) PROVE IInv'
  BY <1>3, RenewIInv
<1>4. ASSUME NEW j \in Jobs, NEW w \in Workers, Ack(j, w) PROVE IInv'
  BY <1>4, ReleaseIInv DEF Ack, HoldsLease
<1>5. ASSUME NEW j \in Jobs, NEW w \in Workers, NEW r \in BOOLEAN,
             NEW d \in 0 .. MaxDelay, Fail(j, w, r, d) PROVE IInv'
  BY <1>5, FailIInv
<1>6. ASSUME NEW j \in Jobs, Cancel(j) PROVE IInv'
  BY <1>6, ReleaseIInv DEF Cancel
<1>7. CASE RecoverStale
  BY <1>7, RecoverIInv
<1>8. CASE Tick
  BY <1>8, TickIInv
<1>9. CASE UNCHANGED vars
  BY <1>9 DEF vars, IInv, TypeOK, PendingIsExact, AttemptBudget, LeaseIsExact,
              KeysAreUnique, AbsentIsBlank
<1> QED  BY <1>1, <1>2, <1>3, <1>4, <1>5, <1>6, <1>7, <1>8, <1>9 DEF Next

\* Every reachable state satisfies the inductive invariant.
LEMMA Invariant == Spec => []IInv
BY InitIInv, NextIInv, PTL DEF Spec

\* The jobs, the deque and the key index are well typed.
THEOREM TypeCorrect == Spec => []TypeOK
<1>1. IInv => TypeOK
  BY DEF IInv
<1> QED  BY <1>1, Invariant, PTL

\* The deque holds every waiting job exactly once, and beside them only
\* cancelled ids.
THEOREM PendingExact == Spec => []PendingIsExact
<1>1. IInv => PendingIsExact
  BY DEF IInv
<1> QED  BY <1>1, Invariant, PTL

\* No job is claimed more often than max_attempts, though claim never looks.
THEOREM BudgetKept == Spec => []AttemptBudget
<1>1. IInv => AttemptBudget
  BY DEF IInv
<1> QED  BY <1>1, Invariant, PTL

\* A job is leased exactly while it runs.
THEOREM LeaseExact == Spec => []LeaseIsExact
<1>1. IInv => LeaseIsExact
  BY DEF IInv
<1> QED  BY <1>1, Invariant, PTL

\* One job per idempotency key, and the index finds it.
THEOREM KeysExact == Spec => []KeysAreUnique
<1>1. IInv => KeysAreUnique
  BY DEF IInv
<1> QED  BY <1>1, Invariant, PTL

-------------------------------------------------------------------------------
(* No lease is stolen.                                                      *)

\* A live lease ends in a settled state only: the sweep of
\* recover_stale skips it, and claim meets waiting jobs only.
THEOREM LiveLeaseIsKept == Spec => NoStolenLease
<1> DEFINE Kept == \A j \in Jobs :
             jobs[j].state = "RUNNING" /\ jobs[j].lease > 0 =>
                \/ jobs'[j].leased_by = jobs[j].leased_by
                \/ jobs'[j].state \in TERMINAL_STATES \cup {"RETRYABLE"}
<1>1. IInv /\ [Next]_vars => [Kept]_vars
  <2> SUFFICES ASSUME IInv, Next, NEW j \in Jobs,
                      jobs[j].state = "RUNNING", jobs[j].lease > 0
               PROVE  \/ jobs'[j].leased_by = jobs[j].leased_by
                      \/ jobs'[j].state \in TERMINAL_STATES \cup {"RETRYABLE"}
    OBVIOUS
  <2>1. JobOK(jobs[j]) /\ jobs = [i \in Jobs |-> jobs[i]] /\ jobs[j] \in Job
    BY IInvByJob DEF JobOK
  <2>2. ASSUME NEW i \in Jobs, NEW k \in Keys \cup {NoKey}, Enqueue(i, k)
        PROVE  jobs'[j].leased_by = jobs[j].leased_by
    BY <2>1, <2>2 DEF Enqueue
  <2>3. ASSUME NEW w \in Workers, Claim(w)
        PROVE  jobs'[j].leased_by = jobs[j].leased_by
    <3>1. PICK i \in DOMAIN pending :
             /\ Claimable(jobs[pending[i]])
             /\ jobs' = [jobs EXCEPT ![pending[i]] = Leased(@, w)]
      BY <2>3 DEF Claim
    <3>2. pending[i] # j
      BY <3>1 DEF Claimable
    <3> QED  BY <2>1, <3>1, <3>2
  <2>4. ASSUME NEW i \in Jobs, NEW w \in Workers, RenewLease(i, w)
        PROVE  jobs'[j].leased_by = jobs[j].leased_by
    BY <2>1, <2>4 DEF RenewLease, Job
  <2>5. ASSUME NEW i \in Jobs, NEW s \in TERMINAL_STATES \cup {"RETRYABLE"}, NEW r,
               jobs' = [jobs EXCEPT ![i] = Released(@, s, r)]
        PROVE  \/ jobs'[j].leased_by = jobs[j].leased_by
               \/ jobs'[j].state \in TERMINAL_STATES \cup {"RETRYABLE"}
    <3>1. CASE i = j
      <4>1. jobs'[j] = Released(jobs[j], s, r)
        BY <2>1, <2>5, <3>1
      <4>2. jobs'[j].state = s
        BY <2>1, <4>1 DEF Released, Job
      <4> QED  BY <4>2
    <3>2. CASE i # j
      BY <2>1, <2>5, <3>2
    <3> QED  BY <3>1, <3>2
  <2>6. CASE RecoverStale
    <3>1. jobs[j].lease \in Int
      BY <2>1, JobQueueAssumption DEF JobOK, Job
    <3>2. ~Stale(jobs[j])
      BY <3>1 DEF Stale
    <3> QED  BY <2>6, <3>2 DEF RecoverStale
  <2>7. CASE Tick
    BY <2>1, <2>7 DEF Tick, Older, Job
  <2> QED  BY <2>2, <2>3, <2>4, <2>5, <2>6, <2>7 DEF Next, Ack, Fail, Cancel
<1>2. QED  BY <1>1, Invariant, PTL DEF Spec, NoStolenLease

-------------------------------------------------------------------------------
(* The refinement.                                                          *)

phaseMap == [j \in Jobs |-> PhaseOf(jobs[j])]
ownerMap == [j \in Jobs |-> jobs[j].leased_by]
triesMap == [j \in Jobs |-> jobs[j].attempt_count]

\* A step that changes job i only changes the image of job i only.
LEMMA OneJobMoves ==
    ASSUME IInv, NEW i \in Jobs, NEW job, jobs' = [jobs EXCEPT ![i] = job]
    PROVE  /\ phaseMap' = [phaseMap EXCEPT ![i] = PhaseOf(job)]
           /\ ownerMap' = [ownerMap EXCEPT ![i] = job.leased_by]
           /\ triesMap' = [triesMap EXCEPT ![i] = job.attempt_count]
BY DEF IInv, TypeOK, phaseMap, ownerMap, triesMap

\* A job that leaves RUNNING for s, or is cancelled, settles one job.
LEMMA ReleaseSettles ==
    ASSUME IInv, NEW i \in Jobs, NEW s \in TERMINAL_STATES \cup {"RETRYABLE"},
           NEW r, jobs[i].state \in Waiting \cup {"RUNNING"},
           s = "RETRYABLE" => /\ jobs[i].state = "RUNNING"
                              /\ jobs[i].attempt_count < MaxAttempts,
           jobs' = [jobs EXCEPT ![i] = Released(@, s, r)]
    PROVE  Lifecycle!Next
<1> DEFINE Back == IF s = "RETRYABLE" THEN {i} ELSE {}
           Ended == IF s = "RETRYABLE" THEN {} ELSE {i}
           job == Released(jobs[i], s, r)
<1>1. jobs[i] \in Job /\ jobs' = [jobs EXCEPT ![i] = job]
  BY DEF IInv, TypeOK
<1>2. /\ job.state = s /\ job.leased_by = NoWorker
      /\ job.attempt_count = jobs[i].attempt_count
  BY <1>1 DEF Released, Job
<1> HIDE DEF job
<1>3. /\ phaseMap' = [phaseMap EXCEPT ![i] = PhaseOf(job)]
      /\ ownerMap' = [ownerMap EXCEPT ![i] = job.leased_by]
      /\ triesMap' = [triesMap EXCEPT ![i] = job.attempt_count]
  BY <1>1, OneJobMoves
<1>4. PhaseOf(job) = IF s = "RETRYABLE" THEN "waiting" ELSE "over"
  BY <1>2 DEF PhaseOf
<1>5. /\ phaseMap' = [j \in Jobs |-> IF j \in Back THEN "waiting"
                                      ELSE IF j \in Ended THEN "over"
                                      ELSE phaseMap[j]]
      /\ ownerMap' = [j \in Jobs |-> IF j \in Back \cup Ended THEN NoWorker
                                      ELSE ownerMap[j]]
      /\ triesMap' = triesMap
  BY <1>2, <1>3, <1>4 DEF phaseMap, ownerMap, triesMap
<1>6. /\ \A j \in Back : phaseMap[j] = "owned" /\ triesMap[j] < MaxAttempts
      /\ \A j \in Ended : phaseMap[j] \in {"waiting", "owned"}
  BY DEF phaseMap, triesMap, PhaseOf
<1>7. Lifecycle!Settle(Back, Ended)
  BY <1>5, <1>6 DEF Lifecycle!Settle, phaseMap, ownerMap, triesMap
<1>8. Back \in SUBSET Jobs /\ Ended \in SUBSET Jobs
  OBVIOUS
<1> HIDE DEF Back, Ended
<1> QED  BY <1>7, <1>8 DEF Lifecycle!Next

LEMMA RecoverSettles ==
    ASSUME IInv, RecoverStale
    PROVE  Lifecycle!Next
<1> DEFINE Ended == {j \in Jobs : Stale(jobs[j])} \ Requeued
<1>1. ASSUME NEW j \in Jobs
      PROVE  /\ phaseMap'[j] = IF j \in Requeued THEN "waiting"
                               ELSE IF j \in Ended THEN "over" ELSE phaseMap[j]
             /\ ownerMap'[j] = IF j \in Requeued \cup Ended THEN NoWorker
                               ELSE ownerMap[j]
             /\ triesMap'[j] = triesMap[j]
  <2>1. jobs[j] \in Job
    BY DEF IInv, TypeOK
  <2>2. CASE j \in Requeued
    <3>1. jobs'[j] = Released(jobs[j], "PENDING", NoTime)
      BY <2>1, <2>2, JobQueueAssumption DEF RecoverStale, Recovered, Requeued, Job
    <3>2. /\ jobs'[j].state = "PENDING" /\ jobs'[j].leased_by = NoWorker
          /\ jobs'[j].attempt_count = jobs[j].attempt_count
      BY <2>1, <3>1 DEF Released, Job
    <3> QED  BY <2>2, <3>2 DEF phaseMap, ownerMap, triesMap, PhaseOf
  <2>3. CASE j \in Ended
    <3>1. jobs'[j] = Released(jobs[j], "FAILED", jobs[j].retry)
      BY <2>1, <2>3, JobQueueAssumption DEF RecoverStale, Recovered, Requeued, Job
    <3>2. /\ jobs'[j].state = "FAILED" /\ jobs'[j].leased_by = NoWorker
          /\ jobs'[j].attempt_count = jobs[j].attempt_count
      BY <2>1, <3>1 DEF Released, Job
    <3> QED  BY <2>3, <3>2 DEF phaseMap, ownerMap, triesMap, PhaseOf
  <2>4. CASE j \notin Requeued \cup Ended
    <3>1. jobs'[j] = jobs[j]
      BY <2>4 DEF RecoverStale, Requeued
    <3> QED  BY <2>4, <3>1 DEF phaseMap, ownerMap, triesMap
  <2> QED  BY <2>2, <2>3, <2>4
<1>2. /\ \A j \in Requeued : phaseMap[j] = "owned" /\ triesMap[j] < MaxAttempts
      /\ \A j \in Ended : phaseMap[j] \in {"waiting", "owned"}
  BY DEF phaseMap, triesMap, PhaseOf, Requeued, Stale
<1>3. /\ phaseMap' = [j \in Jobs |-> IF j \in Requeued THEN "waiting"
                                      ELSE IF j \in Ended THEN "over"
                                      ELSE phaseMap[j]]
      /\ ownerMap' = [j \in Jobs |-> IF j \in Requeued \cup Ended THEN NoWorker
                                      ELSE ownerMap[j]]
      /\ triesMap' = triesMap
  <2> HIDE DEF Ended
  <2> QED  BY <1>1 DEF phaseMap, ownerMap, triesMap
<1>4. Requeued \in SUBSET Jobs /\ Ended \in SUBSET Jobs /\ Requeued \cap Ended = {}
  BY DEF Requeued
<1> HIDE DEF Ended
<1>5. PICK Back \in SUBSET Jobs, Over \in SUBSET Jobs : Back = Requeued /\ Over = Ended
  BY <1>4
<1>6. Lifecycle!Settle(Back, Over)
  BY <1>2, <1>3, <1>4, <1>5 DEF Lifecycle!Settle, phaseMap, ownerMap, triesMap
<1> QED  BY <1>6 DEF Lifecycle!Next

\* Every operation of the queue is an operation of the lifecycle, or changes
\* nothing the lifecycle sees (a renewal, the clock).
LEMMA StepRefines == IInv /\ [Next]_vars => [Lifecycle!Next]_(Lifecycle!vars)
<1> SUFFICES ASSUME IInv, [Next]_vars PROVE [Lifecycle!Next]_(Lifecycle!vars)
  OBVIOUS
<1> DEFINE Same == phaseMap' = phaseMap /\ ownerMap' = ownerMap /\ triesMap' = triesMap
<1>1. \A j \in Jobs : jobs[j] \in Job
  BY DEF IInv, TypeOK
<1>2. Same => UNCHANGED Lifecycle!vars
  BY DEF Lifecycle!vars, phaseMap, ownerMap, triesMap
<1>3. ASSUME NEW j \in Jobs, NEW k \in Keys \cup {NoKey}, Enqueue(j, k)
      PROVE  Lifecycle!Next
  <2>1. /\ phaseMap' = [phaseMap EXCEPT ![j] = "waiting"]
        /\ ownerMap' = [ownerMap EXCEPT ![j] = NoWorker]
        /\ triesMap' = [triesMap EXCEPT ![j] = 0]
    <3> DEFINE job == Fresh("PENDING", k)
    <3>1. /\ PhaseOf(job) = "waiting" /\ job.leased_by = NoWorker
          /\ job.attempt_count = 0
      BY DEF Fresh, PhaseOf
    <3>2. jobs' = [jobs EXCEPT ![j] = job]
      BY <1>3 DEF Enqueue
    <3> HIDE DEF job
    <3>3. /\ phaseMap' = [phaseMap EXCEPT ![j] = PhaseOf(job)]
          /\ ownerMap' = [ownerMap EXCEPT ![j] = job.leased_by]
          /\ triesMap' = [triesMap EXCEPT ![j] = job.attempt_count]
      BY <3>2, OneJobMoves
    <3> QED  BY <3>1, <3>3
  <2>2. /\ jobs[j].state = "ABSENT" /\ jobs[j].attempt_count = 0
        /\ jobs[j].leased_by = NoWorker
    BY <1>3 DEF Enqueue, IInv, AbsentIsBlank, LeaseIsExact
  <2>3. Lifecycle!Submit(j)
    BY <2>1, <2>2 DEF Lifecycle!Submit, phaseMap, ownerMap, triesMap, PhaseOf
  <2> QED  BY <1>3, <2>3 DEF Lifecycle!Next
<1>4. ASSUME NEW w \in Workers, Claim(w)
      PROVE  Lifecycle!Next
  <2>1. PICK i \in DOMAIN pending :
           /\ Claimable(jobs[pending[i]])
           /\ jobs' = [jobs EXCEPT ![pending[i]] = Leased(@, w)]
    BY <1>4 DEF Claim
  <2>2. PICK j \in Jobs : j = pending[i]
    BY ElementOfSeq, LenProperties DEF IInv, TypeOK
  <2> DEFINE job == Leased(jobs[j], w)
  <2>3. /\ jobs[j].state \in Waiting
        /\ jobs[j].attempt_count < MaxAttempts
        /\ job.state = "RUNNING" /\ job.leased_by = w
        /\ job.attempt_count = jobs[j].attempt_count + 1
    BY <1>1, <2>1, <2>2 DEF Claimable, Leased, Job, IInv, AttemptBudget
  <2>4. jobs' = [jobs EXCEPT ![j] = job]
    BY <2>1, <2>2
  <2> HIDE DEF job
  <2>5. /\ phaseMap' = [phaseMap EXCEPT ![j] = PhaseOf(job)]
        /\ ownerMap' = [ownerMap EXCEPT ![j] = job.leased_by]
        /\ triesMap' = [triesMap EXCEPT ![j] = job.attempt_count]
    BY <2>2, <2>4, OneJobMoves
  <2>6. PhaseOf(job) = "owned" /\ PhaseOf(jobs[j]) = "waiting"
    BY <2>3 DEF PhaseOf
  <2>7. Lifecycle!Take(j, w)
    BY <2>2, <2>3, <2>5, <2>6 DEF Lifecycle!Take, phaseMap, ownerMap, triesMap
  <2> QED  BY <2>2, <2>7 DEF Lifecycle!Next
<1>5. ASSUME NEW j \in Jobs, NEW w \in Workers, RenewLease(j, w)
      PROVE  UNCHANGED Lifecycle!vars
  <2>1. /\ jobs' = [jobs EXCEPT ![j] = [jobs[j] EXCEPT !.lease = LeaseSeconds]]
    BY <1>1, <1>5 DEF RenewLease, IInv, TypeOK
  <2>2. ASSUME NEW i \in Jobs
        PROVE  /\ jobs'[i].state = jobs[i].state
               /\ jobs'[i].leased_by = jobs[i].leased_by
               /\ jobs'[i].attempt_count = jobs[i].attempt_count
    BY <1>1, <2>1 DEF Job, IInv, TypeOK
  <2>3. \A i \in Jobs : PhaseOf(jobs'[i]) = PhaseOf(jobs[i])
    BY <2>2 DEF PhaseOf
  <2>4. Same
    BY <2>2, <2>3 DEF phaseMap, ownerMap, triesMap
  <2> QED  BY <1>2, <2>4
<1>6. CASE Tick
  <2>1. ASSUME NEW i \in Jobs
        PROVE  /\ jobs'[i].state = jobs[i].state
               /\ jobs'[i].leased_by = jobs[i].leased_by
               /\ jobs'[i].attempt_count = jobs[i].attempt_count
    BY <1>1, <1>6 DEF Tick, Older, Job
  <2>2. \A i \in Jobs : PhaseOf(jobs'[i]) = PhaseOf(jobs[i])
    BY <2>1 DEF PhaseOf
  <2>3. Same
    BY <2>1, <2>2 DEF phaseMap, ownerMap, triesMap
  <2> QED  BY <1>2, <2>3
<1>7. ASSUME NEW j \in Jobs, NEW w \in Workers, Ack(j, w)
      PROVE  Lifecycle!Next
  BY <1>7, ReleaseSettles DEF Ack, HoldsLease
<1>8. ASSUME NEW j \in Jobs, NEW w \in Workers, NEW r \in BOOLEAN,
             NEW d \in 0 .. MaxDelay, Fail(j, w, r, d)
      PROVE  Lifecycle!Next
  <2>1. CASE r /\ jobs[j].attempt_count < MaxAttempts
    <3>1. /\ jobs[j].state = "RUNNING"
          /\ jobs' = [jobs EXCEPT ![j] = Released(@, "RETRYABLE", d)]
      BY <1>8, <2>1 DEF Fail, HoldsLease
    <3> QED  BY <2>1, <3>1, ReleaseSettles
  <2>2. CASE ~(r /\ jobs[j].attempt_count < MaxAttempts)
    <3>1. /\ jobs[j].state = "RUNNING"
          /\ jobs' = [jobs EXCEPT ![j] = Released(@, "FAILED", NoTime)]
      BY <1>8, <2>2 DEF Fail, HoldsLease
    <3> QED  BY <3>1, ReleaseSettles
  <2> QED  BY <2>1, <2>2
<1>9. ASSUME NEW j \in Jobs, Cancel(j)
      PROVE  Lifecycle!Next
  BY <1>9, ReleaseSettles DEF Cancel
<1>10. CASE RecoverStale
  BY <1>10, RecoverSettles
<1>11. CASE UNCHANGED vars
  <2>1. Same
    BY <1>11 DEF vars, phaseMap, ownerMap, triesMap
  <2> QED  BY <1>2, <2>1
<1> QED  BY <1>3, <1>4, <1>5, <1>6, <1>7, <1>8, <1>9, <1>10, <1>11 DEF Next

\* The queue implements the lifecycle every caller relies on.
THEOREM Refinement == Spec => ImplementsLifecycle
<1>1. Init => Lifecycle!Init
  BY DEF Init, Lifecycle!Init, Absent, Fresh, PhaseOf
<1>2. QED  BY <1>1, StepRefines, Invariant, PTL
           DEF Spec, ImplementsLifecycle, Lifecycle!Spec

-------------------------------------------------------------------------------
(* What every implementation of the lifecycle inherits from it.             *)

\* A step of the lifecycle keeps the types of its three variables and its
\* budget.
LEMMA LifecycleStep ==
    ASSUME Lifecycle!TypeOK, Lifecycle!Budget, [Lifecycle!Next]_(Lifecycle!vars)
    PROVE  Lifecycle!TypeOK' /\ Lifecycle!Budget'
<1>0. MaxAttempts \in Nat /\ NoWorker \notin Workers
  BY JobQueueAssumption
<1> USE <1>0 DEF Lifecycle!TypeOK, Lifecycle!Budget, Lifecycle!Phases
<1>1. ASSUME NEW j \in Jobs, Lifecycle!Submit(j)
      PROVE  Lifecycle!TypeOK' /\ Lifecycle!Budget'
  BY <1>1 DEF Lifecycle!Submit
<1>2. ASSUME NEW j \in Jobs, NEW w \in Workers, Lifecycle!Take(j, w)
      PROVE  Lifecycle!TypeOK' /\ Lifecycle!Budget'
  <2>1. phaseMap' = [phaseMap EXCEPT ![j] = "owned"]
    BY <1>2 DEF Lifecycle!Take, phaseMap
  <2>2. ownerMap' = [ownerMap EXCEPT ![j] = w]
    BY <1>2 DEF Lifecycle!Take, ownerMap
  <2>3. triesMap' = [triesMap EXCEPT ![j] = @ + 1] /\ triesMap[j] < MaxAttempts
    BY <1>2 DEF Lifecycle!Take, triesMap
  <2>4. /\ phaseMap \in [Jobs -> Lifecycle!Phases]
        /\ ownerMap \in [Jobs -> Workers \cup {NoWorker}]
        /\ triesMap \in [Jobs -> Nat]
    BY DEF phaseMap, ownerMap, triesMap
  <2>5. \A h \in Jobs : /\ triesMap[h] <= MaxAttempts
                        /\ phaseMap[h] = "owned" <=> ownerMap[h] # NoWorker
    BY DEF phaseMap, ownerMap, triesMap
  <2>6. /\ phaseMap' \in [Jobs -> Lifecycle!Phases]
        /\ ownerMap' \in [Jobs -> Workers \cup {NoWorker}]
        /\ triesMap' \in [Jobs -> Nat]
    BY <2>1, <2>2, <2>3, <2>4
  <2>7. \A h \in Jobs : /\ triesMap'[h] <= MaxAttempts
                        /\ phaseMap'[h] = "owned" <=> ownerMap'[h] # NoWorker
    BY <2>1, <2>2, <2>3, <2>4, <2>5
  <2> QED  BY <2>6, <2>7 DEF phaseMap, ownerMap, triesMap
<1>3. ASSUME NEW Back \in SUBSET Jobs, NEW Ended \in SUBSET Jobs,
             Lifecycle!Settle(Back, Ended)
      PROVE  Lifecycle!TypeOK' /\ Lifecycle!Budget'
  BY <1>3 DEF Lifecycle!Settle
<1>4. CASE UNCHANGED Lifecycle!vars
  BY <1>4 DEF Lifecycle!vars
<1> QED  BY <1>1, <1>2, <1>3, <1>4 DEF Lifecycle!Next

\* Whoever keeps the lifecycle keeps its types and its budget.
LEMMA LifecycleInvariant ==
    Lifecycle!Spec => [](Lifecycle!TypeOK /\ Lifecycle!Budget)
<1>1. Lifecycle!Init => Lifecycle!TypeOK /\ Lifecycle!Budget
  BY JobQueueAssumption
     DEF Lifecycle!Init, Lifecycle!TypeOK, Lifecycle!Budget, Lifecycle!Phases
<1> QED  BY <1>1, LifecycleStep, PTL DEF Lifecycle!Spec

\* Whoever keeps the lifecycle, InMemoryJobQueue among them, runs no job more
\* than MaxAttempts times and gives it an owner exactly while it is owned.
THEOREM LifecycleBudget ==
    /\ Lifecycle!Spec => []Lifecycle!Budget
    /\ Spec => []Lifecycle!Budget
<1>1. Lifecycle!Spec => []Lifecycle!Budget
  BY LifecycleInvariant, PTL
<1> QED  BY <1>1, Refinement, PTL DEF ImplementsLifecycle

\* Whoever keeps the lifecycle, InMemoryJobQueue among them, never revives a
\* job: SUCCEEDED, FAILED and CANCELLED are final.
THEOREM LifecycleFinal ==
    /\ Lifecycle!Spec => Lifecycle!OverIsFinal
    /\ Spec => Lifecycle!OverIsFinal
<1>1. Lifecycle!TypeOK /\ [Lifecycle!Next]_(Lifecycle!vars)
        => [\A j \in Jobs : phaseMap[j] = "over" => phaseMap'[j] = "over"]_(Lifecycle!vars)
  BY DEF Lifecycle!Next, Lifecycle!Submit, Lifecycle!Take, Lifecycle!Settle,
         Lifecycle!TypeOK, Lifecycle!vars, phaseMap
<1>2. Lifecycle!Spec => Lifecycle!OverIsFinal
  BY <1>1, LifecycleInvariant, PTL
     DEF Lifecycle!Spec, Lifecycle!OverIsFinal, phaseMap
<1> QED  BY <1>2, Refinement, PTL DEF ImplementsLifecycle
===============================================================================
