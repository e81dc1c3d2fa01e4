------------------------- MODULE RedisJobQueue_proofs -------------------------
(***************************************************************************)
(* Proofs about RedisJobQueue for every set of jobs, workers, keys and     *)
(* clients: however the commands of overlapping calls interleave and       *)
(* whichever of them are cut short, no job gets lost; used by one caller   *)
(* at a time, list, set, markers and documents agree.                      *)
(***************************************************************************)
EXTENDS RedisJobQueue, FiniteSetTheorems, SequenceTheorems, WellFoundedInduction, TLAPS

-------------------------------------------------------------------------------
(* LREM.                                                                   *)

\* Every nonempty set of numbers has a least element.
LEMMA Least ==
    ASSUME NEW T \in SUBSET Nat, T # {}
    PROVE  \E x \in T : \A y \in T : x <= y
<1> DEFINE R == OpToRel(<, Nat)
<1>1. IsWellFoundedOn(R, Nat)
  BY NatLessThanWellFounded
<1>2. \A x, y \in Nat : x < y => <<x, y>> \in R
  BY DEF OpToRel
<1> HIDE DEF R
<1>3. PICK x \in T : \A y \in T : ~(<<y, x>> \in R)
  BY <1>1, WFMin
<1>4. ASSUME NEW y \in T PROVE x <= y
  <2>1. x \in Nat /\ y \in Nat
    OBVIOUS
  <2>2. ~(y < x)
    BY <1>2, <1>3, <2>1
  <2> QED  BY <2>1, <2>2
<1> QED  BY <1>4

\* The positions LREM keeps, and how many of them are at or before i.
Kept(q, x) == {i \in DOMAIN q : q[i] # x}
Rank(q, x, i) == Cardinality({h \in Kept(q, x) : h <= i})

\* All of these are finite.
LEMMA KeptFinite ==
    ASSUME NEW S, NEW q \in Seq(S), NEW x
    PROVE  /\ Kept(q, x) \subseteq 1 .. Len(q) /\ IsFiniteSet(Kept(q, x))
           /\ \A i : IsFiniteSet({h \in Kept(q, x) : h <= i})
           /\ \A i : Rank(q, x, i) \in Nat
           /\ Cardinality(Kept(q, x)) \in Nat
<1>1. Kept(q, x) \subseteq 1 .. Len(q)
  BY LenProperties DEF Kept
<1>2. IsFiniteSet(1 .. Len(q))
  BY FS_Interval, LenProperties
<1>3. IsFiniteSet(Kept(q, x))
  BY <1>1, <1>2, FS_Subset
<1>4. \A i : IsFiniteSet({h \in Kept(q, x) : h <= i})
  BY <1>3, FS_Subset
<1>5. \A i : Rank(q, x, i) \in Nat
  BY <1>4, FS_CardinalityType DEF Rank
<1> QED  BY <1>1, <1>3, <1>4, <1>5, FS_CardinalityType

\* The rank grows by one at a kept position, and nowhere else.
LEMMA RankStep ==
    ASSUME NEW S, NEW q \in Seq(S), NEW x, NEW i \in Nat, i # 0
    PROVE  Rank(q, x, i) = Rank(q, x, i - 1) + (IF i \in Kept(q, x) THEN 1 ELSE 0)
<1> DEFINE Before == {h \in Kept(q, x) : h <= i - 1}
           Upto == {h \in Kept(q, x) : h <= i}
<1>1. Kept(q, x) \subseteq Int
  BY KeptFinite
<1>a. IsFiniteSet(Before)
  <2>1. IsFiniteSet(Kept(q, x))
    BY KeptFinite
  <2> QED  BY <2>1, FS_Subset
<1>2. CASE i \in Kept(q, x)
  <2>1. Upto = Before \cup {i} /\ i \notin Before
    BY <1>1, <1>2
  <2>2. Cardinality(Before \cup {i}) = Cardinality(Before) + 1
    BY <1>a, <2>1, FS_AddElement
  <2> QED  BY <1>2, <2>1, <2>2 DEF Rank
<1>3. CASE i \notin Kept(q, x)
  <2>1. Upto = Before
    BY <1>1, <1>3
  <2>2. Rank(q, x, i - 1) \in Nat
    BY KeptFinite
  <2>3. Rank(q, x, i) = Rank(q, x, i - 1)
    BY <2>1, Zenon DEF Rank
  <2> QED  BY <1>3, <2>2, <2>3
<1> QED  BY <1>2, <1>3

\* Every number up to the count of kept positions is the rank of exactly one.
LEMMA RankIsOnto ==
    ASSUME NEW S, NEW q \in Seq(S), NEW x, NEW n \in 1 .. Cardinality(Kept(q, x))
    PROVE  \E i \in Kept(q, x) : Rank(q, x, i) = n
<1> DEFINE T == {i \in Nat : Rank(q, x, i) >= n}
<1>1. Len(q) \in T
  <2>1. Len(q) \in Nat
    BY LenProperties
  <2>2. {h \in Kept(q, x) : h <= Len(q)} = Kept(q, x)
    BY <2>1, KeptFinite
  <2>3. Rank(q, x, Len(q)) = Cardinality(Kept(q, x))
    BY <2>2 DEF Rank
  <2> QED  BY <2>1, <2>3, KeptFinite
<1>2. PICK i \in T : \A y \in T : i <= y
  BY <1>1, Least
<1>3. i # 0
  <2>1. {h \in Kept(q, x) : h <= 0} = {}
    BY KeptFinite
  <2>2. Rank(q, x, 0) = 0
    BY <2>1, FS_EmptySet DEF Rank
  <2> QED  BY <2>2
<1>4. i - 1 \notin T /\ i - 1 \in Nat
  BY <1>2, <1>3
<1>5. Rank(q, x, i - 1) < n /\ Rank(q, x, i - 1) \in Nat /\ Rank(q, x, i) >= n
  BY <1>4, KeptFinite
<1>6. Rank(q, x, i) = Rank(q, x, i - 1) + (IF i \in Kept(q, x) THEN 1 ELSE 0)
  BY <1>3, RankStep
<1> QED  BY <1>5, <1>6

\* Kept positions have different ranks.
LEMMA RankIsOneToOne ==
    ASSUME NEW S, NEW q \in Seq(S), NEW x, NEW i \in Kept(q, x), NEW h \in Kept(q, x),
           h < i
    PROVE  Rank(q, x, h) < Rank(q, x, i)
<1> DEFINE Low == {g \in Kept(q, x) : g <= h}
           Upto == {g \in Kept(q, x) : g <= i}
<1>1. Kept(q, x) \subseteq Int /\ IsFiniteSet(Low) /\ IsFiniteSet(Upto)
  <2>1. Kept(q, x) \subseteq Int /\ IsFiniteSet(Kept(q, x))
    BY KeptFinite
  <2> QED  BY <2>1, FS_Subset
<1>2. Low \cup {i} \subseteq Upto /\ i \notin Low
  BY <1>1
<1>3. Cardinality(Low \cup {i}) = Cardinality(Low) + 1
  BY <1>1, <1>2, FS_AddElement
<1>4. Cardinality(Low \cup {i}) <= Cardinality(Upto)
  BY <1>1, <1>2, FS_Subset
<1> QED  BY <1>1, <1>3, <1>4, FS_CardinalityType DEF Rank

\* A rank is a position of the shorter list.
LEMMA RankBounds ==
    ASSUME NEW S, NEW q \in Seq(S), NEW x, NEW i \in Kept(q, x)
    PROVE  Rank(q, x, i) \in 1 .. Cardinality(Kept(q, x))
<1> DEFINE Upto == {g \in Kept(q, x) : g <= i}
<1>1. /\ IsFiniteSet(Kept(q, x)) /\ IsFiniteSet(Upto) /\ Upto \subseteq Kept(q, x)
      /\ i \in Upto /\ Cardinality(Upto) \in Nat /\ Cardinality(Kept(q, x)) \in Nat
  <2>1. Kept(q, x) \subseteq Int /\ IsFiniteSet(Kept(q, x))
    BY KeptFinite
  <2> QED  BY <2>1, FS_Subset, FS_CardinalityType
<1>2. Cardinality(Upto) <= Cardinality(Kept(q, x))
  BY <1>1, FS_Subset
<1>3. Cardinality(Upto) # 0
  BY <1>1, FS_EmptySet
<1> QED  BY <1>1, <1>2, <1>3 DEF Rank

\* What LREM leaves: every element but x, none of them twice that was there once.
LEMMA WithoutProperties ==
    ASSUME NEW S, NEW q \in Seq(S), NEW x
    PROVE  /\ Without(q, x) \in Seq(S)
           /\ \A n \in DOMAIN Without(q, x) :
                 Without(q, x)[n] # x /\ \E i \in DOMAIN q : Without(q, x)[n] = q[i]
           /\ \A i \in DOMAIN q : q[i] # x =>
                 \E n \in DOMAIN Without(q, x) : Without(q, x)[n] = q[i]
           /\ (\A h, i \in DOMAIN q : q[h] = q[i] => h = i) =>
                 \A m, n \in DOMAIN Without(q, x) :
                    Without(q, x)[m] = Without(q, x)[n] => m = n
<1> DEFINE K == Kept(q, x)
           at(n) == CHOOSE i \in K : Rank(q, x, i) = n
           w == Without(q, x)
<1>1. w = [n \in 1 .. Cardinality(K) |-> q[at(n)]]
  BY DEF Without, Kept, Rank
<1>2. Cardinality(K) \in Nat
  BY KeptFinite
<1>3. ASSUME NEW n \in 1 .. Cardinality(K)
      PROVE  at(n) \in K /\ Rank(q, x, at(n)) = n
  BY RankIsOnto
<1>4. \A i \in K : i \in DOMAIN q /\ q[i] \in S /\ q[i] # x
  BY ElementOfSeq, LenProperties DEF Kept
<1>5. DOMAIN w = 1 .. Cardinality(K) /\ \A n \in 1 .. Cardinality(K) : w[n] = q[at(n)]
  BY <1>1
<1> HIDE DEF K, at, w
<1>6. w \in Seq(S)
  <2>1. \A n \in 1 .. Cardinality(K) : w[n] \in S
    BY <1>3, <1>4, <1>5
  <2> QED  BY <1>1, <1>2, <1>5, <2>1, IsASeq
<1>7. ASSUME NEW n \in DOMAIN w PROVE w[n] # x /\ \E i \in DOMAIN q : w[n] = q[i]
  BY <1>3, <1>4, <1>5
<1>8. ASSUME NEW i \in DOMAIN q, q[i] # x PROVE \E n \in DOMAIN w : w[n] = q[i]
  <2>1. i \in K
    BY <1>8 DEF K, Kept
  <2>2. PICK n \in 1 .. Cardinality(K) : n = Rank(q, x, i)
    BY <2>1, RankBounds DEF K
  <2>3. at(n) \in K /\ Rank(q, x, at(n)) = n
    BY <1>3
  <2>4. K \subseteq Int
    BY KeptFinite DEF K
  <2>5. at(n) = i
    <3>1. ~(at(n) < i) /\ ~(i < at(n))
      BY <2>1, <2>2, <2>3, RankIsOneToOne, KeptFinite DEF K
    <3> QED  BY <2>1, <2>3, <2>4, <3>1
  <2> QED  BY <1>5, <2>5
<1>9. ASSUME \A h, i \in DOMAIN q : q[h] = q[i] => h = i,
             NEW m \in DOMAIN w, NEW n \in DOMAIN w, w[m] = w[n]
      PROVE  m = n
  <2>1. at(m) = at(n)
    BY <1>3, <1>4, <1>5, <1>9
  <2> QED  BY <1>3, <1>5, <2>1
<1> QED  BY <1>6, <1>7, <1>8, <1>9 DEF w

-------------------------------------------------------------------------------
(* The documents.                                                          *)

\* What the proofs need of the constants.
LEMMA Constants ==
    /\ MaxAttempts \in Nat \ {0} /\ LeaseSeconds \in Nat /\ MaxDelay \in Nat
    /\ NoWorker \notin Workers /\ NoKey \notin Keys /\ NoJob \notin Jobs
    /\ NoTime \notin Int
BY RedisAssumption DEF Queue!JobQueueAssumption

LEMMA FreshDoc ==
    ASSUME NEW k \in Keys \cup {NoKey}
    PROVE  /\ Queue!Fresh("PENDING", k) \in Queue!Job
           /\ Queue!Fresh("PENDING", k).state = "PENDING"
           /\ Queue!Fresh("PENDING", k).key = k
           /\ Queue!Fresh("PENDING", k).attempt_count = 0
           /\ Queue!Fresh("PENDING", k).leased_by = NoWorker
           /\ Queue!Fresh("PENDING", k).lease = NoTime
BY DEF Queue!Fresh, Queue!Job, Queue!JobState, Queue!Waiting

LEMMA AbsentDoc ==
    /\ Queue!Absent \in Queue!Job
    /\ Queue!Absent.state = "ABSENT" /\ Queue!Absent.key = NoKey
    /\ Queue!Absent.attempt_count = 0 /\ Queue!Absent.leased_by = NoWorker
    /\ Queue!Absent.lease = NoTime /\ Queue!Absent.retry = NoTime
BY DEF Queue!Absent, Queue!Fresh, Queue!Job

LEMMA LeasedDoc ==
    ASSUME NEW job \in Queue!Job, NEW w \in Workers
    PROVE  /\ Queue!Leased(job, w) \in Queue!Job
           /\ Queue!Leased(job, w).state = "RUNNING"
           /\ Queue!Leased(job, w).key = job.key
           /\ Queue!Leased(job, w).attempt_count = job.attempt_count + 1
           /\ Queue!Leased(job, w).leased_by = w
           /\ Queue!Leased(job, w).lease = LeaseSeconds
<1>1. LeaseSeconds \in (-1 .. LeaseSeconds) \cup {NoTime}
  BY Constants
<1>2. job.attempt_count + 1 \in Nat
  BY DEF Queue!Job
<1> QED  BY <1>1, <1>2 DEF Queue!Leased, Queue!Job, Queue!JobState

LEMMA ReleasedDoc ==
    ASSUME NEW job \in Queue!Job, NEW s \in Queue!JobState,
           NEW r \in (0 .. MaxDelay) \cup {NoTime}
    PROVE  /\ Queue!Released(job, s, r) \in Queue!Job
           /\ Queue!Released(job, s, r).state = s
           /\ Queue!Released(job, s, r).key = job.key
           /\ Queue!Released(job, s, r).attempt_count = job.attempt_count
           /\ Queue!Released(job, s, r).leased_by = NoWorker
           /\ Queue!Released(job, s, r).lease = NoTime
           /\ Queue!Released(job, s, r).retry = r
BY DEF Queue!Released, Queue!Job

LEMMA RenewedDoc ==
    ASSUME NEW job \in Queue!Job, NEW new, new = [job EXCEPT !.lease = LeaseSeconds]
    PROVE  /\ new \in Queue!Job
           /\ new.state = job.state /\ new.key = job.key
           /\ new.attempt_count = job.attempt_count /\ new.leased_by = job.leased_by
           /\ new.lease = LeaseSeconds /\ new.retry = job.retry
BY Constants DEF Queue!Job

LEMMA OlderDoc ==
    ASSUME NEW job \in Queue!Job
    PROVE  /\ Queue!Older(job) \in Queue!Job
           /\ Queue!Older(job).state = job.state
           /\ Queue!Older(job).key = job.key
           /\ Queue!Older(job).attempt_count = job.attempt_count
           /\ Queue!Older(job).leased_by = job.leased_by
           /\ Queue!Older(job).lease = NoTime <=> job.lease = NoTime
           /\ job.lease \in -1 .. 0 => Queue!Older(job).lease \in -1 .. 0
           /\ Queue!Older(job).retry = Sooner(job.retry)
           /\ Sooner(job.retry) \in (0 .. MaxDelay) \cup {NoTime}
           /\ Sooner(job.retry) = NoTime <=> job.retry = NoTime
<1>1. /\ job = [state |-> job.state, attempt_count |-> job.attempt_count,
                leased_by |-> job.leased_by, lease |-> job.lease,
                retry |-> job.retry, key |-> job.key]
      /\ job.lease \in (-1 .. LeaseSeconds) \cup {NoTime}
      /\ job.retry \in (0 .. MaxDelay) \cup {NoTime}
  BY DEF Queue!Job
<1> DEFINE l == IF job.lease = NoTime \/ job.lease = -1 THEN job.lease ELSE job.lease - 1
<1>2. /\ l \in (-1 .. LeaseSeconds) \cup {NoTime}
      /\ l = NoTime <=> job.lease = NoTime
      /\ job.lease \in -1 .. 0 => l \in -1 .. 0
  BY <1>1, Constants
<1>3. /\ Sooner(job.retry) \in (0 .. MaxDelay) \cup {NoTime}
      /\ Sooner(job.retry) = NoTime <=> job.retry = NoTime
  BY <1>1, Constants DEF Sooner
<1>4. Queue!Older(job) = [job EXCEPT !.lease = l, !.retry = Sooner(job.retry)]
  BY DEF Queue!Older, Sooner
<1> HIDE DEF l
<1> QED  BY <1>1, <1>2, <1>3, <1>4 DEF Queue!Job

-------------------------------------------------------------------------------
(* However calls overlap.                                                  *)

\* A document that is RUNNING names its worker and its lease; no other does
\* both.
Fits(job) == job.state = "RUNNING" <=> (job.lease # NoTime /\ job.leased_by # NoWorker)

\* What a call remembers that no other call can spoil: a document it computed
\* fits, and goes with the command that places it.
CallOK(call) ==
    /\ call.step # "idle" => call.job \in Jobs
    /\ call.step \in {"reserve", "lookup"} => call.key \in Keys
    /\ call.step = "lookup" => idem[call.key] # NoJob
    /\ Fits(call.next)
    /\ call.step = "set" => call.next.state \notin Queue!Waiting
    /\ call.step = "retry" => call.next.state = "RETRYABLE" /\ call.next.retry # NoTime
    /\ call.step = "unlink" => call.next.state = "CANCELLED"
    /\ call.step = "requeue" => call.next.state = "PENDING"

Listed(j) == \E i \in DOMAIN pending : pending[i] = j

\* A waiting job is where claim finds it, a running one where recover_stale does.
JobOK(j) ==
    /\ Fits(docs[j])
    /\ docs[j].state = "PENDING" => Listed(j)
    /\ docs[j].state = "RETRYABLE" => due[j] # NoTime

IInv ==
    /\ StoreOK
    /\ \A c \in Clients : CallOK(client[c])
    /\ \A j \in Jobs : JobOK(j)

\* A document without a lease fits in any state but RUNNING.
LEMMA ReleasedFits ==
    ASSUME NEW job, job.state # "RUNNING", job.lease = NoTime
    PROVE  Fits(job)
BY DEF Fits

LEMMA LeasedFits ==
    ASSUME NEW job, job.state = "RUNNING", job.lease = LeaseSeconds,
           job.leased_by \in Workers
    PROVE  Fits(job)
BY Constants DEF Fits

LEMMA InitIInv == Init => IInv
<1> SUFFICES ASSUME Init PROVE IInv
  OBVIOUS
<1>1. Idle \in Call /\ Idle.step = "idle" /\ Idle.next = Queue!Absent
  BY AbsentDoc DEF Idle, Call, Steps
<1>2. StoreOK
  <2>1. /\ docs \in [Jobs -> Queue!Job] /\ client \in [Clients -> Call]
        /\ due \in [Jobs -> (0 .. MaxDelay) \cup {NoTime}]
        /\ idem \in [Keys -> Jobs \cup {NoJob}]
    BY <1>1, AbsentDoc DEF Init
  <2>2. pending \in Seq(Jobs)
    BY EmptySeq DEF Init
  <2> QED  BY <2>1, <2>2 DEF StoreOK
<1>3. Fits(Queue!Absent)
  BY AbsentDoc DEF Fits
<1>4. \A c \in Clients : CallOK(client[c])
  BY <1>1, <1>3 DEF Init, CallOK
<1>5. \A j \in Jobs : JobOK(j)
  BY <1>3, AbsentDoc DEF Init, JobOK
<1> QED  BY <1>2, <1>4, <1>5 DEF IInv

\* A step that changes the call of one client and forgets no key.
LEMMA OneCall ==
    ASSUME IInv, NEW c \in Clients, NEW call \in Call, Goes(c, call),
           \A k \in Keys : idem[k] # NoJob => idem'[k] # NoJob,
           CallOK(call)'
    PROVE  client' \in [Clients -> Call] /\ \A b \in Clients : CallOK(client[b])'
<1>1. client' = [client EXCEPT ![c] = call] /\ client \in [Clients -> Call]
  BY DEF Goes, IInv, StoreOK
<1>2. ASSUME NEW b \in Clients PROVE CallOK(client[b])'
  <2>1. CASE b = c
    <3>1. client'[b] = call
      BY <1>1, <2>1
    <3> QED  BY <3>1 DEF CallOK
  <2>2. CASE b # c
    <3>1. client'[b] = client[b] /\ CallOK(client[b])
      BY <1>1, <2>2 DEF IInv
    <3> QED  BY <3>1 DEF CallOK
  <2> QED  BY <2>1, <2>2
<1> QED  BY <1>1, <1>2

LEMMA IdleOK ==
    /\ Idle \in Call /\ Idle.step = "idle" /\ Idle.next = Queue!Absent
    /\ Idle.job = NoJob
    /\ CallOK(Idle)
<1>1. /\ Idle \in Call /\ Idle.step = "idle" /\ Idle.next = Queue!Absent
      /\ Idle.job = NoJob
  BY AbsentDoc DEF Idle, Call, Steps
<1>2. Fits(Queue!Absent)
  BY AbsentDoc DEF Fits
<1> QED  BY <1>1, <1>2 DEF CallOK

\* A step that leaves the store alone and goes into a sound call.
LEMMA OnlyTheCall ==
    ASSUME IInv, UNCHANGED store, NEW c \in Clients, NEW call \in Call,
           Goes(c, call), CallOK(call)
    PROVE  IInv'
<1>1. CallOK(call)'
  BY DEF CallOK, store
<1>2. client' \in [Clients -> Call] /\ \A b \in Clients : CallOK(client[b])'
  BY <1>1, OneCall DEF store
<1>3. \A j \in Jobs : JobOK(j)'
  BY DEF IInv, JobOK, Listed, store
<1> QED  BY <1>2, <1>3 DEF IInv, StoreOK, store

\* LPUSH and RPOP on the list.
LEMMA Pushed ==
    ASSUME NEW S, NEW q \in Seq(S), NEW x \in S, NEW p, p = <<x>> \o q
    PROVE  /\ p \in Seq(S) /\ DOMAIN p = 1 .. Len(q) + 1 /\ Len(q) \in Nat
           /\ DOMAIN q = 1 .. Len(q)
           /\ p[1] = x /\ \A i \in 1 .. Len(q) : p[i + 1] = q[i]
<1>1. <<x>> \in Seq(S) /\ Len(<<x>>) = 1 /\ <<x>>[1] = x
  OBVIOUS
<1>2. Len(q) \in Nat /\ DOMAIN q = 1 .. Len(q)
  BY LenProperties
<1>3. /\ p \in Seq(S) /\ Len(p) = 1 + Len(q)
      /\ \A i \in 1 .. 1 + Len(q) : p[i] = IF i <= 1 THEN <<x>>[i] ELSE q[i - 1]
  BY <1>1, ConcatProperties
<1>4. DOMAIN p = 1 .. Len(q) + 1
  BY <1>2, <1>3, LenProperties
<1>5. \A i \in 1 .. Len(q) : p[i + 1] = q[i]
  BY <1>2, <1>3
<1> QED  BY <1>1, <1>2, <1>3, <1>4, <1>5

LEMMA Popped ==
    ASSUME NEW S, NEW q \in Seq(S), q # <<>>
    PROVE  /\ Last(q) \in S /\ Front(q) \in Seq(S)
           /\ Len(q) \in Nat \ {0} /\ DOMAIN q = 1 .. Len(q) /\ Last(q) = q[Len(q)]
           /\ DOMAIN Front(q) = 1 .. Len(q) - 1
           /\ \A i \in 1 .. Len(q) - 1 : Front(q)[i] = q[i]
<1>1. /\ Len(q) \in Nat \ {0} /\ DOMAIN q = 1 .. Len(q) /\ Last(q) = q[Len(q)]
      /\ \A i \in 1 .. Len(q) : q[i] \in S
  BY LenProperties, EmptySeq, ElementOfSeq DEF Last
<1>2. /\ Front(q) \in Seq(S) /\ Len(Front(q)) = Len(q) - 1
      /\ \A i \in 1 .. Len(q) - 1 : Front(q)[i] = q[i]
  BY <1>1, SubSeqProperties DEF Front
<1> QED  BY <1>1, <1>2, LenProperties

\* A step that writes one document and keeps the others placed.
LEMMA OneDoc ==
    ASSUME IInv, NEW j \in Jobs, NEW doc \in Queue!Job,
           docs' = [docs EXCEPT ![j] = doc],
           Fits(doc), doc.state = "PENDING" => Listed(j)',
           doc.state = "RETRYABLE" => due'[j] # NoTime,
           \A i \in Jobs \ {j} : /\ Listed(i) => Listed(i)'
                                 /\ due[i] # NoTime => due'[i] # NoTime
    PROVE  docs' \in [Jobs -> Queue!Job] /\ \A i \in Jobs : JobOK(i)'
<1>1. docs \in [Jobs -> Queue!Job]
  BY DEF IInv, StoreOK
<1>2. ASSUME NEW i \in Jobs PROVE JobOK(i)'
  <2>1. CASE i = j
    <3>1. docs'[i] = doc
      BY <1>1, <2>1
    <3> QED  BY <2>1, <3>1 DEF JobOK, Fits
  <2>2. CASE i # j
    <3>1. docs'[i] = docs[i] /\ JobOK(i)
      BY <1>1, <2>2 DEF IInv
    <3> QED  BY <2>2, <3>1 DEF JobOK, Fits
  <2> QED  BY <2>1, <2>2
<1> QED  BY <1>1, <1>2

LEMMA EnqueueIInv ==
    ASSUME IInv, NEW c \in Clients, NEW j \in Jobs, NEW k \in Keys \cup {NoKey},
           Enqueue(c, j, k)
    PROVE  IInv'
<1>1. PICK call : call = [Idle EXCEPT !.step = IF k = NoKey THEN "create" ELSE "reserve",
                                      !.job = j, !.key = k]
  OBVIOUS
<1>2. /\ call \in Call /\ call.step = IF k = NoKey THEN "create" ELSE "reserve"
      /\ call.job = j /\ call.key = k /\ call.next = Queue!Absent
  BY <1>1, AbsentDoc DEF Idle, Call, Steps
<1>3. Fits(Queue!Absent)
  BY AbsentDoc DEF Fits
<1>4. CallOK(call)
  BY <1>2, <1>3 DEF CallOK
<1> QED  BY <1>1, <1>2, <1>4, OnlyTheCall DEF Enqueue

LEMMA ReserveIInv ==
    ASSUME IInv, NEW c \in Clients, Reserve(c)
    PROVE  IInv'
<1> DEFINE call == client[c]
<1>1. call \in Call /\ CallOK(call) /\ call.step = "reserve"
  BY DEF IInv, StoreOK, Reserve
<1>2. call.job \in Jobs /\ call.key \in Keys /\ Fits(call.next)
  BY <1>1 DEF CallOK
<1>3. PICK next \in {"create", "lookup"} :
         /\ Goes(c, [call EXCEPT !.step = next])
         /\ \/ next = "create" /\ idem' = [idem EXCEPT ![call.key] = call.job]
            \/ next = "lookup" /\ idem[call.key] # NoJob /\ idem' = idem
  BY DEF Reserve
<1>4. PICK new : new = [call EXCEPT !.step = next]
  OBVIOUS
<1>5. /\ new \in Call /\ new.step = next /\ new.job = call.job /\ new.key = call.key
      /\ new.next = call.next
  BY <1>1, <1>4 DEF Call, Steps
<1>6. idem' \in [Keys -> Jobs \cup {NoJob}] /\ \A k \in Keys : idem[k] # NoJob => idem'[k] # NoJob
  BY <1>2, <1>3, Constants DEF IInv, StoreOK
<1>7. CallOK(new)'
  BY <1>2, <1>3, <1>5 DEF CallOK
<1>8. client' \in [Clients -> Call] /\ \A b \in Clients : CallOK(client[b])'
  <2> HIDE DEF call
  <2> QED  BY <1>3, <1>5, <1>6, <1>7, <1>4, OneCall
<1>9. docs' = docs /\ pending' = pending /\ due' = due
  BY DEF Reserve
<1>10. \A j \in Jobs : JobOK(j)'
  BY <1>9 DEF IInv, JobOK, Listed
<1> QED  BY <1>6, <1>8, <1>9, <1>10 DEF IInv, StoreOK

LEMMA LookUpIInv ==
    ASSUME IInv, NEW c \in Clients, LookUp(c)
    PROVE  IInv'
<1> DEFINE call == client[c]
<1>1. call \in Call /\ CallOK(call) /\ call.step = "lookup"
  BY DEF IInv, StoreOK, LookUp
<1>2. PICK new : new = [call EXCEPT !.step = "create"]
  OBVIOUS
<1>3. new \in Call /\ CallOK(new)
  <2>1. /\ new \in Call /\ new.step = "create" /\ new.job = call.job
        /\ new.next = call.next
    BY <1>1, <1>2 DEF Call, Steps
  <2> QED  BY <1>1, <2>1 DEF CallOK
<1>4. Goes(c, Idle) \/ Goes(c, new)
  BY <1>2 DEF LookUp
<1>5. UNCHANGED store
  BY DEF LookUp
<1> HIDE DEF call
<1> QED  BY <1>3, <1>4, <1>5, IdleOK, OnlyTheCall

LEMMA CreateIInv ==
    ASSUME IInv, NEW c \in Clients, Create(c)
    PROVE  IInv'
<1>1. client[c] \in Call /\ CallOK(client[c]) /\ client[c].step = "create"
  BY DEF IInv, StoreOK, Create
<1>2. PICK j \in Jobs : j = client[c].job
  BY <1>1 DEF CallOK
<1>3. PICK k \in Keys \cup {NoKey} : k = client[c].key
  BY <1>1 DEF Call
<1>4. /\ docs' = [docs EXCEPT ![j] = Queue!Fresh("PENDING", k)]
      /\ pending' = <<j>> \o pending /\ due' = due /\ idem' = idem /\ Goes(c, Idle)
  BY <1>2, <1>3 DEF Create
<1>5. /\ pending' \in Seq(Jobs) /\ DOMAIN pending' = 1 .. Len(pending) + 1
      /\ Len(pending) \in Nat /\ DOMAIN pending = 1 .. Len(pending)
      /\ pending'[1] = j /\ \A i \in 1 .. Len(pending) : pending'[i + 1] = pending[i]
  BY <1>4, Pushed DEF IInv, StoreOK
<1>6. Listed(j)' /\ \A i \in Jobs : Listed(i) => Listed(i)'
  BY <1>5 DEF Listed
<1>7. PICK doc \in Queue!Job : doc = Queue!Fresh("PENDING", k)
  BY FreshDoc
<1>8. Fits(doc) /\ doc.state = "PENDING"
  BY <1>7, FreshDoc, ReleasedFits
<1>9. docs' \in [Jobs -> Queue!Job] /\ \A i \in Jobs : JobOK(i)'
  BY <1>4, <1>6, <1>7, <1>8, OneDoc
<1>10. CallOK(Idle)'
  BY <1>4, IdleOK DEF CallOK
<1>11. client' \in [Clients -> Call] /\ \A b \in Clients : CallOK(client[b])'
  BY <1>4, <1>10, IdleOK, OneCall
<1> QED  BY <1>4, <1>5, <1>9, <1>11 DEF IInv, StoreOK

LEMMA ClaimIInv ==
    ASSUME IInv, NEW c \in Clients, NEW w \in Workers, Claim(c, w)
    PROVE  IInv'
<1>1. idem' = idem /\ client' = client
  BY DEF Claim
<1>2. \A b \in Clients : CallOK(client[b])'
  BY <1>1 DEF IInv, CallOK
<1>3. ASSUME NEW j \in Jobs, docs' = [docs EXCEPT ![j] = Queue!Leased(@, w)]
      PROVE  \E doc \in Queue!Job : /\ docs' = [docs EXCEPT ![j] = doc]
                                    /\ Fits(doc) /\ doc.state = "RUNNING"
  <2>1. PICK old \in Queue!Job : old = docs[j]
    BY DEF IInv, StoreOK
  <2>2. PICK doc \in Queue!Job : doc = Queue!Leased(old, w)
    BY LeasedDoc
  <2>3. Fits(doc) /\ doc.state = "RUNNING"
    BY <2>2, LeasedDoc, LeasedFits
  <2>4. docs' = [docs EXCEPT ![j] = doc]
    BY <1>3, <2>1, <2>2
  <2> QED  BY <2>3, <2>4
<1>4. ASSUME NEW j \in Jobs, due' = [due EXCEPT ![j] = NoTime], pending' = pending,
             docs' = [docs EXCEPT ![j] = Queue!Leased(@, w)]
      PROVE  IInv'
  <2>1. PICK doc \in Queue!Job : /\ docs' = [docs EXCEPT ![j] = doc]
                                 /\ Fits(doc) /\ doc.state = "RUNNING"
    BY <1>3, <1>4
  <2>2. /\ due' \in [Jobs -> (0 .. MaxDelay) \cup {NoTime}]
        /\ \A i \in Jobs \ {j} : due'[i] = due[i]
    BY <1>4 DEF IInv, StoreOK
  <2>3. \A i \in Jobs : Listed(i) => Listed(i)'
    BY <1>4 DEF Listed
  <2>4. docs' \in [Jobs -> Queue!Job] /\ \A i \in Jobs : JobOK(i)'
    BY <2>1, <2>2, <2>3, OneDoc
  <2> QED  BY <1>1, <1>2, <1>4, <2>2, <2>4 DEF IInv, StoreOK
<1>5. ASSUME pending # <<>>, due' = due, pending' = Front(pending),
             docs' = [docs EXCEPT ![Last(pending)] = Queue!Leased(@, w)]
      PROVE  IInv'
  <2>1. /\ Last(pending) \in Jobs /\ Front(pending) \in Seq(Jobs)
        /\ Len(pending) \in Nat \ {0} /\ DOMAIN pending = 1 .. Len(pending)
        /\ Last(pending) = pending[Len(pending)]
        /\ DOMAIN Front(pending) = 1 .. Len(pending) - 1
        /\ \A i \in 1 .. Len(pending) - 1 : Front(pending)[i] = pending[i]
    BY <1>5, Popped DEF IInv, StoreOK
  <2>2. PICK j \in Jobs : j = Last(pending)
    BY <2>1
  <2>3. PICK doc \in Queue!Job : /\ docs' = [docs EXCEPT ![j] = doc]
                                 /\ Fits(doc) /\ doc.state = "RUNNING"
    BY <1>3, <1>5, <2>2
  <2>4. \A i \in Jobs \ {j} : Listed(i) => Listed(i)'
    BY <1>5, <2>1, <2>2 DEF Listed
  <2>5. docs' \in [Jobs -> Queue!Job] /\ \A i \in Jobs : JobOK(i)'
    BY <1>5, <2>3, <2>4, OneDoc
  <2> QED  BY <1>1, <1>2, <1>5, <2>1, <2>5 DEF IInv, StoreOK
<1> QED  BY <1>4, <1>5 DEF Claim

-------------------------------------------------------------------------------
(* The methods that read, compute and write later.                         *)

\* What a document computed by any of them must be for the command it goes
\* with.
Placed(step, doc) ==
    /\ step \in {"set", "retry", "unlink", "requeue"}
    /\ Fits(doc)
    /\ step = "set" => doc.state \notin Queue!Waiting
    /\ step = "retry" => doc.state = "RETRYABLE" /\ doc.retry # NoTime
    /\ step = "unlink" => doc.state = "CANCELLED"
    /\ step = "requeue" => doc.state = "PENDING"

LEMMA PreparesIInv ==
    ASSUME IInv, NEW c \in Clients, NEW j \in Jobs, NEW step, NEW doc \in Queue!Job,
           Prepares(c, j, step, doc), Placed(step, doc)
    PROVE  IInv'
<1>1. step \in Steps
  BY DEF Placed, Steps
<1>2. PICK call : call = [Idle EXCEPT !.step = step, !.job = j, !.next = doc]
  OBVIOUS
<1>3. /\ call \in Call /\ call.step = step /\ call.job = j
      /\ call.next = doc /\ call.key = NoKey
  BY <1>1, <1>2, AbsentDoc DEF Idle, Call
<1>4. CallOK(call)
  BY <1>3 DEF CallOK, Placed
<1> QED  BY <1>2, <1>3, <1>4, OnlyTheCall DEF Prepares

\* A released document goes with the command that its state calls for.
LEMMA ReleasedCall ==
    ASSUME IInv, NEW c \in Clients, NEW j \in Jobs,
           NEW s \in Queue!JobState \ {"RUNNING"},
           NEW r \in (0 .. MaxDelay) \cup {NoTime}, NEW step,
           Prepares(c, j, step, Queue!Released(docs[j], s, r)),
           \/ step = "set" /\ s \in {"SUCCEEDED", "FAILED"}
           \/ step = "retry" /\ s = "RETRYABLE" /\ r # NoTime
           \/ step = "unlink" /\ s = "CANCELLED"
           \/ step = "requeue" /\ s = "PENDING"
    PROVE  IInv'
<1>1. PICK job \in Queue!Job : job = docs[j]
  BY DEF IInv, StoreOK
<1>2. PICK doc \in Queue!Job : doc = Queue!Released(job, s, r)
  BY ReleasedDoc
<1>3. doc.state = s /\ doc.lease = NoTime /\ doc.retry = r
  BY <1>2, ReleasedDoc
<1>4. Fits(doc)
  BY <1>3, ReleasedFits
<1>5. Placed(step, doc)
  BY <1>3, <1>4 DEF Placed, Queue!Waiting
<1> QED  BY <1>1, <1>2, <1>5, PreparesIInv

LEMMA BeginIInv ==
    ASSUME IInv, NEW c \in Clients, Begin(c)
    PROVE  IInv'
<1> USE DEF Queue!JobState, Queue!TERMINAL_STATES, Queue!Waiting
<1>1. \A j \in Jobs : docs[j] \in Queue!Job /\ Fits(docs[j])
  BY DEF IInv, StoreOK, JobOK
<1>2. ASSUME NEW j \in Jobs, NEW k \in Keys \cup {NoKey}, Enqueue(c, j, k)
      PROVE  IInv'
  BY <1>2, EnqueueIInv
<1>3. ASSUME NEW j \in Jobs, NEW w \in Workers, RenewLease(c, j, w)
      PROVE  IInv'
  <2>1. PICK doc : doc = [docs[j] EXCEPT !.lease = LeaseSeconds]
    OBVIOUS
  <2>2. /\ doc \in Queue!Job /\ doc.state = "RUNNING" /\ doc.leased_by = w
        /\ doc.lease = LeaseSeconds
    BY <1>1, <1>3, <2>1, RenewedDoc DEF RenewLease, Queue!HoldsLease
  <2>3. Placed("set", doc)
    BY <2>2, LeasedFits DEF Placed
  <2> QED  BY <1>3, <2>1, <2>2, <2>3, PreparesIInv DEF RenewLease
<1>4. ASSUME NEW j \in Jobs, NEW w \in Workers, Ack(c, j, w)
      PROVE  IInv'
  BY <1>1, <1>4, ReleasedCall DEF Ack
<1>5. ASSUME NEW j \in Jobs, NEW w \in Workers, NEW r \in BOOLEAN,
             NEW d \in 0 .. MaxDelay, Fail(c, j, w, r, d)
      PROVE  IInv'
  <2>1. d # NoTime
    BY Constants
  <2> QED  BY <1>1, <1>5, <2>1, ReleasedCall DEF Fail
<1>6. ASSUME NEW j \in Jobs, Cancel(c, j)
      PROVE  IInv'
  BY <1>1, <1>6, ReleasedCall DEF Cancel
<1>7. ASSUME NEW j \in Jobs, RecoverStale(c, j)
      PROVE  IInv'
  <2>1. docs[j].retry \in (0 .. MaxDelay) \cup {NoTime}
    BY <1>1 DEF Queue!Job
  <2> QED  BY <1>1, <1>7, <2>1, ReleasedCall DEF RecoverStale
<1> QED  BY <1>2, <1>3, <1>4, <1>5, <1>6, <1>7 DEF Begin

LEMMA WriteIInv ==
    ASSUME IInv, NEW c \in Clients, Write(c)
    PROVE  IInv'
<1>1. client[c] \in Call /\ CallOK(client[c])
  BY DEF IInv, StoreOK
<1>2. client[c].step \in {"set", "retry", "unlink", "requeue"} /\ idem' = idem /\ Goes(c, Idle)
  BY DEF Write
<1>3. PICK j \in Jobs : j = client[c].job
  BY <1>1, <1>2 DEF CallOK
<1>4. PICK doc \in Queue!Job : doc = client[c].next
  BY <1>1 DEF Call
<1>5. docs' = [docs EXCEPT ![j] = doc]
  BY <1>3, <1>4 DEF Write
<1>6. CallOK(Idle)'
  BY <1>2, IdleOK DEF CallOK
<1>7. client' \in [Clients -> Call] /\ \A b \in Clients : CallOK(client[b])'
  BY <1>2, <1>6, IdleOK, OneCall
<1>8. idem' \in [Keys -> Jobs \cup {NoJob}]
  BY <1>2 DEF IInv, StoreOK
<1>9. pending \in Seq(Jobs) /\ due \in [Jobs -> (0 .. MaxDelay) \cup {NoTime}]
  BY DEF IInv, StoreOK
<1>10. ASSUME /\ pending' \in Seq(Jobs) /\ due' \in [Jobs -> (0 .. MaxDelay) \cup {NoTime}]
              /\ \A i \in Jobs \ {j} : /\ Listed(i) => Listed(i)'
                                       /\ due[i] # NoTime => due'[i] # NoTime
              /\ doc.state = "PENDING" => Listed(j)'
              /\ doc.state = "RETRYABLE" => due'[j] # NoTime
       PROVE  IInv'
  <2>1. Fits(doc)
    BY <1>1, <1>4 DEF CallOK
  <2>2. docs' \in [Jobs -> Queue!Job] /\ \A i \in Jobs : JobOK(i)'
    BY <1>5, <1>10, <2>1, OneDoc
  <2> QED  BY <1>7, <1>8, <1>10, <2>2 DEF IInv, StoreOK
<1>11. CASE client[c].step = "set"
  <2>1. pending' = pending /\ due' = due
    BY <1>11 DEF Write
  <2>2. doc.state \notin Queue!Waiting
    BY <1>1, <1>4, <1>11 DEF CallOK
  <2> QED  BY <1>9, <1>10, <2>1, <2>2 DEF Listed, Queue!Waiting
<1>12. CASE client[c].step = "retry"
  <2>1. pending' = pending /\ due' = [due EXCEPT ![j] = doc.retry]
    BY <1>3, <1>4, <1>12 DEF Write
  <2>2. doc.state = "RETRYABLE" /\ doc.retry # NoTime
    BY <1>1, <1>4, <1>12 DEF CallOK
  <2>3. doc.retry \in (0 .. MaxDelay) \cup {NoTime}
    BY DEF Queue!Job
  <2>4. /\ due' \in [Jobs -> (0 .. MaxDelay) \cup {NoTime}]
        /\ due'[j] = doc.retry /\ \A i \in Jobs \ {j} : due'[i] = due[i]
    BY <1>9, <2>1, <2>3
  <2> QED  BY <1>9, <1>10, <2>1, <2>2, <2>4 DEF Listed
<1>13. CASE client[c].step = "unlink"
  <2>1. pending' = Without(pending, j) /\ due' = [due EXCEPT ![j] = NoTime]
    BY <1>3, <1>13 DEF Write
  <2>2. doc.state = "CANCELLED"
    BY <1>1, <1>4, <1>13 DEF CallOK
  <2>3. /\ due' \in [Jobs -> (0 .. MaxDelay) \cup {NoTime}]
        /\ \A i \in Jobs \ {j} : due'[i] = due[i]
    BY <1>9, <2>1
  <2>4. /\ Without(pending, j) \in Seq(Jobs)
        /\ \A i \in DOMAIN pending : pending[i] # j =>
              \E n \in DOMAIN Without(pending, j) : Without(pending, j)[n] = pending[i]
    BY <1>9, WithoutProperties
  <2>5. \A i \in Jobs \ {j} : Listed(i) => Listed(i)'
    BY <2>1, <2>4 DEF Listed
  <2> QED  BY <1>10, <2>1, <2>2, <2>3, <2>4, <2>5
<1>14. CASE client[c].step = "requeue"
  <2>1. pending' = <<j>> \o pending /\ due' = due
    BY <1>3, <1>14 DEF Write
  <2>2. /\ pending' \in Seq(Jobs) /\ DOMAIN pending' = 1 .. Len(pending) + 1
        /\ Len(pending) \in Nat /\ DOMAIN pending = 1 .. Len(pending)
        /\ pending'[1] = j /\ \A i \in 1 .. Len(pending) : pending'[i + 1] = pending[i]
    BY <1>9, <2>1, Pushed
  <2>3. Listed(j)' /\ \A i \in Jobs : Listed(i) => Listed(i)'
    BY <2>2 DEF Listed
  <2>4. doc.state = "PENDING"
    BY <1>1, <1>4, <1>14 DEF CallOK
  <2> QED  BY <1>9, <1>10, <2>1, <2>2, <2>3, <2>4
<1> QED  BY <1>2, <1>11, <1>12, <1>13, <1>14

-------------------------------------------------------------------------------
(* The environment.                                                        *)

LEMMA TickIInv ==
    ASSUME IInv, Tick
    PROVE  IInv'
<1>1. pending' = pending /\ idem' = idem
  BY DEF Tick
<1>2. ASSUME NEW j \in Jobs
      PROVE  /\ docs'[j] = Queue!Older(docs[j]) /\ docs'[j] \in Queue!Job
             /\ JobOK(j)' /\ due'[j] \in (0 .. MaxDelay) \cup {NoTime}
  <2>1. PICK old \in Queue!Job : old = docs[j]
    BY DEF IInv, StoreOK
  <2>2. docs'[j] = Queue!Older(old)
    BY <2>1 DEF Tick
  <2>3. /\ docs'[j] \in Queue!Job
        /\ docs'[j].state = old.state /\ docs'[j].leased_by = old.leased_by
        /\ docs'[j].lease = NoTime <=> old.lease = NoTime
    BY <2>2, OlderDoc
  <2>4. due'[j] = Sooner(due[j]) /\ due[j] \in (0 .. MaxDelay) \cup {NoTime}
    BY DEF Tick, IInv, StoreOK
  <2>5. due'[j] \in (0 .. MaxDelay) \cup {NoTime} /\ (due'[j] = NoTime => due[j] = NoTime)
    BY <2>4, Constants DEF Sooner
  <2>6. JobOK(j)
    BY DEF IInv
  <2> QED  BY <1>1, <2>1, <2>2, <2>3, <2>5, <2>6 DEF JobOK, Fits, Listed
<1>3. ASSUME NEW c \in Clients
      PROVE  client'[c] \in Call /\ CallOK(client[c])'
  <2>1. client[c] \in Call /\ CallOK(client[c])
    BY DEF IInv, StoreOK
  <2>2. PICK old \in Queue!Job : old = client[c].next
    BY <2>1 DEF Call
  <2>3. PICK doc \in Queue!Job : doc = Queue!Older(old)
    BY OlderDoc
  <2>4. client'[c] = [client[c] EXCEPT !.next = doc]
    BY <2>2, <2>3 DEF Tick
  <2>5. /\ client'[c] \in Call /\ client'[c].next = doc
        /\ client'[c].step = client[c].step
        /\ client'[c].job = client[c].job /\ client'[c].key = client[c].key
    BY <2>1, <2>4 DEF Call
  <2>6. /\ doc.state = old.state /\ doc.leased_by = old.leased_by
        /\ doc.lease = NoTime <=> old.lease = NoTime
        /\ doc.retry = NoTime <=> old.retry = NoTime
    BY <2>3, OlderDoc
  <2> QED  BY <1>1, <2>1, <2>2, <2>5, <2>6 DEF CallOK, Fits
<1>4. /\ docs' = [j \in Jobs |-> docs'[j]] /\ due' = [j \in Jobs |-> due'[j]]
      /\ client' = [c \in Clients |-> client'[c]]
  BY DEF Tick
<1>5. /\ docs' \in [Jobs -> Queue!Job] /\ client' \in [Clients -> Call]
      /\ due' \in [Jobs -> (0 .. MaxDelay) \cup {NoTime}]
  BY <1>2, <1>3, <1>4
<1> QED  BY <1>1, <1>2, <1>3, <1>5 DEF IInv, StoreOK

LEMMA NextIInv == IInv /\ [Next]_vars => IInv'
<1> SUFFICES ASSUME IInv, [Next]_vars PROVE IInv'
  OBVIOUS
<1>1. ASSUME NEW c \in Clients, Crash(c) PROVE IInv'
  BY <1>1, IdleOK, OnlyTheCall DEF Crash
<1>2. CASE UNCHANGED vars
  BY <1>2 DEF vars, IInv, StoreOK, CallOK, JobOK, Listed
<1> QED  BY <1>1, <1>2, BeginIInv, ReserveIInv, LookUpIInv, CreateIInv, WriteIInv, ClaimIInv,
            TickIInv DEF Next, Continue

-------------------------------------------------------------------------------
(* The theorems.                                                           *)

LEMMA Invariant == Spec => []IInv
BY InitIInv, NextIInv, PTL DEF Spec

\* Every document, list, marker and call in flight is of its type.
THEOREM TypeCorrect == Spec => []TypeOK
<1> DEFINE Typed == overlap \in BOOLEAN
<1>1. Init => Typed
  BY DEF Init
<1>2. Typed /\ [Next]_vars => Typed'
  BY DEF Next, vars
<1>3. IInv /\ Typed => TypeOK
  BY DEF IInv, TypeOK
<1> QED  BY <1>1, <1>2, <1>3, Invariant, PTL DEF Spec

\* However calls overlap and whichever are cut short by a crash, a waiting job
\* is where claim looks for it and a running one is where recover_stale does.
THEOREM NothingIsLost == Spec => []NoJobIsLost
<1>1. ASSUME IInv, NEW j \in Jobs, Listed(j) PROVE Occurrences(j) > 0
  <2> DEFINE at == {i \in DOMAIN pending : pending[i] = j}
  <2>1. at # {}
    BY <1>1 DEF Listed
  <2>2. IsFiniteSet(DOMAIN pending)
    <3>1. DOMAIN pending = 1 .. Len(pending) /\ Len(pending) \in Nat
      BY <1>1, LenProperties DEF IInv, StoreOK
    <3> QED  BY <3>1, FS_Interval
  <2>3. IsFiniteSet(at)
    BY <2>2, FS_Subset
  <2>4. Cardinality(at) # 0 /\ Cardinality(at) \in Nat
    BY <2>1, <2>3, FS_EmptySet, FS_CardinalityType
  <2> QED  BY <2>4 DEF Occurrences
<1>2. IInv => NoJobIsLost
  BY <1>1 DEF IInv, JobOK, Fits, NoJobIsLost, WaitingIsPlaced, RunningIsLeased
<1> QED  BY <1>2, Invariant, PTL

-------------------------------------------------------------------------------
(* One caller at a time.                                                   *)

OneCaller == \A b, c \in Clients :
                client[b].step # "idle" /\ client[c].step # "idle" => b = c

NoneTwice == \A h, i \in DOMAIN pending : pending[h] = pending[i] => h = i

\* Each structure holds the jobs whose state names it, and a waiting job has an
\* attempt left.
PlaceOK(j) ==
    /\ Listed(j) <=> docs[j].state = "PENDING"
    /\ due[j] = (IF docs[j].state = "RETRYABLE" THEN docs[j].retry ELSE NoTime)
    /\ docs[j].state = "RETRYABLE" => docs[j].retry # NoTime
    /\ docs[j].state \in Queue!Waiting => docs[j].attempt_count < MaxAttempts
    /\ docs[j].state = "ABSENT" => docs[j] = Queue!Absent
    /\ docs[j].state # "RUNNING" => docs[j].leased_by = NoWorker

\* A job with a key is the one the key names, and a key names a job that has a
\* document or is about to get one.
KeyOK ==
    /\ \A j \in Jobs : docs[j].state # "ABSENT" /\ docs[j].key # NoKey =>
                          idem[docs[j].key] = j
    /\ \A k \in Keys : idem[k] # NoJob =>
          \/ docs[idem[k]].state # "ABSENT"
          \/ \E c \in Clients : client[c].step = "create" /\ client[c].job = idem[k]

\* What the call under way has read is still so.
FreshCall(call) ==
    /\ call.step \in {"reserve", "lookup", "create"} => docs[call.job] = Queue!Absent
    /\ call.step = "create" /\ call.key # NoKey => idem[call.key] = call.job
    /\ call.step \in {"set", "retry", "unlink", "requeue"} =>
          /\ docs[call.job].state \in Queue!Waiting \cup {"RUNNING"}
          /\ call.next.key = docs[call.job].key
          /\ call.next.attempt_count = docs[call.job].attempt_count
          /\ call.next.leased_by = IF call.next.state = "RUNNING"
                                   THEN docs[call.job].leased_by ELSE NoWorker
    /\ call.step \in {"set", "retry", "requeue"} => docs[call.job].state = "RUNNING"
    /\ call.step \in {"retry", "requeue"} => call.next.attempt_count < MaxAttempts
    /\ call.step = "set" => call.next.state \in Queue!TERMINAL_STATES \cup {"RUNNING"}
    /\ call.step = "requeue" => docs[call.job].lease \in -1 .. 0

SInv ==
    /\ IInv
    /\ OneCaller
    /\ NoneTwice
    /\ KeyOK
    /\ \A j \in Jobs : PlaceOK(j)
    /\ \A c \in Clients : FreshCall(client[c])

LEMMA InitSInv == Init => SInv
<1> SUFFICES ASSUME Init PROVE SInv
  OBVIOUS
<1>1. IInv
  BY InitIInv
<1>2. \A c \in Clients : client[c].step = "idle"
  BY IdleOK DEF Init
<1>3. OneCaller /\ \A c \in Clients : FreshCall(client[c])
  BY <1>2 DEF OneCaller, FreshCall
<1>4. NoneTwice /\ KeyOK
  BY AbsentDoc DEF Init, NoneTwice, KeyOK
<1>5. \A j \in Jobs : PlaceOK(j)
  BY AbsentDoc DEF Init, PlaceOK, Listed, Queue!Waiting
<1> QED  BY <1>1, <1>3, <1>4, <1>5 DEF SInv

Quiet(c) == \A b \in Clients \ {c} : client[b].step = "idle"

\* Every call but the one that moves is idle, before and after.
LEMMA OnlyCaller ==
    ASSUME SInv, NEW c \in Clients, NEW call \in Call, Goes(c, call), Quiet(c),
           FreshCall(call)'
    PROVE  OneCaller' /\ \A b \in Clients : FreshCall(client[b])'
<1>1. /\ client'[c] = call
      /\ \A b \in Clients \ {c} : client'[b] = client[b] /\ client[b].step = "idle"
  BY DEF Goes, SInv, IInv, StoreOK, Quiet
<1>2. OneCaller'
  BY <1>1 DEF OneCaller
<1>3. ASSUME NEW b \in Clients PROVE FreshCall(client[b])'
  <2>1. CASE b = c
    <3>1. client'[b] = call
      BY <1>1, <2>1
    <3> QED  BY <3>1 DEF FreshCall
  <2>2. CASE b # c
    <3>1. client'[b].step = "idle"
      BY <1>1, <2>2
    <3> QED  BY <3>1 DEF FreshCall
  <2> QED  BY <2>1, <2>2
<1> QED  BY <1>2, <1>3

\* A call that starts while all are idle.
LEMMA Starts ==
    ASSUME SInv, NEW c \in Clients, NEW call \in Call, Goes(c, call), UNCHANGED store,
           \A b \in Clients : client[b] = Idle, FreshCall(call), IInv'
    PROVE  SInv'
<1>1. Quiet(c) /\ \A b \in Clients : client[b].step # "create"
  BY IdleOK DEF Quiet
<1>2. FreshCall(call)'
  BY DEF FreshCall, store
<1>3. OneCaller' /\ \A b \in Clients : FreshCall(client[b])'
  BY <1>1, <1>2, OnlyCaller
<1>4. NoneTwice' /\ \A j \in Jobs : PlaceOK(j)'
  BY DEF SInv, NoneTwice, PlaceOK, Listed, store
<1>5. KeyOK'
  BY <1>1 DEF SInv, KeyOK, store
<1> QED  BY <1>3, <1>4, <1>5 DEF SInv

\* A step that writes the document of job j.
LEMMA OnlyDoc ==
    ASSUME SInv, NEW j \in Jobs, NEW doc \in Queue!Job,
           docs' = [docs EXCEPT ![j] = doc], idem' = idem,
           doc.state # "ABSENT",
           doc.key # NoKey => idem[doc.key] = j,
           \A b \in Clients : client[b].step = "create" => client[b].job = j,
           Listed(j)' <=> doc.state = "PENDING",
           due'[j] = (IF doc.state = "RETRYABLE" THEN doc.retry ELSE NoTime),
           doc.state = "RETRYABLE" => doc.retry # NoTime,
           doc.state \in Queue!Waiting => doc.attempt_count < MaxAttempts,
           doc.state # "RUNNING" => doc.leased_by = NoWorker,
           \A i \in Jobs \ {j} : due'[i] = due[i] /\ (Listed(i)' <=> Listed(i))
    PROVE  KeyOK' /\ \A i \in Jobs : PlaceOK(i)'
<1>1. docs'[j] = doc /\ \A i \in Jobs \ {j} : docs'[i] = docs[i]
  BY DEF SInv, IInv, StoreOK
<1>2. ASSUME NEW i \in Jobs PROVE PlaceOK(i)'
  <2>1. CASE i = j
    BY <1>1, <2>1 DEF PlaceOK
  <2>2. CASE i # j
    BY <1>1, <2>2 DEF SInv, PlaceOK
  <2> QED  BY <2>1, <2>2
<1>3. \A i \in Jobs : docs'[i].state # "ABSENT" /\ docs'[i].key # NoKey =>
                         idem'[docs'[i].key] = i
  BY <1>1 DEF SInv, KeyOK
<1>4. ASSUME NEW k \in Keys, idem'[k] # NoJob PROVE docs'[idem'[k]].state # "ABSENT"
  <2>1. idem[k] \in Jobs
    BY <1>4 DEF SInv, IInv, StoreOK
  <2>2. docs[idem[k]].state # "ABSENT" \/ idem[k] = j
    BY <1>4 DEF SInv, KeyOK
  <2> QED  BY <1>1, <2>1, <2>2
<1> QED  BY <1>2, <1>3, <1>4 DEF KeyOK

AllIdle == \A b \in Clients : client[b] = Idle

LEMMA EnqueueSInv ==
    ASSUME SInv, IInv', AllIdle, NEW c \in Clients, NEW j \in Jobs,
           NEW k \in Keys \cup {NoKey}, Enqueue(c, j, k)
    PROVE  SInv'
<1>1. PICK call : call = [Idle EXCEPT !.step = IF k = NoKey THEN "create" ELSE "reserve",
                                      !.job = j, !.key = k]
  OBVIOUS
<1>2. /\ call \in Call /\ call.step = IF k = NoKey THEN "create" ELSE "reserve"
      /\ call.job = j /\ call.key = k
  BY <1>1, AbsentDoc DEF Idle, Call, Steps
<1>3. FreshCall(call)
  BY <1>2 DEF FreshCall, Enqueue
<1> QED  BY <1>1, <1>2, <1>3, Starts DEF Enqueue, AllIdle

\* What a method that has read the document of j must have computed from it.
Computed(step, j, doc) ==
    /\ step \in {"set", "retry", "unlink", "requeue"}
    /\ docs[j].state \in Queue!Waiting \cup {"RUNNING"}
    /\ doc.key = docs[j].key
    /\ doc.attempt_count = docs[j].attempt_count
    /\ doc.leased_by = IF doc.state = "RUNNING" THEN docs[j].leased_by ELSE NoWorker
    /\ step \in {"set", "retry", "requeue"} => docs[j].state = "RUNNING"
    /\ step \in {"retry", "requeue"} => doc.attempt_count < MaxAttempts
    /\ step = "set" => doc.state \in Queue!TERMINAL_STATES \cup {"RUNNING"}
    /\ step = "requeue" => docs[j].lease \in -1 .. 0

LEMMA PreparesSInv ==
    ASSUME SInv, IInv', AllIdle, NEW c \in Clients, NEW j \in Jobs, NEW step,
           NEW doc \in Queue!Job, Prepares(c, j, step, doc), Computed(step, j, doc)
    PROVE  SInv'
<1>1. step \in Steps
  BY DEF Computed, Steps
<1>2. PICK call : call = [Idle EXCEPT !.step = step, !.job = j, !.next = doc]
  OBVIOUS
<1>3. /\ call \in Call /\ call.step = step /\ call.job = j
      /\ call.next = doc /\ call.key = NoKey
  BY <1>1, <1>2, AbsentDoc DEF Idle, Call
<1>4. FreshCall(call)
  BY <1>3 DEF FreshCall, Computed
<1> QED  BY <1>2, <1>3, <1>4, Starts DEF Prepares, AllIdle

LEMMA ReleasedSInv ==
    ASSUME SInv, IInv', AllIdle, NEW c \in Clients, NEW j \in Jobs,
           NEW s \in Queue!JobState \ {"RUNNING"},
           NEW r \in (0 .. MaxDelay) \cup {NoTime}, NEW step,
           Prepares(c, j, step, Queue!Released(docs[j], s, r)),
           step \in {"set", "retry", "unlink", "requeue"},
           docs[j].state \in Queue!Waiting \cup {"RUNNING"},
           step \in {"set", "retry", "requeue"} => docs[j].state = "RUNNING",
           step = "set" => s \in Queue!TERMINAL_STATES,
           step \in {"retry", "requeue"} => docs[j].attempt_count < MaxAttempts,
           step = "requeue" => docs[j].lease \in -1 .. 0
    PROVE  SInv'
<1>1. PICK job \in Queue!Job : job = docs[j]
  BY DEF SInv, IInv, StoreOK
<1>2. PICK doc \in Queue!Job : doc = Queue!Released(job, s, r)
  BY ReleasedDoc
<1>3. /\ doc.state = s /\ doc.key = job.key /\ doc.leased_by = NoWorker
      /\ doc.attempt_count = job.attempt_count
  BY <1>2, ReleasedDoc
<1>4. Computed(step, j, doc)
  BY <1>1, <1>3 DEF Computed
<1> QED  BY <1>1, <1>2, <1>4, PreparesSInv

LEMMA BeginSInv ==
    ASSUME SInv, IInv', AllIdle, NEW c \in Clients, Begin(c)
    PROVE  SInv'
<1> USE DEF Queue!JobState, Queue!TERMINAL_STATES, Queue!Waiting
<1>1. \A j \in Jobs : docs[j] \in Queue!Job /\ Fits(docs[j])
  BY DEF SInv, IInv, StoreOK, JobOK
<1>2. ASSUME NEW j \in Jobs, NEW k \in Keys \cup {NoKey}, Enqueue(c, j, k)
      PROVE  SInv'
  BY <1>2, EnqueueSInv
<1>3. ASSUME NEW j \in Jobs, NEW w \in Workers, RenewLease(c, j, w)
      PROVE  SInv'
  <2>1. PICK doc : doc = [docs[j] EXCEPT !.lease = LeaseSeconds]
    OBVIOUS
  <2>2. /\ doc \in Queue!Job /\ doc.state = "RUNNING" /\ docs[j].state = "RUNNING"
        /\ doc.leased_by = docs[j].leased_by /\ doc.key = docs[j].key
        /\ doc.attempt_count = docs[j].attempt_count
    BY <1>1, <1>3, <2>1, RenewedDoc DEF RenewLease, Queue!HoldsLease
  <2>3. Computed("set", j, doc)
    BY <2>2 DEF Computed
  <2> QED  BY <1>3, <2>1, <2>2, <2>3, PreparesSInv DEF RenewLease
<1>4. ASSUME NEW j \in Jobs, NEW w \in Workers, Ack(c, j, w)
      PROVE  SInv'
  <2>1. docs[j].state = "RUNNING"
    BY <1>4 DEF Ack, Queue!HoldsLease
  <2> QED  BY <1>4, <2>1, ReleasedSInv DEF Ack
<1>5. ASSUME NEW j \in Jobs, NEW w \in Workers, NEW r \in BOOLEAN,
             NEW d \in 0 .. MaxDelay, Fail(c, j, w, r, d)
      PROVE  SInv'
  <2>1. docs[j].state = "RUNNING"
    BY <1>5 DEF Fail, Queue!HoldsLease
  <2> QED  BY <1>5, <2>1, ReleasedSInv DEF Fail
<1>6. ASSUME NEW j \in Jobs, Cancel(c, j)
      PROVE  SInv'
  <2>1. /\ docs[j].state \in Queue!Waiting \cup {"RUNNING"}
        /\ Prepares(c, j, "unlink", Queue!Released(docs[j], "CANCELLED", NoTime))
    BY <1>6 DEF Cancel
  <2> QED  BY <2>1, ReleasedSInv
<1>7. ASSUME NEW j \in Jobs, RecoverStale(c, j)
      PROVE  SInv'
  <2>1. /\ docs[j].retry \in (0 .. MaxDelay) \cup {NoTime}
        /\ docs[j].attempt_count \in Nat
        /\ docs[j].lease \in (-1 .. LeaseSeconds) \cup {NoTime}
    BY <1>1 DEF Queue!Job
  <2>2. docs[j].state = "RUNNING" /\ docs[j].lease \in -1 .. 0
    BY <1>1, <1>7, <2>1, Constants DEF RecoverStale, Queue!Stale, Fits
  <2>3. CASE docs[j].attempt_count >= MaxAttempts
    <3>1. Prepares(c, j, "set", Queue!Released(docs[j], "FAILED", docs[j].retry))
      BY <1>7, <2>3 DEF RecoverStale
    <3> QED  BY <2>1, <2>2, <3>1, ReleasedSInv
  <2>4. CASE ~(docs[j].attempt_count >= MaxAttempts)
    <3>1. Prepares(c, j, "requeue", Queue!Released(docs[j], "PENDING", NoTime))
      BY <1>7, <2>4 DEF RecoverStale
    <3>2. docs[j].attempt_count < MaxAttempts
      BY <2>1, <2>4, Constants
    <3> QED  BY <2>2, <3>1, <3>2, ReleasedSInv
  <2> QED  BY <2>3, <2>4
<1> QED  BY <1>2, <1>3, <1>4, <1>5, <1>6, <1>7 DEF Begin

LEMMA ClaimSInv ==
    ASSUME SInv, IInv', AllIdle, NEW c \in Clients, NEW w \in Workers, Claim(c, w)
    PROVE  SInv'
<1>1. /\ idem' = idem /\ client' = client /\ \A b \in Clients : client[b].step = "idle"
  BY IdleOK DEF Claim, AllIdle
<1>2. OneCaller' /\ \A b \in Clients : FreshCall(client[b])'
  BY <1>1 DEF OneCaller, FreshCall
<1>3. ASSUME NEW j \in Jobs, docs' = [docs EXCEPT ![j] = Queue!Leased(@, w)],
             docs[j].state # "ABSENT", ~Listed(j)', due'[j] = NoTime,
             \A i \in Jobs \ {j} : due'[i] = due[i] /\ (Listed(i)' <=> Listed(i))
      PROVE  KeyOK' /\ \A i \in Jobs : PlaceOK(i)'
  <2>1. PICK old \in Queue!Job : old = docs[j]
    BY DEF SInv, IInv, StoreOK
  <2>2. PICK doc \in Queue!Job : doc = Queue!Leased(old, w)
    BY LeasedDoc
  <2>3. doc.state = "RUNNING" /\ doc.key = old.key
    BY <2>2, LeasedDoc
  <2>4. docs' = [docs EXCEPT ![j] = doc]
    BY <1>3, <2>1, <2>2
  <2>5. doc.key # NoKey => idem[doc.key] = j
    BY <1>3, <2>1, <2>3 DEF SInv, KeyOK
  <2> QED  BY <1>1, <1>3, <2>3, <2>4, <2>5, OnlyDoc DEF Queue!Waiting
<1>4. ASSUME NEW j \in Jobs, due[j] = 0, due' = [due EXCEPT ![j] = NoTime], pending' = pending,
             docs' = [docs EXCEPT ![j] = Queue!Leased(@, w)]
      PROVE  SInv'
  <2>1. docs[j].state = "RETRYABLE" /\ ~Listed(j)
    BY <1>4, Constants DEF SInv, PlaceOK
  <2>2. due'[j] = NoTime /\ \A i \in Jobs \ {j} : due'[i] = due[i]
    BY <1>4 DEF SInv, IInv, StoreOK
  <2>3. \A i \in Jobs : Listed(i)' <=> Listed(i)
    BY <1>4 DEF Listed
  <2>4. KeyOK' /\ \A i \in Jobs : PlaceOK(i)'
    BY <1>3, <1>4, <2>1, <2>2, <2>3
  <2>5. NoneTwice'
    BY <1>4 DEF SInv, NoneTwice
  <2> QED  BY <1>2, <2>4, <2>5 DEF SInv
<1>5. ASSUME pending # <<>>, due' = due, pending' = Front(pending),
             docs' = [docs EXCEPT ![Last(pending)] = Queue!Leased(@, w)]
      PROVE  SInv'
  <2>1. /\ Last(pending) \in Jobs
        /\ Len(pending) \in Nat \ {0} /\ DOMAIN pending = 1 .. Len(pending)
        /\ Last(pending) = pending[Len(pending)]
        /\ DOMAIN Front(pending) = 1 .. Len(pending) - 1
        /\ \A i \in 1 .. Len(pending) - 1 : Front(pending)[i] = pending[i]
    BY <1>5, Popped DEF SInv, IInv, StoreOK
  <2>2. PICK j \in Jobs : j = Last(pending)
    BY <2>1
  <2>3. \A h, i \in DOMAIN pending : pending[h] = pending[i] => h = i
    BY DEF SInv, NoneTwice
  <2>4. Listed(j) /\ ~Listed(j)'
    BY <1>5, <2>1, <2>2, <2>3 DEF Listed
  <2>5. \A i \in Jobs \ {j} : Listed(i)' <=> Listed(i)
    BY <1>5, <2>1, <2>2 DEF Listed
  <2>6. docs[j].state = "PENDING" /\ due[j] = NoTime
    BY <2>4 DEF SInv, PlaceOK
  <2>7. KeyOK' /\ \A i \in Jobs : PlaceOK(i)'
    BY <1>3, <1>5, <2>2, <2>4, <2>5, <2>6
  <2>8. NoneTwice'
    BY <1>5, <2>1, <2>3 DEF NoneTwice
  <2> QED  BY <1>2, <2>7, <2>8 DEF SInv
<1> QED  BY <1>4, <1>5 DEF Claim

\* The other callers are idle while one is in a call.
LEMMA OthersIdle ==
    ASSUME SInv, NEW c \in Clients, client[c].step # "idle"
    PROVE  Quiet(c)
BY DEF SInv, OneCaller, Quiet

LEMMA ReserveSInv ==
    ASSUME SInv, IInv', NEW c \in Clients, Reserve(c)
    PROVE  SInv'
<1> DEFINE call == client[c]
<1>1. /\ call \in Call /\ call.step = "reserve" /\ CallOK(call) /\ FreshCall(call)
  BY DEF SInv, IInv, StoreOK, Reserve
<1>2. /\ call.job \in Jobs /\ call.key \in Keys /\ docs[call.job] = Queue!Absent
  BY <1>1 DEF CallOK, FreshCall
<1>3. /\ docs' = docs /\ pending' = pending /\ due' = due
      /\ idem \in [Keys -> Jobs \cup {NoJob}]
  BY DEF Reserve, SInv, IInv, StoreOK
<1>4. NoneTwice' /\ \A j \in Jobs : PlaceOK(j)'
  BY <1>3 DEF SInv, NoneTwice, PlaceOK, Listed
<1>5. PICK next \in {"create", "lookup"} :
         /\ Goes(c, [call EXCEPT !.step = next])
         /\ \/ /\ next = "create" /\ idem[call.key] = NoJob
               /\ idem' = [idem EXCEPT ![call.key] = call.job]
            \/ next = "lookup" /\ idem' = idem
  BY DEF Reserve
<1>6. PICK new : new = [call EXCEPT !.step = next]
  OBVIOUS
<1>7. /\ new \in Call /\ new.step = next /\ new.job = call.job /\ new.key = call.key
  BY <1>1, <1>6 DEF Call, Steps
<1>8. FreshCall(new)'
  BY <1>2, <1>3, <1>5, <1>7 DEF FreshCall
<1>9. Quiet(c)
  BY <1>1, OthersIdle
<1>10. OneCaller' /\ \A b \in Clients : FreshCall(client[b])'
  <2> HIDE DEF call
  <2> QED  BY <1>5, <1>6, <1>7, <1>8, <1>9, OnlyCaller
<1>11. client'[c] = new /\ \A b \in Clients : client[b].step # "create"
  BY <1>1, <1>5, <1>6, <1>9 DEF Goes, Quiet, SInv, IInv, StoreOK
<1>12. ASSUME NEW j \in Jobs, docs'[j].state # "ABSENT", docs'[j].key # NoKey
       PROVE  idem'[docs'[j].key] = j
  <2>1. docs[j] \in Queue!Job /\ docs'[j] = docs[j]
    BY <1>3 DEF SInv, IInv, StoreOK
  <2>2. docs[j].key \in Keys /\ idem[docs[j].key] = j
    BY <1>12, <2>1 DEF Queue!Job, SInv, KeyOK
  <2> QED  BY <1>2, <1>3, <1>5, <2>1, <2>2, Constants
<1>13. ASSUME NEW k \in Keys, idem'[k] # NoJob
       PROVE  \/ docs'[idem'[k]].state # "ABSENT"
              \/ \E b \in Clients : client'[b].step = "create" /\ client'[b].job = idem'[k]
  <2>1. CASE next = "create" /\ k = call.key
    BY <1>2, <1>3, <1>5, <1>7, <1>11, <2>1
  <2>2. CASE ~(next = "create" /\ k = call.key)
    <3>1. idem'[k] = idem[k]
      BY <1>2, <1>3, <1>5, <2>2
    <3> QED  BY <1>3, <1>11, <1>13, <3>1 DEF SInv, KeyOK
  <2> QED  BY <2>1, <2>2
<1>14. KeyOK'
  BY <1>12, <1>13 DEF KeyOK
<1> QED  BY <1>4, <1>10, <1>14 DEF SInv

\* With one caller the key looked up names a job that has its document.
LEMMA LookUpSInv ==
    ASSUME SInv, IInv', NEW c \in Clients, LookUp(c)
    PROVE  SInv' /\ Goes(c, Idle)
<1>1. /\ client[c] \in Call /\ client[c].step = "lookup" /\ CallOK(client[c])
  BY DEF SInv, IInv, StoreOK, LookUp
<1>2. PICK k \in Keys : k = client[c].key /\ idem[k] # NoJob
  BY <1>1 DEF CallOK
<1>3. Quiet(c)
  BY <1>1, OthersIdle
<1>4. \A b \in Clients : client[b].step # "create"
  BY <1>1, <1>3 DEF Quiet
<1>5. docs[idem[k]].state # "ABSENT"
  BY <1>2, <1>4 DEF SInv, KeyOK
<1>6. Goes(c, Idle)
  BY <1>2, <1>5, AbsentDoc DEF LookUp
<1>7. UNCHANGED store
  BY DEF LookUp
<1>8. NoneTwice' /\ \A j \in Jobs : PlaceOK(j)'
  BY <1>7 DEF SInv, NoneTwice, PlaceOK, Listed, store
<1>9. KeyOK'
  BY <1>4, <1>7 DEF SInv, KeyOK, store
<1>10. FreshCall(Idle)'
  BY IdleOK DEF FreshCall
<1>11. OneCaller' /\ \A b \in Clients : FreshCall(client[b])'
  BY <1>3, <1>6, <1>10, IdleOK, OnlyCaller
<1> QED  BY <1>6, <1>8, <1>9, <1>11 DEF SInv

\* LPUSH of an id that is not in the list.
LEMMA PushedOnce ==
    ASSUME SInv, NEW j \in Jobs, ~Listed(j), pending' = <<j>> \o pending
    PROVE  /\ NoneTwice' /\ Listed(j)'
           /\ \A i \in Jobs \ {j} : Listed(i)' <=> Listed(i)
<1>1. /\ DOMAIN pending' = 1 .. Len(pending) + 1
      /\ Len(pending) \in Nat /\ DOMAIN pending = 1 .. Len(pending)
      /\ pending'[1] = j /\ \A i \in 1 .. Len(pending) : pending'[i + 1] = pending[i]
  BY Pushed DEF SInv, IInv, StoreOK
<1>2. \A i \in 2 .. Len(pending) + 1 : i - 1 \in DOMAIN pending /\ pending'[i] = pending[i - 1]
  BY <1>1
<1>3. \A i \in DOMAIN pending : pending[i] # j
  BY DEF Listed
<1>4. Listed(j)'
  BY <1>1 DEF Listed
<1>5. ASSUME NEW i \in Jobs \ {j} PROVE Listed(i)' <=> Listed(i)
  <2>1. ASSUME NEW n \in DOMAIN pending', pending'[n] = i PROVE Listed(i)
    BY <1>1, <1>2, <2>1 DEF Listed
  <2>2. ASSUME NEW n \in DOMAIN pending, pending[n] = i PROVE Listed(i)'
    <3>1. n + 1 \in DOMAIN pending' /\ pending'[n + 1] = i
      BY <1>1, <2>2
    <3> QED  BY <3>1 DEF Listed
  <2> QED  BY <2>1, <2>2 DEF Listed
<1>6. ASSUME NEW h \in DOMAIN pending', NEW i \in DOMAIN pending', pending'[h] = pending'[i]
      PROVE  h = i
  <2>1. \A m, n \in DOMAIN pending : pending[m] = pending[n] => m = n
    BY DEF SInv, NoneTwice
  <2>2. CASE h = 1 \/ i = 1
    BY <1>1, <1>2, <1>3, <1>6, <2>2
  <2>3. CASE h # 1 /\ i # 1
    <3>1. h \in 2 .. Len(pending) + 1 /\ i \in 2 .. Len(pending) + 1
      BY <1>1, <2>3
    <3>2. h - 1 = i - 1
      BY <1>2, <1>6, <2>1, <3>1
    <3> QED  BY <3>1, <3>2
  <2> QED  BY <2>2, <2>3
<1> QED  BY <1>4, <1>5, <1>6 DEF NoneTwice

LEMMA CreateSInv ==
    ASSUME SInv, IInv', NEW c \in Clients, Create(c)
    PROVE  SInv'
<1>1. /\ client[c] \in Call /\ client[c].step = "create"
      /\ CallOK(client[c]) /\ FreshCall(client[c])
  BY DEF SInv, IInv, StoreOK, Create
<1>2. PICK j \in Jobs : j = client[c].job
  BY <1>1 DEF CallOK
<1>3. PICK k \in Keys \cup {NoKey} : k = client[c].key
  BY <1>1 DEF Call
<1>4. docs[j] = Queue!Absent /\ (k # NoKey => idem[k] = j)
  BY <1>1, <1>2, <1>3 DEF FreshCall
<1>5. /\ docs' = [docs EXCEPT ![j] = Queue!Fresh("PENDING", k)]
      /\ pending' = <<j>> \o pending /\ due' = due /\ idem' = idem /\ Goes(c, Idle)
  BY <1>2, <1>3 DEF Create
<1>6. ~Listed(j) /\ due[j] = NoTime
  BY <1>4, AbsentDoc DEF SInv, PlaceOK
<1>7. /\ NoneTwice' /\ Listed(j)'
      /\ \A i \in Jobs \ {j} : Listed(i)' <=> Listed(i)
  BY <1>5, <1>6, PushedOnce
<1>8. PICK doc \in Queue!Job : doc = Queue!Fresh("PENDING", k)
  BY FreshDoc
<1>9. /\ doc.state = "PENDING" /\ doc.key = k /\ doc.attempt_count = 0
      /\ doc.leased_by = NoWorker
  BY <1>8, FreshDoc
<1>10. Quiet(c)
  BY <1>1, OthersIdle
<1>11. \A b \in Clients : client[b].step = "create" => client[b].job = j
  BY <1>2, <1>10 DEF Quiet
<1>12. KeyOK' /\ \A i \in Jobs : PlaceOK(i)'
  <2>1. docs' = [docs EXCEPT ![j] = doc] /\ idem' = idem
    BY <1>5, <1>8
  <2>2. doc.key # NoKey => idem[doc.key] = j
    BY <1>4, <1>9
  <2>3. due'[j] = NoTime /\ \A i \in Jobs \ {j} : due'[i] = due[i]
    BY <1>5, <1>6
  <2>4. doc.attempt_count < MaxAttempts
    BY <1>9, Constants
  <2> QED  BY <1>7, <1>9, <1>11, <2>1, <2>2, <2>3, <2>4, OnlyDoc
<1>13. FreshCall(Idle)'
  BY IdleOK DEF FreshCall
<1>14. OneCaller' /\ \A b \in Clients : FreshCall(client[b])'
  BY <1>5, <1>10, <1>13, IdleOK, OnlyCaller
<1> QED  BY <1>7, <1>12, <1>14 DEF SInv

\* What a single caller's write does: it replaces the document it was computed
\* from.
LEMMA WriteFacts ==
    ASSUME SInv, NEW c \in Clients, Write(c)
    PROVE  \E j \in Jobs, doc \in Queue!Job :
              /\ docs' = [docs EXCEPT ![j] = doc]
              /\ j = client[c].job /\ doc = client[c].next
              /\ Computed(client[c].step, j, doc) /\ Placed(client[c].step, doc)
<1>1. /\ client[c] \in Call /\ CallOK(client[c]) /\ FreshCall(client[c])
      /\ client[c].step \in {"set", "retry", "unlink", "requeue"}
  BY DEF SInv, IInv, StoreOK, Write
<1>2. PICK j \in Jobs : j = client[c].job
  BY <1>1 DEF CallOK
<1>3. PICK doc \in Queue!Job : doc = client[c].next
  BY <1>1 DEF Call
<1>4. docs' = [docs EXCEPT ![j] = doc]
  BY <1>2, <1>3 DEF Write
<1>5. Computed(client[c].step, j, doc)
  BY <1>1, <1>2, <1>3 DEF FreshCall, Computed
<1>6. Placed(client[c].step, doc)
  BY <1>1, <1>3 DEF CallOK, Placed
<1> QED  BY <1>2, <1>3, <1>4, <1>5, <1>6

LEMMA WriteSInv ==
    ASSUME SInv, IInv', NEW c \in Clients, Write(c)
    PROVE  SInv'
<1> DEFINE step == client[c].step
<1>1. PICK j \in Jobs, doc \in Queue!Job :
         /\ docs' = [docs EXCEPT ![j] = doc]
         /\ j = client[c].job /\ doc = client[c].next
         /\ Computed(step, j, doc) /\ Placed(step, doc)
  BY WriteFacts
<1>2. idem' = idem /\ Goes(c, Idle) /\ step \in {"set", "retry", "unlink", "requeue"}
  BY DEF Write
<1>3. Quiet(c) /\ \A b \in Clients : client[b].step # "create"
  <2>1. Quiet(c)
    BY <1>2, OthersIdle
  <2> QED  BY <1>2, <2>1 DEF Quiet
<1>4. FreshCall(Idle)'
  BY IdleOK DEF FreshCall
<1>5. OneCaller' /\ \A b \in Clients : FreshCall(client[b])'
  BY <1>2, <1>3, <1>4, IdleOK, OnlyCaller
<1>6. /\ docs[j].state \in Queue!Waiting \cup {"RUNNING"} /\ doc.state # "ABSENT"
      /\ doc.key = docs[j].key
      /\ doc.state # "RUNNING" => doc.leased_by = NoWorker
  BY <1>1, <1>2 DEF Computed, Placed, Queue!Waiting, Queue!TERMINAL_STATES
<1>7. doc.key # NoKey => idem[doc.key] = j
  BY <1>6 DEF SInv, KeyOK, Queue!Waiting
<1>8. /\ pending \in Seq(Jobs) /\ due \in [Jobs -> (0 .. MaxDelay) \cup {NoTime}]
      /\ NoneTwice /\ PlaceOK(j)
  BY DEF SInv, IInv, StoreOK
<1>9. ASSUME NoneTwice', Listed(j)' <=> doc.state = "PENDING",
             due'[j] = (IF doc.state = "RETRYABLE" THEN doc.retry ELSE NoTime),
             doc.state = "RETRYABLE" => doc.retry # NoTime,
             doc.state \in Queue!Waiting => doc.attempt_count < MaxAttempts,
             \A i \in Jobs \ {j} : due'[i] = due[i] /\ (Listed(i)' <=> Listed(i))
      PROVE  SInv'
  <2>1. KeyOK' /\ \A i \in Jobs : PlaceOK(i)'
    BY <1>1, <1>2, <1>3, <1>6, <1>7, <1>9, OnlyDoc
  <2> QED  BY <1>5, <1>9, <2>1 DEF SInv
<1>10. CASE step = "set"
  <2>1. pending' = pending /\ due' = due
    BY <1>10 DEF Write
  <2>2. docs[j].state = "RUNNING" /\ doc.state \in Queue!TERMINAL_STATES \cup {"RUNNING"}
    BY <1>1, <1>10 DEF Computed
  <2>3. ~Listed(j) /\ due[j] = NoTime
    BY <1>8, <2>2 DEF PlaceOK
  <2>4. NoneTwice' /\ \A i \in Jobs : Listed(i)' <=> Listed(i)
    BY <1>8, <2>1 DEF NoneTwice, Listed
  <2> QED  BY <1>9, <2>1, <2>2, <2>3, <2>4 DEF Queue!TERMINAL_STATES, Queue!Waiting
<1>11. CASE step = "retry"
  <2>1. pending' = pending /\ due' = [due EXCEPT ![j] = doc.retry]
    BY <1>1, <1>11 DEF Write
  <2>2. /\ docs[j].state = "RUNNING" /\ doc.state = "RETRYABLE" /\ doc.retry # NoTime
        /\ doc.attempt_count < MaxAttempts
    BY <1>1, <1>11 DEF Computed, Placed
  <2>3. ~Listed(j)
    BY <1>8, <2>2 DEF PlaceOK
  <2>4. NoneTwice' /\ \A i \in Jobs : Listed(i)' <=> Listed(i)
    BY <1>8, <2>1 DEF NoneTwice, Listed
  <2>5. due'[j] = doc.retry /\ \A i \in Jobs \ {j} : due'[i] = due[i]
    BY <1>8, <2>1
  <2> QED  BY <1>9, <2>2, <2>3, <2>4, <2>5
<1>12. CASE step = "unlink"
  <2>1. pending' = Without(pending, j) /\ due' = [due EXCEPT ![j] = NoTime]
    BY <1>1, <1>12 DEF Write
  <2>2. doc.state = "CANCELLED"
    BY <1>1, <1>12 DEF Placed
  <2>3. due'[j] = NoTime /\ \A i \in Jobs \ {j} : due'[i] = due[i]
    BY <1>8, <2>1
  <2>4. /\ \A n \in DOMAIN pending' :
              pending'[n] # j /\ \E i \in DOMAIN pending : pending'[n] = pending[i]
        /\ \A i \in DOMAIN pending : pending[i] # j =>
              \E n \in DOMAIN pending' : pending'[n] = pending[i]
        /\ NoneTwice'
    <3>1. PICK q \in Seq(Jobs) : q = pending
      BY <1>8
    <3>2. PICK p : p = Without(q, j)
      OBVIOUS
    <3>3. /\ \A n \in DOMAIN p : p[n] # j /\ \E i \in DOMAIN q : p[n] = q[i]
          /\ \A i \in DOMAIN q : q[i] # j => \E n \in DOMAIN p : p[n] = q[i]
          /\ (\A h, i \in DOMAIN q : q[h] = q[i] => h = i) =>
                \A m, n \in DOMAIN p : p[m] = p[n] => m = n
      BY <3>2, WithoutProperties
    <3>4. pending' = p
      BY <2>1, <3>1, <3>2
    <3> QED  BY <1>8, <3>1, <3>3, <3>4 DEF NoneTwice
  <2>5. ~Listed(j)' /\ \A i \in Jobs \ {j} : Listed(i)' <=> Listed(i)
    BY <2>4 DEF Listed
  <2> QED  BY <1>9, <2>2, <2>3, <2>4, <2>5 DEF Queue!Waiting
<1>13. CASE step = "requeue"
  <2>1. pending' = <<j>> \o pending /\ due' = due
    BY <1>1, <1>13 DEF Write
  <2>2. /\ docs[j].state = "RUNNING" /\ doc.state = "PENDING"
        /\ doc.attempt_count < MaxAttempts
    BY <1>1, <1>13 DEF Computed, Placed
  <2>3. ~Listed(j) /\ due[j] = NoTime
    BY <1>8, <2>2 DEF PlaceOK
  <2>4. /\ NoneTwice' /\ Listed(j)'
        /\ \A i \in Jobs \ {j} : Listed(i)' <=> Listed(i)
    BY <2>1, <2>3, PushedOnce
  <2> QED  BY <1>9, <2>1, <2>2, <2>3, <2>4
<1> QED  BY <1>2, <1>10, <1>11, <1>12, <1>13

LEMMA OlderAbsent == Queue!Older(Queue!Absent) = Queue!Absent
BY DEF Queue!Older, Queue!Absent, Queue!Fresh

\* What the clock does to documents and calls.
LEMMA TickFacts ==
    ASSUME IInv, Tick
    PROVE  /\ pending' = pending /\ idem' = idem
           /\ \A j \in Jobs : /\ docs'[j].state = docs[j].state
                              /\ docs'[j].key = docs[j].key
                              /\ docs'[j].attempt_count = docs[j].attempt_count
                              /\ docs'[j].leased_by = docs[j].leased_by
                              /\ docs'[j].retry = Sooner(docs[j].retry)
                              /\ Sooner(docs[j].retry) = NoTime <=> docs[j].retry = NoTime
                              /\ docs[j].lease \in -1 .. 0 => docs'[j].lease \in -1 .. 0
                              /\ docs[j] = Queue!Absent => docs'[j] = Queue!Absent
                              /\ due'[j] = Sooner(due[j])
           /\ \A c \in Clients :
                 /\ client'[c].step = client[c].step
                 /\ client'[c].job = client[c].job
                 /\ client'[c].key = client[c].key
                 /\ client'[c].next.state = client[c].next.state
                 /\ client'[c].next.key = client[c].next.key
                 /\ client'[c].next.attempt_count = client[c].next.attempt_count
                 /\ client'[c].next.leased_by = client[c].next.leased_by
<1>1. pending' = pending /\ idem' = idem
  BY DEF Tick
<1>2. ASSUME NEW j \in Jobs
      PROVE  /\ docs'[j].state = docs[j].state
             /\ docs'[j].key = docs[j].key
             /\ docs'[j].attempt_count = docs[j].attempt_count
             /\ docs'[j].leased_by = docs[j].leased_by
             /\ docs'[j].retry = Sooner(docs[j].retry)
             /\ Sooner(docs[j].retry) = NoTime <=> docs[j].retry = NoTime
             /\ docs[j].lease \in -1 .. 0 => docs'[j].lease \in -1 .. 0
             /\ docs[j] = Queue!Absent => docs'[j] = Queue!Absent
             /\ due'[j] = Sooner(due[j])
  <2>1. PICK old \in Queue!Job : old = docs[j]
    BY DEF IInv, StoreOK
  <2>2. docs'[j] = Queue!Older(old) /\ due'[j] = Sooner(due[j])
    BY <2>1 DEF Tick
  <2> QED  BY <2>1, <2>2, OlderDoc, OlderAbsent
<1>3. ASSUME NEW c \in Clients
      PROVE  /\ client'[c].step = client[c].step
             /\ client'[c].job = client[c].job
             /\ client'[c].key = client[c].key
             /\ client'[c].next.state = client[c].next.state
             /\ client'[c].next.key = client[c].next.key
             /\ client'[c].next.attempt_count = client[c].next.attempt_count
             /\ client'[c].next.leased_by = client[c].next.leased_by
  <2>1. client[c] \in Call
    BY DEF IInv, StoreOK
  <2>2. PICK old \in Queue!Job : old = client[c].next
    BY <2>1 DEF Call
  <2>3. PICK doc \in Queue!Job : doc = Queue!Older(old)
    BY OlderDoc
  <2>4. client'[c] = [client[c] EXCEPT !.next = doc]
    BY <2>2, <2>3 DEF Tick
  <2>5. /\ client'[c].next = doc /\ client'[c].step = client[c].step
        /\ client'[c].job = client[c].job /\ client'[c].key = client[c].key
    BY <2>1, <2>4 DEF Call
  <2>6. /\ doc.state = old.state /\ doc.leased_by = old.leased_by
        /\ doc.key = old.key /\ doc.attempt_count = old.attempt_count
    BY <2>3, OlderDoc
  <2> QED  BY <2>2, <2>5, <2>6
<1> QED  BY <1>1, <1>2, <1>3

LEMMA TickSInv ==
    ASSUME SInv, IInv', Tick
    PROVE  SInv'
<1>1. IInv
  BY DEF SInv
<1>2. OneCaller' /\ NoneTwice'
  BY <1>1, TickFacts DEF SInv, OneCaller, NoneTwice
<1>3. ASSUME NEW j \in Jobs PROVE PlaceOK(j)'
  <2>1. PlaceOK(j)
    BY DEF SInv
  <2>2. Sooner(NoTime) = NoTime
    BY DEF Sooner
  <2>3. Listed(j)' <=> Listed(j)
    BY <1>1, TickFacts DEF Listed
  <2> QED  BY <1>1, <2>1, <2>2, <2>3, TickFacts DEF PlaceOK
<1>4. KeyOK'
  <2>1. \A j \in Jobs : docs'[j].state = docs[j].state /\ docs'[j].key = docs[j].key
    BY <1>1, TickFacts
  <2>2. \A c \in Clients : client'[c].step = client[c].step /\ client'[c].job = client[c].job
    BY <1>1, TickFacts
  <2>3. idem' = idem /\ \A k \in Keys : idem[k] # NoJob => idem[k] \in Jobs
    BY <1>1, TickFacts DEF IInv, StoreOK
  <2> QED  BY <2>1, <2>2, <2>3 DEF SInv, KeyOK
<1>5. ASSUME NEW c \in Clients PROVE FreshCall(client[c])'
  <2>1. FreshCall(client[c]) /\ CallOK(client[c])
    BY <1>1 DEF SInv, IInv
  <2>2. CASE client[c].step = "idle"
    BY <1>1, <2>2, TickFacts DEF FreshCall
  <2>3. CASE client[c].step # "idle"
    <3>1. client[c].job \in Jobs
      BY <2>1, <2>3 DEF CallOK
    <3>2. idem' = idem
      BY <1>1, TickFacts
    <3> QED  BY <1>1, <2>1, <3>1, <3>2, TickFacts DEF FreshCall
  <2> QED  BY <2>2, <2>3
<1> QED  BY <1>2, <1>3, <1>4, <1>5 DEF SInv

LEMMA NextSInv == SInv /\ ~overlap /\ [Next]_vars => SInv'
<1> SUFFICES ASSUME SInv, ~overlap, [Next]_vars PROVE SInv'
  OBVIOUS
<1>1. IInv'
  BY NextIInv DEF SInv
<1>2. CASE UNCHANGED vars
  BY <1>1, <1>2 DEF vars, SInv, OneCaller, NoneTwice, KeyOK, PlaceOK, FreshCall, Listed
<1> QED  BY <1>1, <1>2, BeginSInv, ClaimSInv, ReserveSInv, LookUpSInv, CreateSInv, WriteSInv,
            TickSInv DEF Next, Free, Continue, AllIdle

LEMMA SequentialInvariant == Spec => [](~overlap => SInv)
<1>1. Init => (~overlap => SInv)
  BY InitSInv
<1>2. (~overlap => SInv) /\ [Next]_vars => (~overlap => SInv)'
  BY NextSInv DEF Next, vars
<1> QED  BY <1>1, <1>2, PTL DEF Spec

\* One caller at a time: every waiting job is in exactly the one structure its
\* state names, once, and nothing else is in either.
THEOREM PlacesExact == Spec => []PlacesAreExact
<1>1. ASSUME SInv, NEW j \in Jobs
      PROVE  Occurrences(j) = (IF docs[j].state = "PENDING" THEN 1 ELSE 0)
  <2> DEFINE at == {i \in DOMAIN pending : pending[i] = j}
  <2>1. Listed(j) <=> docs[j].state = "PENDING"
    BY <1>1 DEF SInv, PlaceOK
  <2>2. CASE Listed(j)
    <3>1. PICK i \in DOMAIN pending : pending[i] = j
      BY <2>2 DEF Listed
    <3>2. at = {i}
      BY <1>1, <3>1 DEF SInv, NoneTwice
    <3>3. Cardinality(at) = 1
      BY <3>2, FS_Singleton
    <3> QED  BY <2>1, <2>2, <3>3 DEF Occurrences
  <2>3. CASE ~Listed(j)
    <3>1. at = {}
      BY <2>3 DEF Listed
    <3>2. Cardinality(at) = 0
      BY <3>1, FS_EmptySet
    <3> QED  BY <2>1, <2>3, <3>2 DEF Occurrences
  <2> QED  BY <2>2, <2>3
<1>2. (~overlap => SInv) => PlacesAreExact
  BY <1>1 DEF SInv, PlaceOK, PlacesAreExact
<1> QED  BY <1>2, SequentialInvariant, PTL

\* One caller at a time: two jobs never carry the same idempotency key.
THEOREM KeysAreUnique == Spec => []OneJobPerKey
<1>1. (~overlap => SInv) => OneJobPerKey
  <2> SUFFICES ASSUME SInv, NEW j \in Jobs, NEW h \in Jobs, j # h,
                      docs[j].state # "ABSENT", docs[h].state # "ABSENT",
                      docs[j].key # NoKey, docs[j].key = docs[h].key
               PROVE  FALSE
    BY DEF OneJobPerKey
  <2> QED  BY DEF SInv, KeyOK
<1> QED  BY <1>1, SequentialInvariant, PTL

\* One caller at a time: claim and recover_stale neither hand on a job whose
\* lease is live nor put it back among the waiting ones.
THEOREM LiveLeaseIsKept == Spec => LiveLeasesKept
<1> DEFINE Lives == ~overlap => \A j \in Jobs :
             docs[j].state = "RUNNING" /\ docs[j].lease > 0 =>
                \/ docs'[j].leased_by = docs[j].leased_by
                \/ docs'[j].state \in Queue!TERMINAL_STATES \cup {"RETRYABLE"}
<1>1. (~overlap => SInv) /\ [Next]_vars => [Lives]_vars
  <2> SUFFICES ASSUME SInv, ~overlap, Next, NEW j \in Jobs,
                      docs[j].state = "RUNNING", docs[j].lease > 0,
                      docs'[j].leased_by # docs[j].leased_by
               PROVE  docs'[j].state \in Queue!TERMINAL_STATES \cup {"RETRYABLE"}
    OBVIOUS
  <2>1. /\ docs \in [Jobs -> Queue!Job] /\ ~Listed(j) /\ due[j] = NoTime
        /\ docs[j].lease \in (-1 .. LeaseSeconds) \cup {NoTime} /\ Fits(docs[j])
    BY DEF SInv, IInv, StoreOK, JobOK, PlaceOK, Queue!Job
  <2>2. ~(docs[j].lease \in -1 .. 0)
    OBVIOUS
  <2>3. docs' # docs
    OBVIOUS
  <2>4. ASSUME NEW c \in Clients, NEW w \in Workers, Claim(c, w)
        PROVE  FALSE
    <3>1. PICK i \in Jobs : /\ due[i] = 0 \/ (pending # <<>> /\ i = Last(pending))
                            /\ docs' = [docs EXCEPT ![i] = Queue!Leased(@, w)]
      BY <2>4, Popped DEF Claim, SInv, IInv, StoreOK
    <3>2. pending # <<>> => Listed(Last(pending))
      <4>1. ASSUME pending # <<>>
            PROVE  Len(pending) \in DOMAIN pending /\ Last(pending) = pending[Len(pending)]
        <5>1. pending \in Seq(Jobs)
          BY DEF SInv, IInv, StoreOK
        <5>2. /\ Len(pending) \in Nat \ {0} /\ DOMAIN pending = 1 .. Len(pending)
              /\ Last(pending) = pending[Len(pending)]
          BY <4>1, <5>1, Popped
        <5> QED  BY <5>2
      <4> QED  BY <4>1 DEF Listed
    <3>3. i # j
      BY <2>1, <3>1, <3>2, Constants
    <3> QED  BY <2>1, <3>1, <3>3
  <2>5. ASSUME NEW c \in Clients, Create(c)
        PROVE  FALSE
    <3>1. docs[client[c].job] = Queue!Absent
      BY <2>5 DEF SInv, FreshCall, Create
    <3>2. client[c].job # j
      BY <3>1, AbsentDoc
    <3> QED  BY <2>1, <2>5, <3>2 DEF Create
  <2>6. ASSUME NEW c \in Clients, Write(c)
        PROVE  docs'[j].state \in Queue!TERMINAL_STATES \cup {"RETRYABLE"}
    <3>1. PICK i \in Jobs, doc \in Queue!Job :
             /\ docs' = [docs EXCEPT ![i] = doc]
             /\ i = client[c].job /\ doc = client[c].next
             /\ Computed(client[c].step, i, doc) /\ Placed(client[c].step, doc)
      BY <2>6, WriteFacts
    <3>2. i = j /\ docs'[j] = doc
      BY <2>1, <3>1
    <3> QED  BY <2>2, <3>1, <3>2
             DEF Computed, Placed, Queue!TERMINAL_STATES, Queue!Waiting
  <2>7. CASE Tick
    BY <2>7, TickFacts DEF SInv
  <2> QED  BY <2>3, <2>4, <2>5, <2>6, <2>7 DEF Next, Continue, Begin, Enqueue,
              RenewLease, Ack, Fail, Cancel, RecoverStale, Prepares, Reserve, LookUp, store
<1>2. QED  BY <1>1, SequentialInvariant, PTL DEF Spec, LiveLeasesKept

-------------------------------------------------------------------------------
(* The refinement.                                                         *)

phaseMap == [j \in Jobs |-> Queue!PhaseOf(docs[j])]
ownerMap == [j \in Jobs |-> docs[j].leased_by]
triesMap == [j \in Jobs |-> docs[j].attempt_count]

\* A step that writes the document of job i changes the image of job i only.
LEMMA OneJobMoves ==
    ASSUME SInv, NEW i \in Jobs, NEW doc, docs' = [docs EXCEPT ![i] = doc]
    PROVE  /\ phaseMap' = [phaseMap EXCEPT ![i] = Queue!PhaseOf(doc)]
           /\ ownerMap' = [ownerMap EXCEPT ![i] = doc.leased_by]
           /\ triesMap' = [triesMap EXCEPT ![i] = doc.attempt_count]
BY DEF SInv, IInv, StoreOK, phaseMap, ownerMap, triesMap

LEMMA Phase ==
    ASSUME NEW job
    PROVE  /\ job.state = "ABSENT" => Queue!PhaseOf(job) = "unknown"
           /\ job.state \in Queue!Waiting => Queue!PhaseOf(job) = "waiting"
           /\ job.state = "RUNNING" => Queue!PhaseOf(job) = "owned"
           /\ job.state \in Queue!TERMINAL_STATES => Queue!PhaseOf(job) = "over"
BY DEF Queue!PhaseOf, Queue!Waiting, Queue!TERMINAL_STATES

LEMMA CreateSubmits ==
    ASSUME SInv, NEW c \in Clients, Create(c)
    PROVE  Queue!Lifecycle!Next
<1>1. /\ client[c] \in Call /\ client[c].step = "create"
      /\ CallOK(client[c]) /\ FreshCall(client[c])
  BY DEF SInv, IInv, StoreOK, Create
<1>2. PICK j \in Jobs : j = client[c].job
  BY <1>1 DEF CallOK
<1>3. PICK k \in Keys \cup {NoKey} : k = client[c].key
  BY <1>1 DEF Call
<1>4. docs[j] = Queue!Absent
  BY <1>1, <1>2 DEF FreshCall
<1>5. PICK doc \in Queue!Job : doc = Queue!Fresh("PENDING", k)
  BY FreshDoc
<1>6. /\ doc.state = "PENDING" /\ doc.attempt_count = 0 /\ doc.leased_by = NoWorker
  BY <1>5, FreshDoc
<1>7. docs' = [docs EXCEPT ![j] = doc]
  BY <1>2, <1>3, <1>5 DEF Create
<1>8. /\ phaseMap' = [phaseMap EXCEPT ![j] = Queue!PhaseOf(doc)]
      /\ ownerMap' = [ownerMap EXCEPT ![j] = NoWorker]
      /\ triesMap' = [triesMap EXCEPT ![j] = 0]
  BY <1>6, <1>7, OneJobMoves
<1>9. Queue!PhaseOf(doc) = "waiting" /\ Queue!PhaseOf(docs[j]) = "unknown"
  BY <1>4, <1>6, AbsentDoc, Phase DEF Queue!Waiting
<1>10. docs[j].leased_by = NoWorker /\ docs[j].attempt_count = 0
  BY <1>4, AbsentDoc
<1>11. /\ phaseMap' = [phaseMap EXCEPT ![j] = "waiting"]
       /\ ownerMap' = ownerMap /\ triesMap' = triesMap
  BY <1>8, <1>9, <1>10 DEF ownerMap, triesMap
<1>12. Queue!Lifecycle!Submit(j)
  BY <1>9, <1>11 DEF Queue!Lifecycle!Submit, phaseMap, ownerMap, triesMap
<1> QED  BY <1>12 DEF Queue!Lifecycle!Next

LEMMA ClaimTakes ==
    ASSUME SInv, NEW c \in Clients, NEW w \in Workers, Claim(c, w)
    PROVE  Queue!Lifecycle!Next
<1>1. PICK j \in Jobs : /\ due[j] = 0 \/ (pending # <<>> /\ j = Last(pending))
                        /\ docs' = [docs EXCEPT ![j] = Queue!Leased(@, w)]
  BY Popped DEF Claim, SInv, IInv, StoreOK
<1>2. docs[j].state \in Queue!Waiting /\ docs[j].attempt_count < MaxAttempts
  <2>1. ASSUME pending # <<>>, j = Last(pending)
        PROVE  Listed(j)
    <3>1. pending \in Seq(Jobs)
      BY DEF SInv, IInv, StoreOK
    <3>2. /\ Len(pending) \in Nat \ {0} /\ DOMAIN pending = 1 .. Len(pending)
          /\ Last(pending) = pending[Len(pending)]
      BY <2>1, <3>1, Popped
    <3> QED  BY <2>1, <3>2 DEF Listed
  <2> QED  BY <1>1, <2>1, Constants DEF SInv, PlaceOK, Queue!Waiting
<1>3. PICK old \in Queue!Job : old = docs[j]
  BY DEF SInv, IInv, StoreOK
<1>4. PICK doc \in Queue!Job : doc = Queue!Leased(old, w)
  BY LeasedDoc
<1>5. /\ doc.state = "RUNNING" /\ doc.leased_by = w
      /\ doc.attempt_count = docs[j].attempt_count + 1
  BY <1>3, <1>4, LeasedDoc
<1>6. docs' = [docs EXCEPT ![j] = doc]
  BY <1>1, <1>3, <1>4
<1>7. Queue!PhaseOf(doc) = "owned" /\ Queue!PhaseOf(docs[j]) = "waiting"
  BY <1>2, <1>5, Phase
<1>8. /\ phaseMap' = [phaseMap EXCEPT ![j] = "owned"]
      /\ ownerMap' = [ownerMap EXCEPT ![j] = w]
      /\ triesMap' = [triesMap EXCEPT ![j] = docs[j].attempt_count + 1]
  <2>1. /\ phaseMap' = [phaseMap EXCEPT ![j] = Queue!PhaseOf(doc)]
        /\ ownerMap' = [ownerMap EXCEPT ![j] = doc.leased_by]
        /\ triesMap' = [triesMap EXCEPT ![j] = doc.attempt_count]
    BY <1>6, OneJobMoves
  <2> QED  BY <1>5, <1>7, <2>1
<1>9. Queue!Lifecycle!Take(j, w)
  BY <1>2, <1>7, <1>8 DEF Queue!Lifecycle!Take, phaseMap, ownerMap, triesMap
<1> QED  BY <1>9 DEF Queue!Lifecycle!Next

\* A write settles one job, or renews its lease, which the life cycle does not
\* see.
LEMMA WriteSettles ==
    ASSUME SInv, NEW c \in Clients, Write(c)
    PROVE  [Queue!Lifecycle!Next]_(Queue!Lifecycle!vars)
<1> DEFINE step == client[c].step
<1>1. PICK j \in Jobs, doc \in Queue!Job :
         /\ docs' = [docs EXCEPT ![j] = doc]
         /\ j = client[c].job /\ doc = client[c].next
         /\ Computed(step, j, doc) /\ Placed(step, doc)
  BY WriteFacts
<1>2. step \in {"set", "retry", "unlink", "requeue"}
  BY DEF Write
<1>3. /\ docs[j].state \in Queue!Waiting \cup {"RUNNING"}
      /\ doc.attempt_count = docs[j].attempt_count
      /\ doc.leased_by = (IF doc.state = "RUNNING" THEN docs[j].leased_by ELSE NoWorker)
      /\ doc.state \in Queue!Waiting => /\ docs[j].state = "RUNNING"
                                        /\ docs[j].attempt_count < MaxAttempts
      /\ doc.state = "RUNNING" => docs[j].state = "RUNNING"
      /\ doc.state \in Queue!Waiting \cup Queue!TERMINAL_STATES \cup {"RUNNING"}
  BY <1>1, <1>2 DEF Computed, Placed, Queue!Waiting, Queue!TERMINAL_STATES
<1> HIDE DEF step
<1>4. /\ phaseMap' = [phaseMap EXCEPT ![j] = Queue!PhaseOf(doc)]
      /\ ownerMap' = [ownerMap EXCEPT ![j] = doc.leased_by]
      /\ triesMap' = triesMap
  <2>1. /\ phaseMap' = [phaseMap EXCEPT ![j] = Queue!PhaseOf(doc)]
        /\ ownerMap' = [ownerMap EXCEPT ![j] = doc.leased_by]
        /\ triesMap' = [triesMap EXCEPT ![j] = doc.attempt_count]
    BY <1>1, OneJobMoves
  <2> QED  BY <1>3, <2>1 DEF triesMap
<1>5. CASE doc.state = "RUNNING"
  <2>1. Queue!PhaseOf(doc) = Queue!PhaseOf(docs[j]) /\ doc.leased_by = docs[j].leased_by
    BY <1>3, <1>5, Phase
  <2>2. phaseMap' = phaseMap /\ ownerMap' = ownerMap
    BY <1>4, <2>1 DEF phaseMap, ownerMap
  <2> QED  BY <1>4, <2>2 DEF Queue!Lifecycle!vars, phaseMap, ownerMap, triesMap
<1>6. CASE doc.state # "RUNNING"
  <2> DEFINE Back == IF doc.state \in Queue!Waiting THEN {j} ELSE {}
             Ended == IF doc.state \in Queue!Waiting THEN {} ELSE {j}
  <2>1. /\ Queue!PhaseOf(doc) = (IF j \in Back THEN "waiting" ELSE "over")
        /\ Queue!PhaseOf(docs[j]) \in {"waiting", "owned"}
        /\ j \in Back => Queue!PhaseOf(docs[j]) = "owned"
    BY <1>3, <1>6, Phase
  <2>2. /\ phaseMap' = [h \in Jobs |-> IF h \in Back THEN "waiting"
                                       ELSE IF h \in Ended THEN "over"
                                       ELSE phaseMap[h]]
        /\ ownerMap' = [h \in Jobs |-> IF h \in Back \cup Ended THEN NoWorker
                                       ELSE ownerMap[h]]
    BY <1>3, <1>4, <1>6, <2>1 DEF phaseMap, ownerMap
  <2>3. /\ \A h \in Back : phaseMap[h] = "owned" /\ triesMap[h] < MaxAttempts
        /\ \A h \in Ended : phaseMap[h] \in {"waiting", "owned"}
    BY <1>3, <2>1 DEF phaseMap, triesMap
  <2>4. Queue!Lifecycle!Settle(Back, Ended)
    BY <1>4, <2>2, <2>3 DEF Queue!Lifecycle!Settle, phaseMap, ownerMap, triesMap
  <2>5. Back \in SUBSET Jobs /\ Ended \in SUBSET Jobs
    OBVIOUS
  <2> HIDE DEF Back, Ended
  <2> QED  BY <2>4, <2>5 DEF Queue!Lifecycle!Next
<1> QED  BY <1>5, <1>6

LEMMA StepRefines ==
    SInv /\ ~overlap /\ [Next]_vars => [Queue!Lifecycle!Next]_(Queue!Lifecycle!vars)
<1> SUFFICES ASSUME SInv, ~overlap, [Next]_vars
             PROVE  [Queue!Lifecycle!Next]_(Queue!Lifecycle!vars)
  OBVIOUS
<1> DEFINE Same == phaseMap' = phaseMap /\ ownerMap' = ownerMap /\ triesMap' = triesMap
<1>1. Same => UNCHANGED Queue!Lifecycle!vars
  BY DEF Queue!Lifecycle!vars, phaseMap, ownerMap, triesMap
<1>2. CASE UNCHANGED docs
  <2>1. Same
    BY <1>2 DEF phaseMap, ownerMap, triesMap
  <2> QED  BY <1>1, <2>1
<1>3. CASE Tick
  <2>1. \A j \in Jobs : /\ docs'[j].state = docs[j].state
                        /\ docs'[j].leased_by = docs[j].leased_by
                        /\ docs'[j].attempt_count = docs[j].attempt_count
    BY <1>3, TickFacts DEF SInv
  <2>2. \A j \in Jobs : Queue!PhaseOf(docs'[j]) = Queue!PhaseOf(docs[j])
    BY <2>1 DEF Queue!PhaseOf
  <2>3. Same
    BY <2>1, <2>2 DEF phaseMap, ownerMap, triesMap
  <2> QED  BY <1>1, <2>3
<1>4. ASSUME NEW c \in Clients, Begin(c) \/ Reserve(c) \/ LookUp(c)
      PROVE  UNCHANGED docs
  BY <1>4 DEF Begin, Enqueue, RenewLease, Ack, Fail, Cancel, RecoverStale, Prepares,
              Reserve, LookUp, store
<1>5. UNCHANGED vars => UNCHANGED docs
  BY DEF vars
<1> QED  BY <1>2, <1>3, <1>4, <1>5, CreateSubmits, ClaimTakes, WriteSettles
         DEF Next, Continue

\* One caller at a time, Redis implements the life cycle every caller relies on,
\* the one the in-process queue implements.
THEOREM Refinement == Spec => ImplementsLifecycle
<1>1. Init => Queue!Lifecycle!Init
  <2>1. Queue!PhaseOf(Queue!Absent) = "unknown"
    BY AbsentDoc, Phase
  <2> QED  BY <2>1, AbsentDoc DEF Init, Queue!Lifecycle!Init
<1>2. (~overlap => SInv) /\ [Next]_vars =>
          [~overlap => Queue!Lifecycle!Next]_(Queue!Lifecycle!vars)
  BY StepRefines
<1> QED  BY <1>1, <1>2, SequentialInvariant, PTL DEF Spec, ImplementsLifecycle
===============================================================================
