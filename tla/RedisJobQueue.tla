---------------------------- MODULE RedisJobQueue ----------------------------
(***************************************************************************)
(* RedisJobQueue of src/infrastructure/jobs/redis_queue.py.  claim is one  *)
(* Lua script and a pipeline is one MULTI, so each is one step; every      *)
(* other method reads with one command and writes with a later one, and    *)
(* the calls of several clients interleave between the two.                *)
(*                                                                         *)
(* The documents, the tests of a lease and what a settled job looks like   *)
(* are those of JobQueue.tla, on the Redis keys instead of the fields of   *)
(* the in-memory queue.  Times are relative, as there.                     *)
(***************************************************************************)
EXTENDS Integers, Sequences, FiniteSets, SequencesExt

CONSTANTS Jobs, Workers, Keys,
          Clients,       \* threads that call the adapter
          NoWorker, NoKey, NoJob, NoTime,
          MaxAttempts, LeaseSeconds, MaxDelay,
          Crashes,       \* whether a client may die between two commands
          MaxPending     \* bound: overlapping calls repeat ids in the list

VARIABLES docs,     \* {ns}:job:{id}
          pending,  \* {ns}:pending, LPUSH at the left and RPOP at the right
          due,      \* {ns}:retry, the score of each id it holds
          idem,     \* {ns}:idem:{key}
          client,   \* the call each client is in
          overlap   \* whether calls may overlap and die half-way, or one
                    \* caller at a time uses the adapter, as in its tests

vars == <<docs, pending, due, idem, client, overlap>>
store == <<docs, pending, due, idem>>

Queue == INSTANCE JobQueue WITH jobs <- docs, byKey <- idem

ASSUME RedisAssumption ==
    /\ Queue!JobQueueAssumption
    /\ Crashes \in BOOLEAN
    /\ MaxPending \in Nat

Steps == {"idle", "reserve", "lookup", "create",
          "set", "retry", "unlink", "requeue"}

\* step is the command the client sends next, next the document it has
\* computed from what it read.
Call == [step : Steps, job : Jobs \cup {NoJob}, key : Keys \cup {NoKey},
         next : Queue!Job]

Idle == [step |-> "idle", job |-> NoJob, key |-> NoKey, next |-> Queue!Absent]

StoreOK ==
    /\ docs \in [Jobs -> Queue!Job]
    /\ pending \in Seq(Jobs)
    /\ due \in [Jobs -> (0 .. MaxDelay) \cup {NoTime}]
    /\ idem \in [Keys -> Jobs \cup {NoJob}]
    /\ client \in [Clients -> Call]

TypeOK == StoreOK /\ overlap \in BOOLEAN

Init ==
    /\ docs = [j \in Jobs |-> Queue!Absent]
    /\ pending = <<>>
    /\ due = [j \in Jobs |-> NoTime]
    /\ idem = [k \in Keys |-> NoJob]
    /\ client = [c \in Clients |-> Idle]
    /\ overlap \in BOOLEAN

Goes(c, call) == client' = [client EXCEPT ![c] = call]

-------------------------------------------------------------------------------
(* enqueue: GET, SET NX, perhaps two more GETs, MULTI.                     *)

Enqueue(c, j, k) ==
    /\ client[c] = Idle
    /\ docs[j] = Queue!Absent
    /\ Goes(c, [Idle EXCEPT !.step = IF k = NoKey THEN "create" ELSE "reserve",
                            !.job = j, !.key = k])
    /\ UNCHANGED store

\* Variant for the mutation runs: SET without NX.
ReserveAlways(c) ==
    LET call == client[c] IN
    /\ call.step = "reserve"
    /\ idem' = [idem EXCEPT ![call.key] = call.job]
    /\ Goes(c, [call EXCEPT !.step = "create"])
    /\ UNCHANGED <<docs, pending, due>>

\* SET NX: the first id written under the key stays.
Reserve(c) ==
    LET call == client[c] IN
    /\ call.step = "reserve"
    /\ \/ /\ idem[call.key] = NoJob
          /\ idem' = [idem EXCEPT ![call.key] = call.job]
          /\ Goes(c, [call EXCEPT !.step = "create"])
       \/ /\ idem[call.key] # NoJob
          /\ Goes(c, [call EXCEPT !.step = "lookup"])
          /\ UNCHANGED idem
    /\ UNCHANGED <<docs, pending, due>>

\* The job registered under the key is returned; while it has no document the
\* call goes on as if the key were free.
LookUp(c) ==
    LET call == client[c] IN
    /\ call.step = "lookup"
    /\ Goes(c, IF docs[idem[call.key]] # Queue!Absent
               THEN Idle ELSE [call EXCEPT !.step = "create"])
    /\ UNCHANGED store

Create(c) ==
    LET call == client[c] IN
    /\ call.step = "create"
    /\ Len(pending) < MaxPending
    /\ docs' = [docs EXCEPT ![call.job] = Queue!Fresh("PENDING", call.key)]
    /\ pending' = <<call.job>> \o pending
    /\ Goes(c, Idle)
    /\ UNCHANGED <<due, idem>>

-------------------------------------------------------------------------------
(* claim: a retry that is due, else the oldest pending id.  The script does*)
(* not look at the state of the document it makes RUNNING.                 *)

Claim(c, w) ==
    /\ client[c] = Idle
    /\ \/ \E j \in Jobs :
             /\ due[j] = 0
             /\ due' = [due EXCEPT ![j] = NoTime]
             /\ docs' = [docs EXCEPT ![j] = Queue!Leased(@, w)]
             /\ UNCHANGED pending
       \/ /\ \A j \in Jobs : due[j] # 0
          /\ pending # <<>>
          /\ docs' = [docs EXCEPT ![Last(pending)] = Queue!Leased(@, w)]
          /\ pending' = Front(pending)
          /\ UNCHANGED due
    /\ UNCHANGED <<idem, client>>

-------------------------------------------------------------------------------
(* The methods that read a document, test it and later write a new one.    *)

Prepares(c, j, step, doc) ==
    /\ client[c] = Idle
    /\ Goes(c, [Idle EXCEPT !.step = step, !.job = j, !.next = doc])
    /\ UNCHANGED store

RenewLease(c, j, w) ==
    /\ Queue!HoldsLease(j, w)
    /\ Prepares(c, j, "set", [docs[j] EXCEPT !.lease = LeaseSeconds])

Ack(c, j, w) ==
    /\ Queue!HoldsLease(j, w)
    /\ Prepares(c, j, "set", Queue!Released(docs[j], "SUCCEEDED", NoTime))

\* Variant for the mutation runs: the attempts are not counted.
FailAlwaysRetries(c, j, w, retryable, delay) ==
    /\ Queue!HoldsLease(j, w)
    /\ IF retryable
       THEN Prepares(c, j, "retry", Queue!Released(docs[j], "RETRYABLE", delay))
       ELSE Prepares(c, j, "set", Queue!Released(docs[j], "FAILED", NoTime))

Fail(c, j, w, retryable, delay) ==
    /\ Queue!HoldsLease(j, w)
    /\ IF retryable /\ docs[j].attempt_count < MaxAttempts
       THEN Prepares(c, j, "retry", Queue!Released(docs[j], "RETRYABLE", delay))
       ELSE Prepares(c, j, "set", Queue!Released(docs[j], "FAILED", NoTime))

\* Variant for the mutation runs: the id stays in the list or the set.
CancelOnlySets(c, j) ==
    /\ docs[j].state \in Queue!Waiting \cup {"RUNNING"}
    /\ Prepares(c, j, "set", Queue!Released(docs[j], "CANCELLED", NoTime))

Cancel(c, j) ==
    /\ docs[j].state \in Queue!Waiting \cup {"RUNNING"}
    /\ Prepares(c, j, "unlink", Queue!Released(docs[j], "CANCELLED", NoTime))

\* Variants for the mutation runs: the expiry is not tested; the id is not
\* pushed.
RecoverRunning(c, j) ==
    /\ docs[j].state = "RUNNING"
    /\ Prepares(c, j, "requeue", Queue!Released(docs[j], "PENDING", NoTime))

RecoverUnlisted(c, j) ==
    /\ Queue!Stale(docs[j])
    /\ Prepares(c, j, "set", Queue!Released(docs[j], "PENDING", NoTime))

\* One visit of recover_stale's scan.  The sweep reads the clock once and
\* visits the keys one by one; a visit with an older clock recovers less,
\* which is a visit the sweep does not make.
RecoverStale(c, j) ==
    /\ Queue!Stale(docs[j])
    /\ IF docs[j].attempt_count >= MaxAttempts
       THEN Prepares(c, j, "set",
                     Queue!Released(docs[j], "FAILED", docs[j].retry))
       ELSE Prepares(c, j, "requeue",
                     Queue!Released(docs[j], "PENDING", NoTime))

\* What LREM leaves of the list q: the ids other than x, in their order.
Without(q, x) ==
    LET kept == {i \in DOMAIN q : q[i] # x}
        rank(i) == Cardinality({h \in kept : h <= i})
    IN  [n \in 1 .. Cardinality(kept) |-> q[CHOOSE i \in kept : rank(i) = n]]

\* SET, or a MULTI of SET and ZADD, LREM and ZREM, or LPUSH.  Nothing tells
\* whether the document is still the one that was read.
Write(c) ==
    LET call == client[c]
        j == call.job
    IN
    /\ call.step \in {"set", "retry", "unlink", "requeue"}
    /\ call.step = "requeue" => Len(pending) < MaxPending
    /\ docs' = [docs EXCEPT ![j] = call.next]
    /\ due' = CASE call.step = "retry" -> [due EXCEPT ![j] = call.next.retry]
                [] call.step = "unlink" -> [due EXCEPT ![j] = NoTime]
                [] OTHER -> due
    /\ pending' = CASE call.step = "requeue" -> <<j>> \o pending
                    [] call.step = "unlink" -> Without(pending, j)
                    [] OTHER -> pending
    /\ Goes(c, Idle)
    /\ UNCHANGED idem

-------------------------------------------------------------------------------
(* The environment.                                                        *)

Crash(c) ==
    /\ Crashes
    /\ client[c] # Idle
    /\ Goes(c, Idle)
    /\ UNCHANGED store

Sooner(t) == IF t = NoTime \/ t = 0 THEN t ELSE t - 1

Tick ==
    /\ docs' = [j \in Jobs |-> Queue!Older(docs[j])]
    /\ due' = [j \in Jobs |-> Sooner(due[j])]
    /\ client' = [c \in Clients |->
                    [client[c] EXCEPT !.next = Queue!Older(@)]]
    /\ <<docs', due', client'>> # <<docs, due, client>>
    /\ UNCHANGED <<pending, idem>>

Begin(c) ==
    \/ \E j \in Jobs, k \in Keys \cup {NoKey} : Enqueue(c, j, k)
    \/ \E j \in Jobs, w \in Workers : RenewLease(c, j, w)
    \/ \E j \in Jobs, w \in Workers : Ack(c, j, w)
    \/ \E j \in Jobs, w \in Workers, r \in BOOLEAN, d \in 0 .. MaxDelay :
          Fail(c, j, w, r, d)
    \/ \E j \in Jobs : Cancel(c, j)
    \/ \E j \in Jobs : RecoverStale(c, j)

Continue(c) == Reserve(c) \/ LookUp(c) \/ Create(c) \/ Write(c)

Free == overlap \/ \A c \in Clients : client[c] = Idle

Next ==
    /\ \/ /\ Free
          /\ \E c \in Clients : Begin(c) \/ \E w \in Workers : Claim(c, w)
       \/ \E c \in Clients : Continue(c)
       \/ overlap /\ \E c \in Clients : Crash(c)
       \/ Tick
    /\ UNCHANGED overlap

Spec == Init /\ [][Next]_vars

-------------------------------------------------------------------------------
(* Correctness.                                                            *)

Occurrences(j) == Cardinality({i \in DOMAIN pending : pending[i] = j})

\* As long as calls do not overlap, every waiting job is in exactly the one
\* structure its state names, once, and nothing else is in either.
PlacesAreExact ==
    ~overlap => \A j \in Jobs :
        /\ Occurrences(j) = (IF docs[j].state = "PENDING" THEN 1 ELSE 0)
        /\ due[j] = (IF docs[j].state = "RETRYABLE" THEN docs[j].retry
                                                    ELSE NoTime)

\* A waiting job is in the structure that claim takes it from.
WaitingIsPlaced ==
    \A j \in Jobs :
        /\ docs[j].state = "PENDING" => Occurrences(j) > 0
        /\ docs[j].state = "RETRYABLE" => due[j] # NoTime

\* A running job has the lease and the worker that recover_stale looks for.
RunningIsLeased ==
    \A j \in Jobs : docs[j].state = "RUNNING" <=>
                       (docs[j].lease # NoTime /\ docs[j].leased_by # NoWorker)

\* However calls overlap or die, a job may be delivered twice but never gets
\* out of the reach of both claim and recover_stale.
NoJobIsLost == WaitingIsPlaced /\ RunningIsLeased

\* queue.py: "Enqueueing an idempotency key that already exists returns the
\* existing job instead of creating a duplicate delivery."  So it is as long as
\* calls do not overlap.
OneJobPerKey ==
    ~overlap => \A j, h \in Jobs :
        (j # h /\ docs[j].state # "ABSENT" /\ docs[h].state # "ABSENT") =>
            (docs[j].key = NoKey \/ docs[j].key # docs[h].key)

\* As long as calls do not overlap, no claim and no recover_stale hands on a job
\* whose lease is live or puts it back among the waiting ones, as in JobQueue.
LiveLeasesKept ==
    [][~overlap => \A j \in Jobs :
         docs[j].state = "RUNNING" /\ docs[j].lease > 0 =>
            \/ docs'[j].leased_by = docs[j].leased_by
            \/ docs'[j].state \in Queue!TERMINAL_STATES \cup {"RETRYABLE"}]_vars

\* One call at a time, Redis keeps the promises of JobLifecycle too.
ImplementsLifecycle ==
    Queue!Lifecycle!Init /\ [][~overlap => Queue!Lifecycle!Next]_(Queue!Lifecycle!vars)

\* processing-pipeline.md: "two workers can never simultaneously believe they
\* own the same job": no claim hands out a job whose lease is live.
NoDoubleClaim ==
    [][\A j \in Jobs :
         docs[j].state = "RUNNING" /\ docs[j].lease > 0 =>
            docs'[j].attempt_count <= docs[j].attempt_count]_vars
===============================================================================
