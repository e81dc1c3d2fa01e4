----------------------------- MODULE JobLifecycle -----------------------------
(***************************************************************************)
(* What every job queue of the platform promises, whatever stores the jobs:*)
(* the JobQueue protocol of src/infrastructure/jobs/queue.py read together *)
(* with the states of src/infrastructure/jobs/models.py.  A known job is   *)
(* waiting, owned by exactly one worker, or over; it is taken at most      *)
(* MaxAttempts times; once over it stays over.                             *)
(***************************************************************************)
EXTENDS Naturals

CONSTANTS Jobs,         \* job identifiers
          Workers,      \* worker identifiers
          NoWorker,     \* "leased by nobody"
          MaxAttempts   \* Job.max_attempts

VARIABLES phase,   \* phase[j]: where the job stands
          owner,   \* owner[j]: the worker that may finish it
          tries    \* tries[j]: how often it was taken

vars == <<phase, owner, tries>>

Phases == {"unknown", "waiting", "owned", "over"}

TypeOK ==
    /\ phase \in [Jobs -> Phases]
    /\ owner \in [Jobs -> Workers \cup {NoWorker}]
    /\ tries \in [Jobs -> Nat]

Init ==
    /\ phase = [j \in Jobs |-> "unknown"]
    /\ owner = [j \in Jobs |-> NoWorker]
    /\ tries = [j \in Jobs |-> 0]

\* A new job starts waiting.
Submit(j) ==
    /\ phase[j] = "unknown"
    /\ phase' = [phase EXCEPT ![j] = "waiting"]
    /\ UNCHANGED <<owner, tries>>

\* A worker takes a waiting job that still has an attempt left.
Take(j, w) ==
    /\ phase[j] = "waiting"
    /\ tries[j] < MaxAttempts
    /\ phase' = [phase EXCEPT ![j] = "owned"]
    /\ owner' = [owner EXCEPT ![j] = w]
    /\ tries' = [tries EXCEPT ![j] = @ + 1]

\* The owned jobs of Back return to waiting, for another attempt they must
\* still have; the jobs of Ended are over.  One call may settle several jobs:
\* recover_stale sweeps all of them under one lock.
Settle(Back, Ended) ==
    /\ Back \cap Ended = {}
    /\ \A j \in Back : phase[j] = "owned" /\ tries[j] < MaxAttempts
    /\ \A j \in Ended : phase[j] \in {"waiting", "owned"}
    /\ phase' = [j \in Jobs |-> IF j \in Back THEN "waiting"
                                ELSE IF j \in Ended THEN "over"
                                ELSE phase[j]]
    /\ owner' = [j \in Jobs |-> IF j \in Back \cup Ended THEN NoWorker
                                ELSE owner[j]]
    /\ UNCHANGED tries

Next ==
    \/ \E j \in Jobs : Submit(j)
    \/ \E j \in Jobs, w \in Workers : Take(j, w)
    \/ \E Back, Ended \in SUBSET Jobs : Settle(Back, Ended)

Spec == Init /\ [][Next]_vars

\* A job is taken at most MaxAttempts times, and has an owner exactly while
\* it is owned.
Budget ==
    \A j \in Jobs : /\ tries[j] <= MaxAttempts
                    /\ phase[j] = "owned" <=> owner[j] # NoWorker

\* A job that is over stays over.
OverIsFinal == [][\A j \in Jobs : phase[j] = "over" => phase'[j] = "over"]_vars
===============================================================================
