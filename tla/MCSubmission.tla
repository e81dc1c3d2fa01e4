----------------------------- MODULE MCSubmission -----------------------------
(* SubmissionProcessing with a worker id of its own for every process, under  *)
(* several environments: the undisturbed one is checked on a second           *)
(* submission, run by its caller, and on engines that fail for good;          *)
(* the others on the submission s1, to keep them small.                       *)
EXTENDS SubmissionProcessing

CONSTANTS p1, p2, s1,
          FaultSets     \* the environments checked

OwnId == [p \in WorkerProcs |-> IF p = p1 THEN "worker:1" ELSE "worker:2"]

Smaller ==
    \A p \in Processes :
        /\ proc'[p].sub \in {s1, NoJob}
        /\ At(p, Outputs) => proc'[p].error # "permanent"

MCInit == Init /\ faults \in FaultSets

MCNext == Next /\ (faults = {} \/ Smaller)

MCSpec == MCInit /\ [][MCNext]_vars /\ Fairness
===============================================================================
