------------------------------ MODULE MCEvaluation ------------------------------
(* Evaluation for an archive with a bidder and a folder without documents: two *)
(* deliveries and two requests, one at a time, under every set of faults; and  *)
(* one delivery with a request at the same time, and engines that fail.        *)
EXTENDS Evaluation

CONSTANT q2

MCInit ==
    /\ Init
    /\ faults = {"error"} \/ (faults = FAULTS /\ ~overlap)

MCNext == Next /\ (overlap => deliveries' <= 1 /\ Resting(q2)')

MCSpec == MCInit /\ [][MCNext]_vars /\ Fairness
===============================================================================
