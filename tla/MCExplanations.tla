---------------------------- MODULE MCExplanations ----------------------------
(* Explanations on a small instance: two requests for one flag state (its    *)
(* grounding has changed) or for two.                                        *)
EXTENDS Explanations

CONSTANTS r1, r2, s1, s2

OneSubject == [r \in Requests |-> s1]
TwoSubjects == [r \in Requests |-> IF r = r1 THEN s1 ELSE s2]
===============================================================================
