------------------------------ MODULE MCJobQueue ------------------------------
(* JobQueue on a small instance: two workers, a key two jobs may share, two  *)
(* attempts, a lease of one unit and retry delays of zero or one unit.       *)
EXTENDS JobQueue
===============================================================================
