-------------------------------- MODULE MCRedis --------------------------------
(* RedisJobQueue used by two clients, one call at a time on two jobs, or with  *)
(* calls that overlap and die half-way, on one job to keep it small.           *)
EXTENDS RedisJobQueue, TLC

CONSTANT j1

MCNext == Next /\ (overlap => \A c \in Clients : client'[c].job \in {j1, NoJob})

MCSpec == Init /\ [][MCNext]_vars

\* The properties name neither workers nor clients.
Symmetry == Permutations(Workers) \cup Permutations(Clients)
================================================================================
