------------------------------ MODULE MCServer ------------------------------
(* Server, and in it WorkerPool, on small instances.                       *)
EXTENDS Server

CONSTANTS j1, j2

MCJobs == {j1, j2}
=============================================================================
