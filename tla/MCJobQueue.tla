----------------------------- MODULE MCJobQueue -----------------------------
(* The job queue on small instances. *)
EXTENDS JobQueue, TLC

\* Worker task slots are interchangeable (safety runs only).
TaskSymmetry == Permutations(Tasks)
=============================================================================
