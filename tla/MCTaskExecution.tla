-------------------------- MODULE MCTaskExecution --------------------------
(***************************************************************************)
(* TaskExecution for TLC.                                                  *)
(***************************************************************************)
EXTENDS TaskExecution, TLC

\* Workers, and API requests, are interchangeable.
Interchangeable == Permutations(Worker) \cup Permutations(Client)

=============================================================================
