-------------------------- MODULE MCRuntimeSessions --------------------------
(***************************************************************************)
(* RuntimeSessions for TLC.                                                *)
(***************************************************************************)
EXTENDS RuntimeSessions

\* Every subagent belongs to the one session.
OneSession == [a \in Sub |-> CHOOSE s \in Session : TRUE]

=============================================================================
