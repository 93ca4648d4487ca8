--------------------------- MODULE MCAgentRegistry ---------------------------
(***************************************************************************)
(* AgentRegistry for TLC: two codes, each of which may be created, seeded   *)
(* and registered as a persona.                                            *)
(***************************************************************************)
EXTENDS AgentRegistry, TLC

CONSTANTS a, b

Codes    == {a, b}
AllSeeds == <<a, b>>
Symmetry == Permutations(Request)
=============================================================================
