--------------------------- MODULE MCOrchestrator ---------------------------
(* TLC instance of Orchestrator: games of two agents, and requests that    *)
(* name an agent twice.                                                    *)
EXTENDS Orchestrator

CONSTANTS a, b

TwoNames == {a, b}
Games    == {<<a, b>>, <<a, a>>}
=============================================================================
