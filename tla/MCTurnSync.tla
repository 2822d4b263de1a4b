----------------------------- MODULE MCTurnSync -----------------------------
(* TLC instances of TurnSync.                                              *)
EXTENDS TurnSync, TLC

CONSTANTS a1, a2

OneAgent  == {a1}
TwoAgents == {a1, a2}

\* An agent's event, counter and poll implement the abstract turn signal: turns
\* coalesce, none is missed or taken twice, and while the client stays connected
\* what was raised is taken (wait_for_new_turn and run_game_loop).
Signal == INSTANCE TurnSignal
            WITH raised <- counter[a1], taken <- last[a1], open <- connected[a1]
SignalRefined == Signal!Spec
=============================================================================
