----------------------------- MODULE TurnSignal -----------------------------
(***************************************************************************)
(* What one agent's turn signal promises, whatever its implementation (an  *)
(* asyncio.Event, a counter and a poll in game_client.py and agent.py):    *)
(* turns are raised one at a time; taking the signal takes every turn      *)
(* raised so far, so turns may coalesce but none is missed or taken twice; *)
(* and as long as the connection stays open, what is raised is taken.      *)
(***************************************************************************)
EXTENDS Naturals

VARIABLES
  raised,  \* turns the server has begun, as this client saw them
  taken,   \* the count up to which the agent has taken them
  open     \* the connection is up

vars == <<raised, taken, open>>

Init == raised = 0 /\ taken = 0 /\ open = TRUE

Raise ==
  /\ open
  /\ raised' = raised + 1
  /\ UNCHANGED <<taken, open>>

Take ==
  /\ taken < raised
  /\ taken' = raised
  /\ UNCHANGED <<raised, open>>

Close ==
  /\ open
  /\ open' = FALSE
  /\ UNCHANGED <<raised, taken>>

Next == Raise \/ Take \/ Close

Safety == Init /\ [][Next]_vars

Spec == Safety /\ WF_vars(open /\ Take)
=============================================================================
