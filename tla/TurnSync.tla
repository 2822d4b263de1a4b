------------------------------ MODULE TurnSync ------------------------------
(***************************************************************************)
(* Turn synchronisation between the agents of one game and the freeciv     *)
(* server: GameClient (game_client.py) turns packets into phase, turn and  *)
(* the _turn_counter / _turn_event pair; XBWorldAgent (agent.py) waits for *)
(* that signal, plays the turn with an LLM under a timeout, or handles a   *)
(* user's command instead, and ends the turn with PACKET_PLAYER_PHASE_DONE.*)
(*                                                                         *)
(* asyncio runs one task at a time: an action is what a task does between  *)
(* two awaits, and tasks interleave only at awaits.  A WebSocket send      *)
(* writes and then may suspend, so a send ends an action.                  *)
(***************************************************************************)
EXTENDS Naturals, Sequences

CONSTANTS
  Agents,         \* the agents (each with one GameClient) of the game
  MaxTurn,        \* bound: the server stops after this turn
  MaxIter,        \* max_iterations of _llm_loop (5 in the code)
  MaxCommands,    \* bound: user commands submitted to each agent
  ServerTimeout,  \* does the server end a turn by itself (/set timeout N > 0)?
  LossyLinks      \* may a WebSocket drop?

ASSUME TurnSyncAssumption ==
  /\ MaxTurn \in Nat \ {0}
  /\ MaxIter \in Nat \ {0}
  /\ MaxCommands \in Nat
  /\ ServerTimeout \in BOOLEAN
  /\ LossyLinks \in BOOLEAN

VARIABLES
  \* GameClient.state and its turn signal
  wsOpen, connected, phase, turn, counter, event,
  \* XBWorldAgent: where its coroutine is suspended, and its locals
  pc, last, snapshot, mode, turnBefore, iter, calls,
  \* XBWorldAgent._command_queue, number of commands submitted, those handled
  queue, submitted, handled,
  \* the two directions of each WebSocket, and the server
  toClient, toServer, srvTurn, done,
  \* history: the turns whose automatic end an exception of the loop skipped
  skipped

clientVars  == <<wsOpen, connected, phase, turn, counter>>
llmVars     == <<mode, turnBefore, iter, calls>>
loopVars    == <<pc, last, snapshot, llmVars>>
commandVars == <<queue, submitted, handled>>
serverVars  == <<srvTurn, done>>
vars == <<clientVars, event, loopVars, commandVars, toClient, toServer,
          serverVars, skipped>>

Phases == {"pregame", "playing", "waiting"}
Points == {"start", "asleep", "llm", "tools", "ending", "exited"}
Modes  == {"auto", "command", "forced"}
Tools  == {"act", "end_turn"}

\* The batches of tool calls an LLM reply may hold: "act" stands for every
\* tool but end_turn.
Batches == {<<"act">>, <<"end_turn">>, <<"end_turn", "act">>}

\* Packets of the server's turn change.  END_TURN and BEGIN_TURN carry no turn;
\* the field says which turn they belong to and no handler reads it.
Packet(kind, n) == [kind |-> kind, turn |-> n]
Kinds   == {"END_TURN", "GAME_INFO", "BEGIN_TURN"}
Packets == [kind : Kinds, turn : Nat]

TypeOK ==
  /\ wsOpen \in [Agents -> BOOLEAN]
  /\ connected \in [Agents -> BOOLEAN]
  /\ phase \in [Agents -> Phases]
  /\ turn \in [Agents -> Nat]
  /\ counter \in [Agents -> Nat]
  /\ event \in [Agents -> BOOLEAN]
  /\ pc \in [Agents -> Points]
  /\ last \in [Agents -> Nat]
  /\ snapshot \in [Agents -> Nat]
  /\ mode \in [Agents -> Modes]
  /\ turnBefore \in [Agents -> Nat]
  /\ iter \in [Agents -> Nat]
  /\ calls \in [Agents -> Seq(Tools)]
  /\ queue \in [Agents -> Seq(Nat)]
  /\ submitted \in [Agents -> Nat]
  /\ handled \in [Agents -> SUBSET Nat]
  /\ toClient \in [Agents -> Seq(Packets)]
  /\ toServer \in [Agents -> Seq(Nat)]
  /\ srvTurn \in Nat
  /\ done \in SUBSET Agents
  /\ skipped \in [Agents -> SUBSET Nat]

\* Every agent has joined, /start was sent, and turn 1 is on its way.
Init ==
  /\ wsOpen = [a \in Agents |-> TRUE]
  /\ connected = [a \in Agents |-> TRUE]
  /\ phase = [a \in Agents |-> "pregame"]
  /\ turn = [a \in Agents |-> 0]
  /\ counter = [a \in Agents |-> 0]
  /\ event = [a \in Agents |-> FALSE]
  /\ pc = [a \in Agents |-> "start"]
  /\ last = [a \in Agents |-> 0]
  /\ snapshot = [a \in Agents |-> 0]
  /\ mode = [a \in Agents |-> "auto"]
  /\ turnBefore = [a \in Agents |-> 0]
  /\ iter = [a \in Agents |-> 0]
  /\ calls = [a \in Agents |-> << >>]
  /\ queue = [a \in Agents |-> << >>]
  /\ submitted = [a \in Agents |-> 0]
  /\ handled = [a \in Agents |-> {}]
  /\ toClient = [a \in Agents |-> <<Packet("GAME_INFO", 1),
                                    Packet("BEGIN_TURN", 1)>>]
  /\ toServer = [a \in Agents |-> << >>]
  /\ srvTurn = 1
  /\ done = {}
  /\ skipped = [a \in Agents |-> {}]

-----------------------------------------------------------------------------
(* GameClient: the receive loop, a task of its own.                        *)

OnGameInfo(a, pkt) ==
  /\ pkt.kind = "GAME_INFO"
  /\ turn' = [turn EXCEPT ![a] = pkt.turn]
  /\ UNCHANGED <<phase, counter, event>>

\* Mutant: _turn_event.set() is forgotten.
OnBeginTurnNoEvent(a, pkt) ==
  /\ pkt.kind = "BEGIN_TURN"
  /\ phase' = [phase EXCEPT ![a] = "playing"]
  /\ counter' = [counter EXCEPT ![a] = @ + 1]
  /\ UNCHANGED <<turn, event>>

OnBeginTurn(a, pkt) ==
  /\ pkt.kind = "BEGIN_TURN"
  /\ phase' = [phase EXCEPT ![a] = "playing"]
  /\ counter' = [counter EXCEPT ![a] = @ + 1]
  /\ event' = [event EXCEPT ![a] = TRUE]
  /\ UNCHANGED turn

\* Mutants: the phase is left alone; the phase gets a name no test knows.
OnEndTurnKeepsPhase(a, pkt) ==
  pkt.kind = "END_TURN" /\ UNCHANGED <<phase, turn, counter, event>>

OnEndTurn(a, pkt) ==
  /\ pkt.kind = "END_TURN"
  /\ phase' = [phase EXCEPT ![a] = "waiting"]
  /\ UNCHANGED <<turn, counter, event>>

Recv(a) ==
  /\ connected[a]
  /\ toClient[a] # << >>
  /\ LET pkt == Head(toClient[a])
     IN  OnGameInfo(a, pkt) \/ OnBeginTurn(a, pkt) \/ OnEndTurn(a, pkt)
  /\ toClient' = [toClient EXCEPT ![a] = Tail(@)]
  /\ UNCHANGED <<wsOpen, connected, loopVars, commandVars, toServer, serverVars, skipped>>

\* The loop ends when the socket is closed and what had arrived is consumed.
\* It does not set _turn_event: a sleeping agent learns of it at its next poll.
RecvEnd(a) ==
  /\ connected[a]
  /\ ~wsOpen[a]
  /\ toClient[a] = << >>
  /\ connected' = [connected EXCEPT ![a] = FALSE]
  /\ UNCHANGED <<wsOpen, phase, turn, counter, event, loopVars, commandVars,
                 toClient, toServer, serverVars, skipped>>

\* Mutant: off by one.
SendNextPhaseDone(a) ==
  toServer' = IF wsOpen[a]
              THEN [toServer EXCEPT ![a] = Append(@, turn[a] + 1)]
              ELSE toServer

\* GameClient.end_turn: the packet names the turn the client is in NOW.
\* send_packet drops it when the socket is not open.
SendPhaseDone(a) ==
  toServer' = IF wsOpen[a]
              THEN [toServer EXCEPT ![a] = Append(@, turn[a])]
              ELSE toServer

-----------------------------------------------------------------------------
(* XBWorldAgent.run_game_loop, up to its next await.                       *)

\* _llm_loop's first await, in an autonomous turn or for a user's command.
EnterLLM(a, m) ==
  /\ pc' = [pc EXCEPT ![a] = "llm"]
  /\ mode' = [mode EXCEPT ![a] = m]
  /\ iter' = [iter EXCEPT ![a] = 1]
  /\ calls' = [calls EXCEPT ![a] = << >>]
  /\ UNCHANGED <<event, snapshot>>

AutonomousTurn(a) ==
  /\ EnterLLM(a, "auto")
  /\ turnBefore' = [turnBefore EXCEPT ![a] = turn[a]]
  /\ UNCHANGED <<queue, handled>>

\* Mutant: the oldest command is kept instead.
HandleOldestCommand(a) ==
  /\ queue[a] # << >>
  /\ EnterLLM(a, "command")
  /\ handled' = [handled EXCEPT ![a] = @ \cup {queue[a][1]}]
  /\ queue' = [queue EXCEPT ![a] = << >>]
  /\ UNCHANGED turnBefore

\* _drain_command keeps the newest command and discards the others.
HandleCommand(a) ==
  /\ queue[a] # << >>
  /\ EnterLLM(a, "command")
  /\ handled' = [handled EXCEPT ![a] = @ \cup {queue[a][Len(queue[a])]}]
  /\ queue' = [queue EXCEPT ![a] = << >>]
  /\ UNCHANGED turnBefore

Exit(a) ==
  /\ pc' = [pc EXCEPT ![a] = "exited"]
  /\ UNCHANGED <<event, snapshot, llmVars, queue, handled>>

\* wait_for_new_turn: (re)arm the event and suspend.
Sleep(a, snap) ==
  /\ pc' = [pc EXCEPT ![a] = "asleep"]
  /\ snapshot' = [snapshot EXCEPT ![a] = snap]
  /\ event' = [event EXCEPT ![a] = FALSE]
  /\ UNCHANGED <<llmVars, queue, handled>>

\* Mutant: one turn is counted, not all that have begun.
TakeOneTurn(a) ==
  /\ last' = [last EXCEPT ![a] = @ + 1]
  /\ \/ HandleCommand(a)
     \/ queue[a] = << >> /\ AutonomousTurn(a)

\* A turn has begun: note the counter, then the command or the turn itself.
TakeTurn(a) ==
  /\ last' = [last EXCEPT ![a] = counter[a]]
  /\ \/ HandleCommand(a)
     \/ queue[a] = << >> /\ AutonomousTurn(a)

\* The while loop's test, and what follows up to its next await; l is the
\* value of last_counter.
LoopTop(a, l) ==
  \/ /\ ~connected[a]
     /\ Exit(a)
     /\ last' = [last EXCEPT ![a] = l]
  \/ /\ connected[a]
     /\ counter[a] > l
     /\ TakeTurn(a)
  \/ /\ connected[a]
     /\ ~(counter[a] > l)
     /\ Sleep(a, counter[a])
     /\ last' = [last EXCEPT ![a] = l]

\* The agent's task starts, at any moment after the game was started.
Start(a) ==
  /\ pc[a] = "start"
  /\ \/ /\ phase[a] = "playing" /\ turn[a] >= 1
        /\ AutonomousTurn(a)
        /\ last' = [last EXCEPT ![a] = counter[a]]
     \/ /\ ~(phase[a] = "playing" /\ turn[a] >= 1)
        /\ LoopTop(a, counter[a])
  /\ UNCHANGED <<clientVars, submitted, toClient, toServer, serverVars, skipped>>

\* Mutant: connected is not looked at.
WaitResumesBlind(a) ==
  \/ /\ counter[a] # snapshot[a]
     /\ TakeTurn(a)
  \/ /\ counter[a] = snapshot[a]
     /\ Sleep(a, snapshot[a])
     /\ UNCHANGED last

\* wait_for_new_turn resumes: it gives up when disconnected, returns when the
\* counter moved, and otherwise goes back to sleep on a cleared event.
WaitResumes(a) ==
  \/ /\ ~connected[a]
     /\ Exit(a)
     /\ UNCHANGED last
  \/ /\ connected[a]
     /\ counter[a] # snapshot[a]
     /\ TakeTurn(a)
  \/ /\ connected[a]
     /\ counter[a] = snapshot[a]
     /\ Sleep(a, snapshot[a])
     /\ UNCHANGED last

Wake(a) ==
  /\ pc[a] = "asleep"
  /\ event[a]
  /\ WaitResumes(a)
  /\ UNCHANGED <<clientVars, submitted, toClient, toServer, serverVars, skipped>>

\* The 5 s poll ran out; it may do so while the event is being set.
Poll(a) ==
  /\ pc[a] = "asleep"
  /\ WaitResumes(a)
  /\ UNCHANGED <<clientVars, submitted, toClient, toServer, serverVars, skipped>>

\* Mutant: commands wait for the next turn.
WaitExpiresIdle(a) ==
  /\ pc[a] = "asleep"
  /\ connected[a]
  /\ counter[a] = snapshot[a]
  /\ LoopTop(a, last[a])
  /\ UNCHANGED <<clientVars, submitted, toClient, toServer, serverVars, skipped>>

\* The 30 s wait ran out: no turn, so a queued command is handled now.
WaitExpires(a) ==
  /\ pc[a] = "asleep"
  /\ connected[a]
  /\ counter[a] = snapshot[a]
  /\ \/ HandleCommand(a) /\ UNCHANGED last
     \/ queue[a] = << >> /\ LoopTop(a, last[a])
  /\ UNCHANGED <<clientVars, submitted, toClient, toServer, serverVars, skipped>>

-----------------------------------------------------------------------------
(* _autonomous_turn, _handle_user_command and _llm_loop.                   *)

\* _llm_loop returned.  An autonomous turn is ended here when the client is
\* still in the turn it began with; a user's command ends nothing.
\* Mutant: the test compares with the turn after.
NeverAutoEnds(a) ==
  mode[a] = "auto" /\ turn[a] = turnBefore[a] + 1 /\ phase[a] = "playing"

AutoEnds(a) == mode[a] = "auto" /\ turn[a] = turnBefore[a] /\ phase[a] = "playing"

LoopReturns(a) ==
  \/ /\ AutoEnds(a)
     /\ SendPhaseDone(a)
     /\ pc' = [pc EXCEPT ![a] = "ending"]
     /\ UNCHANGED <<event, last, snapshot, llmVars, queue, handled>>
  \/ /\ ~AutoEnds(a)
     /\ LoopTop(a, last[a])
     /\ UNCHANGED toServer

\* The reply holds tool calls.
LLMCalls(a) ==
  /\ pc[a] = "llm"
  /\ calls' \in {[calls EXCEPT ![a] = b] : b \in Batches}
  /\ pc' = [pc EXCEPT ![a] = "tools"]
  /\ UNCHANGED <<clientVars, event, last, snapshot, mode, turnBefore, iter,
                 commandVars, toClient, toServer, serverVars, skipped>>

\* The reply is text or empty (parse_response gives None), or the call failed:
\* the loop breaks.
LLMStops(a) ==
  /\ pc[a] = "llm"
  /\ LoopReturns(a)
  /\ UNCHANGED <<clientVars, submitted, toClient, serverVars, skipped>>

\* parse_response raises, outside the loop's try (a reply with "tool_calls":
\* null, which its for iterates): the exception leaves the turn or the command,
\* nothing is ended, and run_game_loop logs it and goes round.
LLMRaises(a) ==
  /\ pc[a] = "llm"
  /\ skipped' = [skipped EXCEPT ![a] = IF AutoEnds(a) THEN @ \cup {turn[a]} ELSE @]
  /\ LoopTop(a, last[a])
  /\ UNCHANGED <<clientVars, submitted, toClient, toServer, serverVars>>

RunTool(a) ==
  /\ pc[a] = "tools"
  /\ calls[a] # << >>
  /\ IF Head(calls[a]) = "end_turn" THEN SendPhaseDone(a) ELSE UNCHANGED toServer
  /\ calls' = [calls EXCEPT ![a] = Tail(@)]
  /\ UNCHANGED <<clientVars, event, pc, last, snapshot, mode, turnBefore, iter,
                 commandVars, toClient, serverVars, skipped>>

\* The batch is done: the next iteration calls the LLM again, or the loop ends.
ToolsDone(a) ==
  /\ pc[a] = "tools"
  /\ calls[a] = << >>
  /\ \/ /\ iter[a] < MaxIter
        /\ pc' = [pc EXCEPT ![a] = "llm"]
        /\ iter' = [iter EXCEPT ![a] = @ + 1]
        /\ UNCHANGED <<event, last, snapshot, mode, turnBefore, calls, queue,
                       handled, toServer>>
     \/ /\ iter[a] >= MaxIter
        /\ LoopReturns(a)
  /\ UNCHANGED <<clientVars, submitted, toClient, serverVars, skipped>>

\* _run_turn_with_timeout: the turn is cancelled wherever it is suspended and
\* the client's current turn is ended.  Commands run without this timeout.
TurnTimeout(a) ==
  /\ pc[a] \in {"llm", "tools", "ending"}
  /\ mode[a] = "auto"
  /\ SendPhaseDone(a)
  /\ pc' = [pc EXCEPT ![a] = "ending"]
  /\ mode' = [mode EXCEPT ![a] = "forced"]
  /\ calls' = [calls EXCEPT ![a] = << >>]
  /\ UNCHANGED <<clientVars, event, last, snapshot, turnBefore, iter,
                 commandVars, toClient, serverVars, skipped>>

\* The send of an automatic or forced end returns; the loop goes round.
EndSent(a) ==
  /\ pc[a] = "ending"
  /\ LoopTop(a, last[a])
  /\ UNCHANGED <<clientVars, submitted, toClient, toServer, serverVars, skipped>>

\* submit_command, called by the HTTP API or the REPL at any time.
SubmitCommand(a) ==
  /\ submitted[a] < MaxCommands
  /\ submitted' = [submitted EXCEPT ![a] = @ + 1]
  /\ queue' = [queue EXCEPT ![a] = Append(@, submitted[a] + 1)]
  /\ UNCHANGED <<clientVars, event, loopVars, handled, toClient, toServer,
                 serverVars, skipped>>

-----------------------------------------------------------------------------
(* The freeciv server and the network: external.                           *)

Online == {a \in Agents : wsOpen[a]}

\* A PHASE_DONE for another turn than the server's is ignored.
SrvPhaseDone(a) ==
  /\ toServer[a] # << >>
  /\ done' = IF Head(toServer[a]) = srvTurn THEN done \cup {a} ELSE done
  /\ toServer' = [toServer EXCEPT ![a] = Tail(@)]
  /\ UNCHANGED <<clientVars, event, loopVars, commandVars, toClient, srvTurn, skipped>>

TurnChange(n) == <<Packet("END_TURN", n), Packet("GAME_INFO", n + 1),
                   Packet("BEGIN_TURN", n + 1)>>

\* The turn ends when every player online is done, or on the server's timeout.
SrvNewTurn ==
  /\ srvTurn < MaxTurn
  /\ Online # {}
  /\ Online \subseteq done \/ ServerTimeout
  /\ srvTurn' = srvTurn + 1
  /\ done' = {}
  /\ toClient' = [a \in Agents |-> IF wsOpen[a]
                                   THEN toClient[a] \o TurnChange(srvTurn)
                                   ELSE toClient[a]]
  /\ UNCHANGED <<clientVars, event, loopVars, commandVars, toServer, skipped>>

\* A socket drops: what was still on its way out of a prefix is lost.
Drop(a) ==
  /\ LossyLinks
  /\ wsOpen[a]
  /\ wsOpen' = [wsOpen EXCEPT ![a] = FALSE]
  /\ \E n \in 0..Len(toClient[a]) :
        toClient' = [toClient EXCEPT ![a] = SubSeq(@, 1, n)]
  /\ toServer' = [toServer EXCEPT ![a] = << >>]
  /\ UNCHANGED <<connected, phase, turn, counter, event, loopVars, commandVars,
                 serverVars, skipped>>

-----------------------------------------------------------------------------
ClientStep(a) == Recv(a) \/ RecvEnd(a)

AgentStep(a) ==
  \/ Start(a) \/ Wake(a) \/ Poll(a) \/ WaitExpires(a)
  \/ LLMCalls(a) \/ LLMStops(a) \/ LLMRaises(a) \/ RunTool(a) \/ ToolsDone(a)
  \/ TurnTimeout(a) \/ EndSent(a)

EnvStep(a) == SubmitCommand(a) \/ SrvPhaseDone(a) \/ Drop(a)

Next == (\E a \in Agents : ClientStep(a) \/ AgentStep(a) \/ EnvStep(a)) \/ SrvNewTurn

Spec == Init /\ [][Next]_vars

\* The event loop runs every task that is ready; polls, waits and HTTP requests
\* to the LLM have finite timeouts; the server reads its sockets and, when it
\* can, ends the turn.  Nothing obliges a user to submit, a link to drop, the
\* LLM to choose one reply rather than another, or a turn to time out.
Fairness ==
  /\ \A a \in Agents :
       /\ WF_vars(Recv(a))
       /\ WF_vars(RecvEnd(a))
       /\ WF_vars(Start(a))
       /\ WF_vars(Wake(a))
       /\ WF_vars(Poll(a))
       /\ WF_vars(WaitExpires(a))
       /\ WF_vars(LLMCalls(a) \/ LLMStops(a) \/ LLMRaises(a))
       /\ WF_vars(RunTool(a))
       /\ WF_vars(ToolsDone(a))
       /\ WF_vars(EndSent(a))
       /\ WF_vars(SrvPhaseDone(a))
  /\ WF_vars(SrvNewTurn)

FairSpec == Spec /\ Fairness
-----------------------------------------------------------------------------
(* Properties.                                                             *)

\* No wake-up is lost: an agent asleep in wait_for_new_turn while a turn has
\* begun that it has not taken finds its event set (game_client.py: the
\* counter is snapshot, the event cleared and awaited without an await between).
NoLostWakeup ==
  \A a \in Agents :
    pc[a] = "asleep" /\ connected[a] /\ counter[a] # last[a] => event[a]

\* PHASE_DONE packets on their way never name a turn the server has not begun,
\* nor go back in turn: the server may ignore a late one but never has to keep
\* one for later (end_turn reads state.turn at the moment it sends).
PhaseDoneNeverAhead ==
  \A a \in Agents :
    \A i \in 1..Len(toServer[a]) :
      /\ toServer[a][i] <= srvTurn
      /\ toServer[a][i] <= turn[a]
      /\ \A j \in 1..i : toServer[a][j] <= toServer[a][i]

\* While the client believes it may play, the turns it counted and the turn
\* number it would end agree: between END_TURN and BEGIN_TURN, where they do
\* not, the phase is not "playing" (_autonomous_turn's test relies on it).
PlayingIsCurrent ==
  \A a \in Agents : phase[a] = "playing" => counter[a] = turn[a]

\* Only the newest of the queued commands runs: whenever a command is taken up,
\* nothing submitted later (or since) is left behind (_drain_command).
NewestCommandWins ==
  [][\A a \in Agents : handled'[a] # handled[a] => submitted[a] \in handled'[a]]_vars

\* An agent whose connection ended leaves its game loop, wherever it was.
LeavesAfterDisconnect == \A a \in Agents : ~connected[a] ~> pc[a] = "exited"

\* No command stays queued while the agent runs.
QueueDrains ==
  \A a \in Agents : queue[a] # << >> ~> (queue[a] = << >> \/ pc[a] = "exited")

\* The game goes on although nobody but the agents ends a turn: while somebody is
\* connected, every turn but the last is followed by the next.  What may stop it
\* is an exception that leaves an agent's loop and, with it, skips the automatic
\* end of just that turn (agent.py: _autonomous_turn, run_game_loop).
GameAdvances ==
  \A n \in 1..MaxTurn - 1 :
    srvTurn = n ~> \/ srvTurn > n
                   \/ Online = {}
                   \/ \E a \in Agents : n \in skipped[a]

\* Properties the program's own words promise and its code does not keep.

\* "Turn %d TIMED OUT after %ds, force ending" (agent.py:275): the turn that is
\* forced to end is the one that timed out.
ForceEndsTimedOutTurn ==
  [][\A a \in Agents :
       /\ pc[a] \in {"llm", "tools"}
       /\ mode[a] = "auto" /\ mode'[a] = "forced"
       /\ Len(toServer'[a]) > Len(toServer[a])
       => toServer'[a][Len(toServer'[a])] = turnBefore[a]]_vars
=============================================================================
