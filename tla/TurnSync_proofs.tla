--------------------------- MODULE TurnSync_proofs ---------------------------
(***************************************************************************)
(* Proofs about TurnSync, for any set of agents and any bounds: type       *)
(* correctness; no wake-up of a sleeping agent is lost; a client in phase  *)
(* "playing" has counted the turn it is in; no PHASE_DONE on its way names *)
(* a turn the server has not begun; the newest command is the one taken.   *)
(***************************************************************************)
EXTENDS TurnSync, SequenceTheorems, TLAPS

\* The part of TypeOK about the variables the game loop writes.
LoopVarsTyped ==
  /\ event \in [Agents -> BOOLEAN]
  /\ pc \in [Agents -> Points]
  /\ last \in [Agents -> Nat]
  /\ snapshot \in [Agents -> Nat]
  /\ mode \in [Agents -> Modes]
  /\ turnBefore \in [Agents -> Nat]
  /\ iter \in [Agents -> Nat]
  /\ calls \in [Agents -> Seq(Tools)]
  /\ queue \in [Agents -> Seq(Nat)]
  /\ handled \in [Agents -> SUBSET Nat]

\* What a step of the game loop may do once it has left its await: the typed
\* results of LoopTop, shared by every action that ends in it.
LEMMA LoopTopTyped ==
  ASSUME TypeOK, NEW a \in Agents, NEW l \in Nat, LoopTop(a, l)
  PROVE  LoopVarsTyped'
<1> USE DEF TypeOK, Points, Modes, LoopVarsTyped
<1>1. CASE ~connected[a] /\ Exit(a) /\ last' = [last EXCEPT ![a] = l]
  BY <1>1 DEF Exit, llmVars
<1>2. CASE connected[a] /\ counter[a] > l /\ TakeTurn(a)
  <2>1. CASE HandleCommand(a)
    BY <1>2, <2>1 DEF TakeTurn, HandleCommand, EnterLLM
  <2>2. CASE queue[a] = << >> /\ AutonomousTurn(a)
    BY <1>2, <2>2 DEF TakeTurn, AutonomousTurn, EnterLLM
  <2>3. QED BY <1>2, <2>1, <2>2 DEF TakeTurn
<1>3. CASE connected[a] /\ Sleep(a, counter[a]) /\ last' = [last EXCEPT ![a] = l]
  BY <1>3 DEF Sleep, llmVars
<1>4. QED BY <1>1, <1>2, <1>3 DEF LoopTop

\* The same for a wait that resumes.
LEMMA WaitResumesTyped ==
  ASSUME TypeOK, NEW a \in Agents, WaitResumes(a)
  PROVE  LoopVarsTyped'
<1> USE DEF TypeOK, Points, Modes, LoopVarsTyped
<1>1. CASE Exit(a) /\ UNCHANGED last
  BY <1>1 DEF Exit, llmVars
<1>2. CASE TakeTurn(a)
  <2>1. CASE HandleCommand(a)
    BY <1>2, <2>1 DEF TakeTurn, HandleCommand, EnterLLM
  <2>2. CASE AutonomousTurn(a)
    BY <1>2, <2>2 DEF TakeTurn, AutonomousTurn, EnterLLM
  <2>3. QED BY <1>2, <2>1, <2>2 DEF TakeTurn
<1>3. CASE Sleep(a, snapshot[a]) /\ UNCHANGED last
  BY <1>3 DEF Sleep, llmVars
<1>4. QED BY <1>1, <1>2, <1>3 DEF WaitResumes

\* A send keeps the packets on their way to the server turn numbers.
LEMMA SendTyped ==
  ASSUME TypeOK, NEW a \in Agents, SendPhaseDone(a)
  PROVE  toServer' \in [Agents -> Seq(Nat)]
BY DEF TypeOK, SendPhaseDone

\* And for the end of _llm_loop.
LEMMA LoopReturnsTyped ==
  ASSUME TypeOK, NEW a \in Agents, LoopReturns(a)
  PROVE  LoopVarsTyped' /\ toServer' \in [Agents -> Seq(Nat)]
<1>1. CASE AutoEnds(a) /\ SendPhaseDone(a) /\ pc' = [pc EXCEPT ![a] = "ending"]
           /\ UNCHANGED <<event, last, snapshot, llmVars, queue, handled>>
  BY <1>1, SendTyped DEF TypeOK, LoopVarsTyped, Points, llmVars
<1>2. CASE LoopTop(a, last[a]) /\ UNCHANGED toServer
  BY <1>2, LoopTopTyped DEF TypeOK
<1>3. QED BY <1>1, <1>2 DEF LoopReturns


-----------------------------------------------------------------------------
LEMMA TypeInit == Init => TypeOK
BY DEF Init, TypeOK, Phases, Points, Modes, Packet, Packets, Kinds

LEMMA TypeStep == TypeOK /\ [Next]_vars => TypeOK'
<1> SUFFICES ASSUME TypeOK, [Next]_vars PROVE TypeOK'
  OBVIOUS
<1> USE DEF clientVars, loopVars, llmVars, commandVars, serverVars
<1>1. ASSUME NEW a \in Agents, Recv(a) PROVE TypeOK'
  <2>1. toClient[a] \in Seq(Packets) /\ Head(toClient[a]) \in Packets
        /\ Tail(toClient[a]) \in Seq(Packets)
    BY <1>1 DEF TypeOK, Recv
  <2>2. toClient' \in [Agents -> Seq(Packets)]
    BY <1>1, <2>1 DEF TypeOK, Recv
  <2>3. /\ turn' \in [Agents -> Nat] /\ counter' \in [Agents -> Nat]
        /\ phase' \in [Agents -> Phases] /\ event' \in [Agents -> BOOLEAN]
    <3> DEFINE pkt == Head(toClient[a])
    <3>1. CASE OnGameInfo(a, pkt)
      <4>1. pkt.turn \in Nat
        BY <2>1 DEF Packets
      <4>2. QED BY <3>1, <4>1 DEF TypeOK, OnGameInfo
    <3>2. CASE OnBeginTurn(a, pkt)
      BY <3>2 DEF TypeOK, OnBeginTurn, Phases
    <3>3. CASE OnEndTurn(a, pkt)
      BY <3>3 DEF TypeOK, OnEndTurn, Phases
    <3>4. QED BY <1>1, <3>1, <3>2, <3>3 DEF Recv
  <2>4. QED BY <1>1, <2>2, <2>3 DEF TypeOK, Recv
<1>2. ASSUME NEW a \in Agents, RecvEnd(a) PROVE TypeOK'
  BY <1>2 DEF TypeOK, RecvEnd
<1>3. ASSUME NEW a \in Agents, Start(a) PROVE TypeOK'
  <2>1. LoopVarsTyped'
    <3>1. CASE AutonomousTurn(a) /\ last' = [last EXCEPT ![a] = counter[a]]
      BY <3>1 DEF AutonomousTurn, EnterLLM, LoopVarsTyped, TypeOK, Points, Modes
    <3>2. CASE LoopTop(a, counter[a])
      BY <3>2, LoopTopTyped DEF TypeOK
    <3>3. QED BY <1>3, <3>1, <3>2 DEF Start
  <2>2. QED BY <1>3, <2>1 DEF Start, TypeOK, LoopVarsTyped
<1>4. ASSUME NEW a \in Agents, Wake(a) \/ Poll(a) PROVE TypeOK'
  BY <1>4, WaitResumesTyped DEF Wake, Poll, TypeOK, LoopVarsTyped
<1>5. ASSUME NEW a \in Agents, WaitExpires(a) PROVE TypeOK'
  <2>1. LoopVarsTyped'
    <3>1. CASE HandleCommand(a) /\ UNCHANGED last
      BY <3>1 DEF HandleCommand, EnterLLM, LoopVarsTyped, TypeOK, Points, Modes
    <3>2. CASE LoopTop(a, last[a])
      BY <3>2, LoopTopTyped DEF TypeOK
    <3>3. QED BY <1>5, <3>1, <3>2 DEF WaitExpires
  <2>2. QED BY <1>5, <2>1 DEF WaitExpires, TypeOK, LoopVarsTyped
<1>6. ASSUME NEW a \in Agents, LLMCalls(a) PROVE TypeOK'
  <2>1. Batches \subseteq Seq(Tools)
    BY DEF Batches, Tools
  <2>2. QED BY <1>6, <2>1 DEF LLMCalls, TypeOK, Points
<1>7. ASSUME NEW a \in Agents, LLMStops(a) PROVE TypeOK'
  BY <1>7, LoopReturnsTyped DEF LLMStops, TypeOK, LoopVarsTyped
<1>8. ASSUME NEW a \in Agents, RunTool(a) PROVE TypeOK'
  <2>1. toServer' \in [Agents -> Seq(Nat)]
    BY <1>8, SendTyped DEF RunTool, TypeOK
  <2>2. calls' \in [Agents -> Seq(Tools)]
    BY <1>8 DEF RunTool, TypeOK
  <2>3. QED BY <1>8, <2>1, <2>2 DEF RunTool, TypeOK
<1>9. ASSUME NEW a \in Agents, ToolsDone(a) PROVE TypeOK'
  <2>1. LoopVarsTyped' /\ toServer' \in [Agents -> Seq(Nat)]
    <3>1. CASE LoopReturns(a)
      BY <3>1, LoopReturnsTyped
    <3>2. CASE ~LoopReturns(a)
      <4>1. /\ pc' = [pc EXCEPT ![a] = "llm"]
            /\ iter' = [iter EXCEPT ![a] = @ + 1]
            /\ UNCHANGED <<event, last, snapshot, mode, turnBefore, calls,
                           queue, handled, toServer>>
        BY <1>9, <3>2 DEF ToolsDone
      <4>2. pc' \in [Agents -> Points] /\ iter' \in [Agents -> Nat]
        BY <4>1 DEF TypeOK, Points
      <4>3. QED BY <4>1, <4>2 DEF TypeOK, LoopVarsTyped
    <3>3. QED BY <3>1, <3>2
  <2>2. QED BY <1>9, <2>1 DEF ToolsDone, TypeOK, LoopVarsTyped
<1>10. ASSUME NEW a \in Agents, TurnTimeout(a) PROVE TypeOK'
  <2>1. toServer' \in [Agents -> Seq(Nat)]
    BY <1>10, SendTyped DEF TurnTimeout
  <2>2. /\ pc' \in [Agents -> Points] /\ mode' \in [Agents -> Modes]
        /\ calls' \in [Agents -> Seq(Tools)]
    BY <1>10 DEF TurnTimeout, TypeOK, Points, Modes
  <2>3. QED BY <1>10, <2>1, <2>2 DEF TurnTimeout, TypeOK
<1>11. ASSUME NEW a \in Agents, EndSent(a) PROVE TypeOK'
  <2>1. LoopVarsTyped'
    BY <1>11, LoopTopTyped DEF EndSent, TypeOK
  <2>2. QED BY <1>11, <2>1 DEF EndSent, TypeOK, LoopVarsTyped
<1>12. ASSUME NEW a \in Agents, SubmitCommand(a) PROVE TypeOK'
  <2>1. submitted' \in [Agents -> Nat] /\ queue' \in [Agents -> Seq(Nat)]
    BY <1>12 DEF SubmitCommand, TypeOK
  <2>2. QED BY <1>12, <2>1 DEF SubmitCommand, TypeOK
<1>13. ASSUME NEW a \in Agents, SrvPhaseDone(a) PROVE TypeOK'
  <2>1. Tail(toServer[a]) \in Seq(Nat)
    BY <1>13 DEF SrvPhaseDone, TypeOK
  <2>2. toServer' \in [Agents -> Seq(Nat)] /\ done' \in SUBSET Agents
    BY <1>13, <2>1 DEF SrvPhaseDone, TypeOK
  <2>3. QED BY <1>13, <2>2 DEF SrvPhaseDone, TypeOK
<1>14. ASSUME NEW a \in Agents, Drop(a) PROVE TypeOK'
  <2>1. PICK n \in 0..Len(toClient[a]) :
               toClient' = [toClient EXCEPT ![a] = SubSeq(@, 1, n)]
    BY <1>14 DEF Drop
  <2>2. SubSeq(toClient[a], 1, n) \in Seq(Packets)
    BY DEF TypeOK
  <2>3. toClient' \in [Agents -> Seq(Packets)]
    BY <2>1, <2>2 DEF TypeOK
  <2>4. QED BY <1>14, <2>3 DEF Drop, TypeOK
<1>15. ASSUME SrvNewTurn PROVE TypeOK'
  <2>1. TurnChange(srvTurn) \in Seq(Packets)
    BY DEF TypeOK, TurnChange, Packet, Packets, Kinds
  <2>2. toClient' \in [Agents -> Seq(Packets)]
    BY <1>15, <2>1 DEF SrvNewTurn, TypeOK
  <2>3. QED BY <1>15, <2>2 DEF SrvNewTurn, TypeOK
<1>16. CASE UNCHANGED vars
  BY <1>16 DEF vars, TypeOK
<1>17. ASSUME NEW a \in Agents, LLMRaises(a) PROVE TypeOK'
  <2>1. LoopVarsTyped'
    BY <1>17, LoopTopTyped DEF LLMRaises, TypeOK
  <2>2. skipped' \in [Agents -> SUBSET Nat]
    BY <1>17 DEF LLMRaises, TypeOK
  <2>3. QED BY <1>17, <2>1, <2>2 DEF LLMRaises, TypeOK, LoopVarsTyped
<1>18. QED
  BY <1>1, <1>2, <1>3, <1>4, <1>5, <1>6, <1>7, <1>8, <1>9, <1>10, <1>11,
     <1>12, <1>13, <1>14, <1>15, <1>16, <1>17
  DEF Next, ClientStep, AgentStep, EnvStep

\* Every variable keeps its type: in particular the packets in transit are
\* packets and the commands handled are commands that were submitted numbers.
THEOREM TypeCorrect == Spec => []TypeOK
BY TypeInit, TypeStep, PTL DEF Spec


-----------------------------------------------------------------------------
(* The turn signal.  NoLostWakeup is not inductive: that the event was       *)
(* cleared no later than the counter was read shows only once it is known   *)
(* that a sleeping agent's snapshot is its last_counter, and that this never *)
(* runs ahead of the counter.                                                *)

SignalOK(a) ==
  /\ last[a] <= counter[a]
  /\ pc[a] = "asleep" => /\ snapshot[a] = last[a]
                         /\ counter[a] # snapshot[a] => event[a]

SignalInv == \A a \in Agents : SignalOK(a)

\* What any action does to the signal of the agents it is not about: nothing.
SignalFrame(a) ==
  \A b \in Agents \ {a} : /\ last'[b] = last[b] /\ counter'[b] = counter[b]
                          /\ pc'[b] = pc[b] /\ snapshot'[b] = snapshot[b]
                          /\ event'[b] = event[b]

LEMMA SignalFrameStep ==
  ASSUME SignalInv, NEW a \in Agents, SignalFrame(a), SignalOK(a)'
  PROVE  SignalInv'
BY DEF SignalInv, SignalOK, SignalFrame

\* The three ways the loop enters an await, seen from the signal: it falls
\* asleep on a cleared event with a fresh snapshot, or it is not asleep.
LEMMA TakeTurnSignal ==
  ASSUME TypeOK, NEW a \in Agents, TakeTurn(a), UNCHANGED counter
  PROVE  /\ SignalFrame(a) /\ SignalOK(a)'
         /\ last' = [last EXCEPT ![a] = counter[a]]
<1>1. CASE HandleCommand(a)
  BY <1>1 DEF TakeTurn, HandleCommand, EnterLLM, SignalFrame, SignalOK, TypeOK
<1>2. CASE AutonomousTurn(a)
  BY <1>2 DEF TakeTurn, AutonomousTurn, EnterLLM, SignalFrame, SignalOK, TypeOK
<1>3. QED BY <1>1, <1>2 DEF TakeTurn

LEMMA LoopTopSignal ==
  ASSUME TypeOK, NEW a \in Agents, NEW l \in Nat, l <= counter[a],
         LoopTop(a, l), UNCHANGED counter
  PROVE  /\ SignalFrame(a) /\ SignalOK(a)'
         /\ \/ last' = [last EXCEPT ![a] = counter[a]]
            \/ last' = [last EXCEPT ![a] = l]
<1>1. CASE Exit(a) /\ last' = [last EXCEPT ![a] = l]
  BY <1>1 DEF Exit, llmVars, SignalFrame, SignalOK, TypeOK
<1>2. CASE TakeTurn(a)
  BY <1>2, TakeTurnSignal
<1>3. CASE /\ ~(counter[a] > l) /\ Sleep(a, counter[a])
           /\ last' = [last EXCEPT ![a] = l]
  BY <1>3 DEF Sleep, llmVars, SignalFrame, SignalOK, TypeOK
<1>4. QED BY <1>1, <1>2, <1>3 DEF LoopTop

LEMMA WaitResumesSignal ==
  ASSUME TypeOK, NEW a \in Agents, SignalOK(a), pc[a] = "asleep",
         WaitResumes(a), UNCHANGED counter
  PROVE  /\ SignalFrame(a) /\ SignalOK(a)'
         /\ \/ last' = [last EXCEPT ![a] = counter[a]]
            \/ UNCHANGED last
<1>1. CASE Exit(a) /\ UNCHANGED last
  BY <1>1 DEF Exit, llmVars, SignalFrame, SignalOK, TypeOK
<1>2. CASE TakeTurn(a)
  BY <1>2, TakeTurnSignal
<1>3. CASE counter[a] = snapshot[a] /\ Sleep(a, snapshot[a]) /\ UNCHANGED last
  BY <1>3 DEF Sleep, llmVars, SignalFrame, SignalOK, TypeOK
<1>4. QED BY <1>1, <1>2, <1>3 DEF WaitResumes

LEMMA LoopReturnsSignal ==
  ASSUME TypeOK, NEW a \in Agents, SignalOK(a), LoopReturns(a), UNCHANGED counter
  PROVE  /\ SignalFrame(a) /\ SignalOK(a)'
         /\ \/ last' = [last EXCEPT ![a] = counter[a]]
            \/ last' = [last EXCEPT ![a] = last[a]]
<1>1. CASE /\ pc' = [pc EXCEPT ![a] = "ending"]
           /\ UNCHANGED <<event, last, snapshot, llmVars, queue, handled>>
  BY <1>1 DEF SignalFrame, SignalOK, TypeOK
<1>2. CASE LoopTop(a, last[a])
  BY <1>2, LoopTopSignal DEF TypeOK, SignalOK
<1>3. QED BY <1>1, <1>2 DEF LoopReturns


\* The abstract signal, as agent a's state implements it.
Signal(a) == INSTANCE TurnSignal
               WITH raised <- counter[a], taken <- last[a], open <- connected[a]

\* A step of the system is, for the signal of every agent, one of its steps.
SignalSteps ==
  \A a \in Agents : \/ Signal(a)!Next
                    \/ UNCHANGED <<counter[a], last[a], connected[a]>>

LEMMA SignalInit == Init => SignalInv
<1> SUFFICES ASSUME Init, NEW a \in Agents PROVE SignalOK(a)
  BY DEF SignalInv
<1>1. last[a] = 0 /\ counter[a] = 0 /\ pc[a] = "start"
  BY DEF Init
<1>2. QED BY <1>1 DEF SignalOK

\* A step of one agent's game loop that leaves counters and connections alone
\* and moves last_counter at most up to the counter.
LEMMA SignalAgentStep ==
  ASSUME TypeOK, SignalInv, NEW a \in Agents, SignalFrame(a), SignalOK(a)',
         UNCHANGED <<counter, connected>>,
         last'[a] = counter[a] \/ last'[a] = last[a]
  PROVE  SignalInv' /\ SignalSteps
<1>1. SignalInv'
  BY SignalFrameStep
<1>2. ASSUME NEW b \in Agents
      PROVE  Signal(b)!Next \/ UNCHANGED <<counter[b], last[b], connected[b]>>
  <2>1. CASE b = a /\ last'[a] # last[a]
    <3>1. last[a] < counter[a]
      BY <2>1 DEF SignalInv, SignalOK, TypeOK
    <3>2. Signal(b)!Take
      BY <2>1, <3>1 DEF Signal!Take
    <3>3. QED BY <3>2 DEF Signal!Next
  <2>2. CASE ~(b = a /\ last'[a] # last[a])
    BY <2>2 DEF SignalFrame
  <2>3. QED BY <2>1, <2>2
<1>3. QED BY <1>1, <1>2 DEF SignalSteps


\* A step that touches nothing of the signal.
LEMMA SignalIdle ==
  ASSUME SignalInv, UNCHANGED <<last, counter, pc, snapshot, event, connected>>
  PROVE  SignalInv' /\ SignalSteps
BY DEF SignalInv, SignalOK, SignalSteps

LEMMA SignalStep ==
  ASSUME TypeOK, SignalInv, [Next]_vars
  PROVE  SignalInv' /\ SignalSteps
<1> USE DEF clientVars, loopVars, llmVars, commandVars, serverVars
<1>1. ASSUME NEW a \in Agents, Recv(a) PROVE SignalInv' /\ SignalSteps
  <2>1. /\ UNCHANGED <<last, pc, snapshot, connected>>
        /\ connected[a]
        /\ \/ UNCHANGED <<counter, event>>
           \/ /\ counter' = [counter EXCEPT ![a] = @ + 1]
              /\ event' = [event EXCEPT ![a] = TRUE]
    BY <1>1 DEF Recv, OnGameInfo, OnBeginTurn, OnEndTurn
  <2>2. CASE UNCHANGED <<counter, event>>
    BY <2>1, <2>2, SignalIdle
  <2>3. CASE /\ counter' = [counter EXCEPT ![a] = @ + 1]
             /\ event' = [event EXCEPT ![a] = TRUE]
    <3>1. SignalFrame(a) /\ SignalOK(a)'
      BY <2>1, <2>3 DEF SignalInv, SignalOK, SignalFrame, TypeOK
    <3>2. Signal(a)!Raise
      BY <2>1, <2>3 DEF Signal!Raise, TypeOK
    <3>3. \A b \in Agents \ {a} : UNCHANGED <<counter[b], last[b], connected[b]>>
      BY <2>1, <2>3 DEF TypeOK
    <3>4. SignalInv' BY <3>1, SignalFrameStep
    <3>5. QED BY <3>2, <3>3, <3>4 DEF SignalSteps, Signal!Next
  <2>4. QED BY <2>1, <2>2, <2>3
<1>2. ASSUME NEW a \in Agents, RecvEnd(a) PROVE SignalInv' /\ SignalSteps
  <2>1. /\ UNCHANGED <<last, pc, snapshot, counter, event>>
        /\ connected[a]
        /\ connected' = [connected EXCEPT ![a] = FALSE]
    BY <1>2 DEF RecvEnd
  <2>2. SignalInv'
    BY <2>1 DEF SignalInv, SignalOK
  <2>3. Signal(a)!Next
    BY <2>1 DEF Signal!Next, Signal!Close, TypeOK
  <2>4. \A b \in Agents \ {a} : UNCHANGED <<counter[b], last[b], connected[b]>>
    BY <2>1 DEF TypeOK
  <2>5. QED BY <2>2, <2>3, <2>4 DEF SignalSteps
<1>3. ASSUME NEW a \in Agents, Start(a) PROVE SignalInv' /\ SignalSteps
  <2>1. UNCHANGED <<counter, connected>>
    BY <1>3 DEF Start
  <2>2. CASE AutonomousTurn(a) /\ last' = [last EXCEPT ![a] = counter[a]]
    <3>1. SignalFrame(a) /\ SignalOK(a)' /\ last'[a] = counter[a]
      BY <2>1, <2>2 DEF AutonomousTurn, EnterLLM, SignalFrame, SignalOK, TypeOK
    <3>2. QED BY <2>1, <3>1, SignalAgentStep
  <2>3. CASE LoopTop(a, counter[a])
    <3>1. counter[a] \in Nat /\ counter[a] <= counter[a]
      BY DEF TypeOK
    <3>2. SignalFrame(a) /\ SignalOK(a)' /\ last' = [last EXCEPT ![a] = counter[a]]
      BY <2>1, <2>3, <3>1, LoopTopSignal
    <3>3. last'[a] = counter[a]
      BY <3>2 DEF TypeOK
    <3>4. QED BY <2>1, <3>2, <3>3, SignalAgentStep
  <2>4. QED BY <1>3, <2>2, <2>3 DEF Start
<1>4. ASSUME NEW a \in Agents, Wake(a) \/ Poll(a) PROVE SignalInv' /\ SignalSteps
  <2>1. pc[a] = "asleep" /\ WaitResumes(a) /\ UNCHANGED <<counter, connected>>
    BY <1>4 DEF Wake, Poll
  <2>2. SignalOK(a)
    BY DEF SignalInv
  <2>3. /\ SignalFrame(a) /\ SignalOK(a)'
        /\ last' = [last EXCEPT ![a] = counter[a]] \/ UNCHANGED last
    BY <2>1, <2>2, WaitResumesSignal
  <2>4. last'[a] = counter[a] \/ last'[a] = last[a]
    BY <2>3 DEF TypeOK
  <2>5. QED BY <2>1, <2>3, <2>4, SignalAgentStep
<1>5. ASSUME NEW a \in Agents, LoopTop(a, last[a]), UNCHANGED <<counter, connected>>
      PROVE  SignalInv' /\ SignalSteps
  <2>1. last[a] \in Nat /\ last[a] <= counter[a]
    BY DEF TypeOK, SignalInv, SignalOK
  <2>2. /\ SignalFrame(a) /\ SignalOK(a)'
        /\ \/ last' = [last EXCEPT ![a] = counter[a]]
           \/ last' = [last EXCEPT ![a] = last[a]]
    BY <1>5, <2>1, LoopTopSignal
  <2>3. last'[a] = counter[a] \/ last'[a] = last[a]
    BY <2>2 DEF TypeOK
  <2>4. QED BY <1>5, <2>2, <2>3, SignalAgentStep
<1>6. ASSUME NEW a \in Agents, WaitExpires(a) PROVE SignalInv' /\ SignalSteps
  <2>1. UNCHANGED <<counter, connected>>
    BY <1>6 DEF WaitExpires
  <2>2. CASE HandleCommand(a) /\ UNCHANGED last
    <3>1. SignalFrame(a) /\ SignalOK(a)' /\ last'[a] = last[a]
      BY <2>1, <2>2 DEF HandleCommand, EnterLLM, SignalFrame, SignalOK, SignalInv, TypeOK
    <3>2. QED BY <2>1, <3>1, SignalAgentStep
  <2>3. CASE LoopTop(a, last[a])
    BY <2>1, <2>3, <1>5
  <2>4. QED BY <1>6, <2>2, <2>3 DEF WaitExpires
<1>7. ASSUME NEW a \in Agents, LoopReturns(a), UNCHANGED <<counter, connected>>
      PROVE  SignalInv' /\ SignalSteps
  <2>1. SignalOK(a)
    BY DEF SignalInv
  <2>2. /\ SignalFrame(a) /\ SignalOK(a)'
        /\ \/ last' = [last EXCEPT ![a] = counter[a]]
           \/ last' = [last EXCEPT ![a] = last[a]]
    BY <1>7, <2>1, LoopReturnsSignal
  <2>3. last'[a] = counter[a] \/ last'[a] = last[a]
    BY <2>2 DEF TypeOK
  <2>4. QED BY <1>7, <2>2, <2>3, SignalAgentStep
<1>8. ASSUME NEW a \in Agents, NEW p \in Points \ {"asleep"},
             pc' = [pc EXCEPT ![a] = p],
             UNCHANGED <<last, counter, snapshot, event, connected>>
      PROVE  SignalInv' /\ SignalSteps
  BY <1>8 DEF SignalInv, SignalOK, SignalSteps, TypeOK
<1>9. ASSUME NEW a \in Agents, LLMCalls(a) \/ TurnTimeout(a)
      PROVE  SignalInv' /\ SignalSteps
  <2>1. /\ UNCHANGED <<last, counter, snapshot, event, connected>>
        /\ pc' = [pc EXCEPT ![a] = "tools"] \/ pc' = [pc EXCEPT ![a] = "ending"]
    BY <1>9 DEF LLMCalls, TurnTimeout
  <2>2. QED BY <2>1, <1>8 DEF Points
<1>10. ASSUME NEW a \in Agents, LLMStops(a) PROVE SignalInv' /\ SignalSteps
  BY <1>10, <1>7 DEF LLMStops
<1>11. ASSUME NEW a \in Agents, ToolsDone(a) PROVE SignalInv' /\ SignalSteps
  <2>1. CASE LoopReturns(a)
    BY <1>11, <2>1, <1>7 DEF ToolsDone
  <2>2. CASE ~LoopReturns(a)
    <3>1. /\ pc' = [pc EXCEPT ![a] = "llm"]
          /\ UNCHANGED <<last, counter, snapshot, event, connected>>
      BY <1>11, <2>2 DEF ToolsDone
    <3>2. QED BY <3>1, <1>8 DEF Points
  <2>3. QED BY <2>1, <2>2
<1>12. ASSUME NEW a \in Agents, EndSent(a) \/ LLMRaises(a)
       PROVE  SignalInv' /\ SignalSteps
  BY <1>12, <1>5 DEF EndSent, LLMRaises
<1>13. ASSUME NEW a \in Agents,
              RunTool(a) \/ SubmitCommand(a) \/ SrvPhaseDone(a) \/ Drop(a)
       PROVE  SignalInv' /\ SignalSteps
  <2>1. UNCHANGED <<last, counter, pc, snapshot, event, connected>>
    BY <1>13 DEF RunTool, SubmitCommand, SrvPhaseDone, Drop
  <2>2. QED BY <2>1, SignalIdle
<1>14. ASSUME SrvNewTurn \/ UNCHANGED vars PROVE SignalInv' /\ SignalSteps
  <2>1. UNCHANGED <<last, counter, pc, snapshot, event, connected>>
    BY <1>14 DEF SrvNewTurn, vars
  <2>2. QED BY <2>1, SignalIdle
<1>15. QED
  BY <1>1, <1>2, <1>3, <1>4, <1>6, <1>9, <1>10, <1>11, <1>12, <1>13, <1>14
  DEF Next, ClientStep, AgentStep, EnvStep

\* No wake-up is lost, whatever the agents, the server and the links do: an
\* agent asleep with a turn it has not taken has its event set.
THEOREM WakeupsAreKept == Spec => []NoLostWakeup
<1>1. TypeOK /\ SignalInv /\ [Next]_vars => SignalInv'
  BY SignalStep
<1>2. SignalInv => NoLostWakeup
  BY DEF SignalInv, SignalOK, NoLostWakeup
<1>3. QED BY <1>1, <1>2, SignalInit, TypeCorrect, PTL DEF Spec

\* Every agent's counter, last_counter and connection implement the safety part
\* of the abstract turn signal.
THEOREM SignalImplemented ==
  ASSUME NEW a \in Agents
  PROVE  Spec => Signal(a)!Safety
<1>1. Init => Signal(a)!Init
  BY DEF Init, Signal!Init
<1>2. TypeOK /\ SignalInv /\ [Next]_vars => [Signal(a)!Next]_(Signal(a)!vars)
  BY SignalStep DEF SignalSteps, Signal!vars
<1>3. TypeOK /\ SignalInv /\ [Next]_vars => SignalInv'
  BY SignalStep
<1>4. QED BY <1>1, <1>2, <1>3, SignalInit, TypeCorrect, PTL DEF Spec, Signal!Safety

-----------------------------------------------------------------------------
(* The packets between the server and the clients.                         *)


\* The order in which the server's packets follow one another.
Follows(p, q) ==
  \/ p.kind = "END_TURN" /\ q.kind = "GAME_INFO" /\ q.turn = p.turn + 1
  \/ p.kind = "GAME_INFO" /\ q.kind = "BEGIN_TURN" /\ q.turn = p.turn
  \/ p.kind = "BEGIN_TURN" /\ q.kind = "END_TURN" /\ q.turn = p.turn

\* What a client's state says of the next packet it is to receive.
Awaits(a, p) ==
  \/ /\ p.kind = "END_TURN" /\ phase[a] = "playing"
     /\ turn[a] = p.turn /\ counter[a] = p.turn
  \/ /\ p.kind = "GAME_INFO" /\ phase[a] # "playing"
     /\ turn[a] + 1 = p.turn /\ counter[a] = turn[a]
  \/ /\ p.kind = "BEGIN_TURN" /\ phase[a] # "playing"
     /\ turn[a] = p.turn /\ counter[a] + 1 = p.turn

\* The packets in transit, from the client's state to the server's: each follows
\* the one before, the first is the one the client awaits, and as long as the
\* socket is open the last one brings the client to the server's turn.
StreamOK(a) ==
  /\ turn[a] <= srvTurn
  /\ phase[a] = "playing" => counter[a] = turn[a]
  /\ \A i \in 1..Len(toClient[a]) : toClient[a][i].turn <= srvTurn
  /\ \A i \in 1..Len(toClient[a]) :
       i > 1 => Follows(toClient[a][i - 1], toClient[a][i])
  /\ Len(toClient[a]) > 0 => Awaits(a, toClient[a][1])
  /\ wsOpen[a] /\ Len(toClient[a]) > 0 =>
       /\ toClient[a][Len(toClient[a])].kind = "BEGIN_TURN"
       /\ toClient[a][Len(toClient[a])].turn = srvTurn
  /\ wsOpen[a] /\ Len(toClient[a]) = 0 =>
       phase[a] = "playing" /\ turn[a] = srvTurn /\ counter[a] = srvTurn

StreamInv == \A a \in Agents : StreamOK(a)

LEMMA StreamInit == Init => StreamInv
<1> SUFFICES ASSUME Init, NEW a \in Agents PROVE StreamOK(a)
  BY DEF StreamInv
<1> DEFINE s == <<Packet("GAME_INFO", 1), Packet("BEGIN_TURN", 1)>>
<1>1. /\ toClient[a] = s /\ phase[a] = "pregame" /\ turn[a] = 0
      /\ counter[a] = 0 /\ srvTurn = 1
  BY DEF Init
<1>2. /\ Len(s) = 2
      /\ s[1].kind = "GAME_INFO" /\ s[1].turn = 1
      /\ s[2].kind = "BEGIN_TURN" /\ s[2].turn = 1
  BY DEF Packet
<1> HIDE DEF s
<1>3. \A i \in 1..2 : i = 1 \/ i = 2
  OBVIOUS
<1>4. QED BY <1>1, <1>2, <1>3 DEF StreamOK, Follows, Awaits

\* Everything but the receive loop, the server's turn change and a drop leaves
\* the streams alone.
LEMMA StreamIdle ==
  ASSUME StreamInv, UNCHANGED <<wsOpen, phase, turn, counter, toClient, srvTurn>>
  PROVE  StreamInv'
BY DEF StreamInv, StreamOK, Follows, Awaits

\* The packets that remain once the first is received.
LEMMA TailStream ==
  ASSUME NEW s \in Seq(Packets), s # << >>
  PROVE  /\ Tail(s) \in Seq(Packets) /\ Len(Tail(s)) = Len(s) - 1
         /\ Len(s) \in Nat \ {0}
         /\ Head(s) = s[1] /\ s[1] \in Packets
         /\ \A i \in 1..Len(Tail(s)) : Tail(s)[i] = s[i + 1]
OBVIOUS

LEMMA StreamRecv ==
  ASSUME TypeOK, StreamInv, NEW a \in Agents, Recv(a)
  PROVE  StreamInv'
<1> DEFINE s == toClient[a]
           pkt == s[1]
<1>1. s \in Seq(Packets) /\ s # << >>
  BY DEF Recv, TypeOK
<1>2. /\ Len(Tail(s)) = Len(s) - 1 /\ Len(s) \in Nat \ {0}
      /\ Head(s) = pkt /\ pkt \in Packets
      /\ \A i \in 1..Len(Tail(s)) : Tail(s)[i] = s[i + 1]
  BY <1>1, TailStream
<1>3. /\ toClient' = [toClient EXCEPT ![a] = Tail(s)]
      /\ UNCHANGED <<wsOpen, srvTurn>>
      /\ OnGameInfo(a, pkt) \/ OnBeginTurn(a, pkt) \/ OnEndTurn(a, pkt)
  BY <1>2 DEF Recv, serverVars
<1>4. toClient'[a] = Tail(s)
  BY <1>3 DEF TypeOK
<1>5. ASSUME NEW b \in Agents, b # a PROVE StreamOK(b)'
  <2>1. UNCHANGED <<toClient[b], phase[b], turn[b], counter[b]>>
    BY <1>3, <1>5 DEF OnGameInfo, OnBeginTurn, OnEndTurn, TypeOK
  <2>2. QED BY <2>1, <1>3 DEF StreamInv, StreamOK, Follows, Awaits
<1>6. StreamOK(a) /\ Awaits(a, pkt) /\ pkt.turn <= srvTurn /\ pkt.turn \in Nat
  BY <1>2 DEF StreamInv, StreamOK, Packets
<1>7. \A i \in 1..Len(Tail(s)) : i + 1 \in 1..Len(s) /\ i + 1 > 1
  BY <1>2
<1>8. \A i \in 1..Len(Tail(s)) : toClient'[a][i].turn <= srvTurn'
  BY <1>2, <1>3, <1>4, <1>6, <1>7 DEF StreamOK
<1>9. \A i \in 1..Len(Tail(s)) :
        i > 1 => Follows(toClient'[a][i - 1], toClient'[a][i])
  <2> SUFFICES ASSUME NEW i \in 1..Len(Tail(s)), i > 1
               PROVE Follows(Tail(s)[i - 1], Tail(s)[i])
    BY <1>4
  <2>1. Tail(s)[i - 1] = s[i] /\ Tail(s)[i] = s[i + 1] /\ i - 1 \in 1..Len(Tail(s))
    BY <1>2
  <2>2. Follows(s[i], s[i + 1])
    BY <1>6, <1>7, <1>2 DEF StreamOK
  <2>3. QED BY <2>1, <2>2
<1>10. Len(Tail(s)) > 0 => Tail(s)[1] = s[2] /\ Follows(pkt, s[2])
  BY <1>2, <1>6 DEF StreamOK
<1>11. /\ turn[a] \in Nat /\ counter[a] \in Nat /\ srvTurn \in Nat
       /\ phase' \in [Agents -> Phases] => phase'[a] \in Phases
  BY DEF TypeOK
<1>12. /\ turn'[a] <= srvTurn'
       /\ phase'[a] = "playing" => counter'[a] = turn'[a]
       /\ Len(Tail(s)) > 0 => Awaits(a, toClient[a][1])'
       /\ Len(Tail(s)) = 0 /\ pkt.kind = "BEGIN_TURN" =>
            phase'[a] = "playing" /\ turn'[a] = pkt.turn /\ counter'[a] = pkt.turn
  <2>1. CASE OnGameInfo(a, pkt)
    <3>1. turn'[a] = pkt.turn /\ phase'[a] = phase[a] /\ counter'[a] = counter[a]
          /\ pkt.kind = "GAME_INFO"
      BY <2>1 DEF OnGameInfo, TypeOK
    <3>2. QED BY <3>1, <1>3, <1>4, <1>6, <1>10, <1>11 DEF Awaits, Follows
  <2>2. CASE OnBeginTurn(a, pkt)
    <3>1. turn'[a] = turn[a] /\ phase'[a] = "playing" /\ counter'[a] = counter[a] + 1
          /\ pkt.kind = "BEGIN_TURN"
      BY <2>2 DEF OnBeginTurn, TypeOK
    <3>2. QED BY <3>1, <1>3, <1>4, <1>6, <1>10, <1>11 DEF Awaits, Follows
  <2>3. CASE OnEndTurn(a, pkt)
    <3>1. turn'[a] = turn[a] /\ phase'[a] = "waiting" /\ counter'[a] = counter[a]
          /\ pkt.kind = "END_TURN"
      BY <2>3 DEF OnEndTurn, TypeOK
    <3>2. QED BY <3>1, <1>3, <1>4, <1>6, <1>10, <1>11 DEF Awaits, Follows
  <2>4. QED BY <1>3, <2>1, <2>2, <2>3
<1>13. wsOpen[a] => /\ s[Len(s)].kind = "BEGIN_TURN" /\ s[Len(s)].turn = srvTurn
                    /\ Len(Tail(s)) > 0 => Tail(s)[Len(Tail(s))] = s[Len(s)]
  BY <1>2, <1>6 DEF StreamOK
<1>14. StreamOK(a)'
  <2>1. wsOpen'[a] /\ Len(Tail(s)) > 0 =>
          /\ toClient'[a][Len(Tail(s))].kind = "BEGIN_TURN"
          /\ toClient'[a][Len(Tail(s))].turn = srvTurn'
    BY <1>3, <1>4, <1>13
  <2>2. wsOpen'[a] /\ Len(Tail(s)) = 0 =>
          phase'[a] = "playing" /\ turn'[a] = srvTurn' /\ counter'[a] = srvTurn'
    <3>1. Len(Tail(s)) = 0 => pkt = s[Len(s)]
      BY <1>2
    <3>2. QED BY <3>1, <1>3, <1>12, <1>13
  <2> HIDE DEF s, pkt
  <2>3. Len(toClient'[a]) = Len(Tail(s)) /\ 1..Len(toClient'[a]) = 1..Len(Tail(s))
    BY <1>4
  <2>4. QED BY <1>8, <1>9, <1>12, <2>1, <2>2, <2>3 DEF StreamOK
<1>15. QED BY <1>5, <1>14 DEF StreamInv

\* A turn change appended to a stream.
LEMMA AppendedStream ==
  ASSUME NEW s \in Seq(Packets), NEW n \in Nat
  PROVE  /\ s \o TurnChange(n) \in Seq(Packets)
         /\ Len(s \o TurnChange(n)) = Len(s) + 3 /\ Len(s) \in Nat
         /\ \A i \in 1..Len(s) : (s \o TurnChange(n))[i] = s[i]
         /\ (s \o TurnChange(n))[Len(s) + 1] = Packet("END_TURN", n)
         /\ (s \o TurnChange(n))[Len(s) + 2] = Packet("GAME_INFO", n + 1)
         /\ (s \o TurnChange(n))[Len(s) + 3] = Packet("BEGIN_TURN", n + 1)
<1> DEFINE t == TurnChange(n)
<1>1. t \in Seq(Packets) /\ Len(t) = 3
      /\ t[1] = Packet("END_TURN", n) /\ t[2] = Packet("GAME_INFO", n + 1)
      /\ t[3] = Packet("BEGIN_TURN", n + 1)
  BY DEF TurnChange, Packet, Packets, Kinds
<1> HIDE DEF t
<1>2. /\ s \o t \in Seq(Packets) /\ Len(s \o t) = Len(s) + 3 /\ Len(s) \in Nat
      /\ \A i \in 1..Len(s) + 3 :
           (s \o t)[i] = IF i <= Len(s) THEN s[i] ELSE t[i - Len(s)]
  BY <1>1, ConcatProperties
<1>3. \A i \in 1..Len(s) : (s \o t)[i] = s[i]
  BY <1>2
<1>4. \A j \in 1..3 : (s \o t)[Len(s) + j] = t[j]
  <2> TAKE j \in 1..3
  <2>1. Len(s) + j \in 1..Len(s) + 3 /\ ~(Len(s) + j <= Len(s))
        /\ (Len(s) + j) - Len(s) = j
    BY <1>2
  <2>2. QED BY <1>2, <2>1
<1>5. QED BY <1>1, <1>2, <1>3, <1>4 DEF t

LEMMA StreamNewTurn ==
  ASSUME TypeOK, StreamInv, SrvNewTurn
  PROVE  StreamInv'
<1> SUFFICES ASSUME NEW a \in Agents PROVE StreamOK(a)'
  BY DEF StreamInv
<1> DEFINE s == toClient[a]
           n == srvTurn
           x == s \o TurnChange(n)
<1>1. /\ UNCHANGED <<wsOpen, phase, turn, counter>> /\ srvTurn' = n + 1
      /\ wsOpen[a] => toClient'[a] = x
      /\ ~wsOpen[a] => toClient'[a] = s
  BY DEF SrvNewTurn, clientVars
<1>2. s \in Seq(Packets) /\ n \in Nat /\ turn[a] \in Nat /\ counter[a] \in Nat
  BY DEF TypeOK
<1>3. StreamOK(a)
  BY DEF StreamInv
<1>4. /\ Len(x) = Len(s) + 3 /\ Len(s) \in Nat
      /\ \A i \in 1..Len(s) : x[i] = s[i]
      /\ x[Len(s) + 1] = Packet("END_TURN", n)
      /\ x[Len(s) + 2] = Packet("GAME_INFO", n + 1)
      /\ x[Len(s) + 3] = Packet("BEGIN_TURN", n + 1)
  BY <1>2, AppendedStream
<1>5. \A i \in 1..Len(s) : s[i].turn \in Nat
  <2>1. \A i \in 1..Len(s) : s[i] \in Packets
    BY <1>2
  <2>2. QED BY <2>1 DEF Packets
<1> HIDE DEF s, n, x
<1>6. CASE ~wsOpen[a]
  <2>1. toClient'[a] = toClient[a]
    BY <1>1, <1>6 DEF s
  <2>2. \A i \in 1..Len(toClient[a]) : toClient[a][i].turn <= n + 1
    BY <1>2, <1>3, <1>5 DEF StreamOK, s, n
  <2>3. turn[a] <= n + 1
    BY <1>2, <1>3 DEF StreamOK, n
  <2>4. /\ UNCHANGED <<toClient[a], wsOpen[a], phase[a], turn[a], counter[a]>>
        /\ srvTurn' = n + 1
    BY <1>1, <2>1
  <2>5. QED BY <1>3, <1>6, <2>2, <2>3, <2>4 DEF StreamOK, Awaits, Follows
<1>7. CASE wsOpen[a]
  <2>1. toClient'[a] = x
    BY <1>1, <1>7
  <2>2. \A i \in 1..Len(x) : \/ i \in 1..Len(s)
                             \/ i = Len(s) + 1 \/ i = Len(s) + 2 \/ i = Len(s) + 3
    BY <1>4
  <2>3. /\ x[Len(s) + 1].kind = "END_TURN" /\ x[Len(s) + 1].turn = n
        /\ x[Len(s) + 2].kind = "GAME_INFO" /\ x[Len(s) + 2].turn = n + 1
        /\ x[Len(s) + 3].kind = "BEGIN_TURN" /\ x[Len(s) + 3].turn = n + 1
    BY <1>4 DEF Packet
  <2>4. ASSUME NEW i \in 1..Len(x) PROVE x[i].turn <= n + 1
    <3>1. CASE i \in 1..Len(s)
      <4>1. s[i].turn <= n
        BY <1>3, <3>1 DEF StreamOK, s, n
      <4>2. QED BY <4>1, <3>1, <1>2, <1>4, <1>5
    <3>2. CASE i \notin 1..Len(s)
      BY <3>2, <2>2, <2>3, <1>2
    <3>3. QED BY <3>1, <3>2
  <2>5. Len(s) > 0 => s[Len(s)].kind = "BEGIN_TURN" /\ s[Len(s)].turn = n
    BY <1>3, <1>7 DEF StreamOK, s, n
  <2>6. ASSUME NEW i \in 1..Len(x), i > 1 PROVE Follows(x[i - 1], x[i])
    <3>1. CASE i \in 1..Len(s)
      <4>1. Follows(s[i - 1], s[i]) /\ i - 1 \in 1..Len(s)
        BY <1>3, <1>4, <2>6, <3>1 DEF StreamOK, s
      <4>2. QED BY <4>1, <3>1, <1>4
    <3>2. CASE i = Len(s) + 1
      <4>1. Len(s) > 0 /\ x[i - 1] = s[Len(s)] /\ Len(s) \in 1..Len(s)
        BY <3>2, <2>6, <1>4
      <4>2. QED BY <4>1, <3>2, <2>3, <2>5 DEF Follows
    <3>3. CASE i = Len(s) + 2
      <4>1. i - 1 = Len(s) + 1
        BY <3>3, <1>4
      <4>2. QED BY <4>1, <3>3, <2>3 DEF Follows
    <3>4. CASE i = Len(s) + 3
      <4>1. i - 1 = Len(s) + 2
        BY <3>4, <1>4
      <4>2. QED BY <4>1, <3>4, <2>3 DEF Follows
    <3>5. QED BY <2>2, <3>1, <3>2, <3>3, <3>4
  <2>7. Awaits(a, x[1])
    <3>1. CASE Len(s) > 0
      <4>1. Awaits(a, s[1]) /\ x[1] = s[1]
        BY <1>3, <1>4, <3>1 DEF StreamOK, s
      <4>2. QED BY <4>1
    <3>2. CASE Len(s) = 0
      <4>1. phase[a] = "playing" /\ turn[a] = n /\ counter[a] = n
        BY <1>3, <1>7, <3>2 DEF StreamOK, s, n
      <4>2. QED BY <4>1, <2>3, <3>2 DEF Awaits
    <3>3. QED BY <3>1, <3>2, <1>4
  <2>8. QED
    BY <1>1, <1>2, <1>3, <1>4, <2>1, <2>3, <2>4, <2>6, <2>7 DEF StreamOK, n, Awaits
<1>8. QED BY <1>6, <1>7

LEMMA StreamDrop ==
  ASSUME TypeOK, StreamInv, NEW a \in Agents, Drop(a)
  PROVE  StreamInv'
<1>1. PICK n \in 0..Len(toClient[a]) :
             toClient' = [toClient EXCEPT ![a] = SubSeq(@, 1, n)]
  BY DEF Drop
<1>2. /\ UNCHANGED <<phase, turn, counter, srvTurn>>
      /\ wsOpen' = [wsOpen EXCEPT ![a] = FALSE]
  BY DEF Drop, serverVars
<1>3. ASSUME NEW b \in Agents, b # a PROVE StreamOK(b)'
  <2>1. UNCHANGED <<toClient[b], wsOpen[b]>>
    BY <1>1, <1>2, <1>3 DEF TypeOK
  <2>2. QED BY <2>1, <1>2 DEF StreamInv, StreamOK, Follows, Awaits
<1>4. StreamOK(a)'
  <2> DEFINE s == toClient[a]
             p == SubSeq(s, 1, n)
  <2>1. s \in Seq(Packets) /\ n \in 0..Len(s) /\ n \in Nat
    BY DEF TypeOK
  <2>2. Len(p) = n /\ \A i \in 1..n : p[i] = s[i] /\ i \in 1..Len(s)
    BY <2>1
  <2>3. toClient'[a] = p /\ ~wsOpen'[a]
    BY <1>1, <1>2 DEF TypeOK
  <2>4. StreamOK(a)
    BY DEF StreamInv
  <2> HIDE DEF p
  <2>5. \A i \in 1..n : i > 1 => Follows(p[i - 1], p[i])
    <3> SUFFICES ASSUME NEW i \in 1..n, i > 1 PROVE Follows(p[i - 1], p[i])
      OBVIOUS
    <3>1. i - 1 \in 1..n /\ p[i - 1] = s[i - 1] /\ p[i] = s[i]
      BY <2>1, <2>2
    <3>2. QED BY <3>1, <2>2, <2>4 DEF StreamOK
  <2>6. n > 0 => p[1] = s[1] /\ Awaits(a, p[1])
    BY <2>1, <2>2, <2>4 DEF StreamOK
  <2>7. QED BY <1>2, <2>2, <2>3, <2>4, <2>5, <2>6 DEF StreamOK, Awaits
<1>5. QED BY <1>3, <1>4 DEF StreamInv


LEMMA StreamStep ==
  ASSUME TypeOK, StreamInv, [Next]_vars
  PROVE  StreamInv'
<1> USE DEF clientVars, loopVars, llmVars, commandVars, serverVars
<1>1. ASSUME NEW a \in Agents,
             \/ RecvEnd(a) \/ Start(a) \/ Wake(a) \/ Poll(a) \/ WaitExpires(a)
             \/ LLMCalls(a) \/ LLMStops(a) \/ LLMRaises(a) \/ RunTool(a) \/ ToolsDone(a)
             \/ TurnTimeout(a) \/ EndSent(a) \/ SubmitCommand(a) \/ SrvPhaseDone(a)
      PROVE  StreamInv'
  <2>1. UNCHANGED <<wsOpen, phase, turn, counter, toClient, srvTurn>>
    BY <1>1 DEF RecvEnd, Start, Wake, Poll, WaitExpires, LLMCalls, LLMStops, LLMRaises,
                RunTool, ToolsDone, TurnTimeout, EndSent, SubmitCommand, SrvPhaseDone
  <2>2. QED BY <2>1, StreamIdle
<1>2. CASE UNCHANGED vars
  BY <1>2, StreamIdle DEF vars
<1>3. QED
  BY <1>1, <1>2, StreamRecv, StreamDrop, StreamNewTurn
  DEF Next, ClientStep, AgentStep, EnvStep

\* While a client is in phase "playing", the turns it counted (BEGIN_TURN) are
\* the turn it would end (GAME_INFO), whatever was lost with the connection.
THEOREM PlayingCurrent == Spec => []PlayingIsCurrent
<1>1. TypeOK /\ StreamInv /\ [Next]_vars => StreamInv'
  BY StreamStep
<1>2. StreamInv => PlayingIsCurrent
  BY DEF StreamInv, StreamOK, PlayingIsCurrent
<1>3. QED BY <1>1, <1>2, StreamInit, TypeCorrect, PTL DEF Spec

-----------------------------------------------------------------------------
(* The packets to the server.                                              *)

\* A non-decreasing sequence of turns none of which is past m.
UpTo(s, m) == \A i \in 1..Len(s) : s[i] <= m /\ \A j \in 1..i : s[j] <= s[i]

SendInv == \A a \in Agents : UpTo(toServer[a], turn[a])

LEMMA UpToAppend ==
  ASSUME NEW s \in Seq(Nat), NEW m \in Nat, UpTo(s, m)
  PROVE  UpTo(Append(s, m), m)
<1>1. /\ Len(Append(s, m)) = Len(s) + 1 /\ Len(s) \in Nat
      /\ Append(s, m)[Len(s) + 1] = m
      /\ \A i \in 1..Len(s) : Append(s, m)[i] = s[i] /\ s[i] \in Nat
  OBVIOUS
<1>2. \A i \in 1..Len(s) + 1 : i \in 1..Len(s) \/ i = Len(s) + 1
  BY <1>1
<1>3. QED BY <1>1, <1>2 DEF UpTo

LEMMA UpToTail ==
  ASSUME NEW s \in Seq(Nat), NEW m \in Nat, UpTo(s, m), s # << >>
  PROVE  UpTo(Tail(s), m)
<1>1. /\ Len(Tail(s)) = Len(s) - 1 /\ Len(s) \in Nat
      /\ \A i \in 1..Len(s) - 1 : Tail(s)[i] = s[i + 1] /\ i + 1 \in 1..Len(s)
  OBVIOUS
<1>2. \A i \in 1..Len(s) - 1 : \A j \in 1..i :
        j \in 1..Len(s) - 1 /\ j + 1 \in 1..i + 1
  BY <1>1
<1>3. QED BY <1>1, <1>2 DEF UpTo

LEMMA UpToMore ==
  ASSUME NEW s \in Seq(Nat), NEW m \in Nat, NEW n \in Nat, UpTo(s, m), m <= n
  PROVE  UpTo(s, n)
<1>1. \A i \in 1..Len(s) : s[i] \in Nat
  OBVIOUS
<1>2. QED BY <1>1 DEF UpTo

LEMMA SendInit == Init => SendInv
<1> SUFFICES ASSUME Init, NEW a \in Agents PROVE UpTo(toServer[a], turn[a])
  BY DEF SendInv
<1>1. toServer[a] = << >> /\ Len(toServer[a]) = 0
  BY DEF Init
<1>2. QED BY <1>1 DEF UpTo

\* end_turn appends the client's turn to what it sent before.
LEMMA SendKeeps ==
  ASSUME TypeOK, SendInv, NEW a \in Agents, UNCHANGED turn,
         SendPhaseDone(a) \/ UNCHANGED toServer
  PROVE  SendInv'
<1> SUFFICES ASSUME NEW b \in Agents PROVE UpTo(toServer'[b], turn[b])
  BY DEF SendInv
<1>1. UpTo(toServer[b], turn[b]) /\ toServer[b] \in Seq(Nat) /\ turn[b] \in Nat
  BY DEF SendInv, TypeOK
<1>2. toServer'[b] = toServer[b] \/ toServer'[b] = Append(toServer[b], turn[b])
  BY DEF SendPhaseDone, TypeOK
<1>3. QED BY <1>1, <1>2, UpToAppend

LEMMA SendStep ==
  ASSUME TypeOK, StreamInv, SendInv, [Next]_vars
  PROVE  SendInv'
<1> USE DEF clientVars, loopVars, llmVars, commandVars, serverVars
<1>1. ASSUME NEW a \in Agents, Recv(a) PROVE SendInv'
  <2>1. UNCHANGED toServer /\ toClient[a] # << >>
    BY <1>1 DEF Recv
  <2>2. /\ Len(toClient[a]) > 0 /\ Head(toClient[a]) = toClient[a][1]
        /\ toClient[a][1].turn \in Nat /\ Awaits(a, toClient[a][1])
    <3>1. toClient[a] \in Seq(Packets)
      BY DEF TypeOK
    <3>2. Head(toClient[a]) = toClient[a][1] /\ toClient[a][1] \in Packets
          /\ Len(toClient[a]) > 0
      BY <2>1, <3>1, TailStream
    <3>3. QED BY <3>2 DEF StreamInv, StreamOK, Packets
  <2>3. ASSUME NEW b \in Agents PROVE turn[b] <= turn'[b] /\ turn'[b] \in Nat
    <3>1. CASE turn' = turn
      BY <3>1 DEF TypeOK
    <3>2. CASE OnGameInfo(a, toClient[a][1])
      <4>1. turn[a] + 1 = toClient[a][1].turn
        BY <2>2, <3>2 DEF OnGameInfo, Awaits
      <4>2. turn' = [turn EXCEPT ![a] = toClient[a][1].turn]
        BY <3>2 DEF OnGameInfo
      <4>3. turn[a] \in Nat /\ turn[b] \in Nat /\ turn \in [Agents -> Nat]
        BY DEF TypeOK
      <4>4. turn'[b] = turn[b] \/ (turn'[b] = turn[b] + 1 /\ b = a)
        BY <4>1, <4>2, <4>3
      <4>5. QED BY <4>3, <4>4
    <3>3. QED BY <1>1, <2>2, <3>1, <3>2 DEF Recv, OnBeginTurn, OnEndTurn
  <2>4. ASSUME NEW b \in Agents PROVE UpTo(toServer[b], turn'[b])
    BY <2>3, UpToMore DEF SendInv, TypeOK
  <2>5. QED BY <2>1, <2>4 DEF SendInv
<1>2. ASSUME NEW a \in Agents,
             \/ RecvEnd(a) \/ Start(a) \/ Wake(a) \/ Poll(a) \/ WaitExpires(a)
             \/ LLMCalls(a) \/ LLMStops(a) \/ LLMRaises(a) \/ RunTool(a) \/ ToolsDone(a)
             \/ TurnTimeout(a) \/ EndSent(a) \/ SubmitCommand(a)
      PROVE  SendInv'
  <2>1. UNCHANGED turn
    BY <1>2 DEF RecvEnd, Start, Wake, Poll, WaitExpires, LLMCalls, LLMStops, LLMRaises,
                RunTool, ToolsDone, TurnTimeout, EndSent, SubmitCommand
  <2>2. SendPhaseDone(a) \/ UNCHANGED toServer
    BY <1>2 DEF RecvEnd, Start, Wake, Poll, WaitExpires, LLMCalls, LLMStops, LLMRaises,
                LoopReturns, RunTool, ToolsDone, TurnTimeout, EndSent, SubmitCommand
  <2>3. QED BY <2>1, <2>2, SendKeeps
<1>3. ASSUME NEW a \in Agents, SrvPhaseDone(a) PROVE SendInv'
  <2>1. UNCHANGED turn /\ toServer[a] # << >>
        /\ toServer' = [toServer EXCEPT ![a] = Tail(@)]
    BY <1>3 DEF SrvPhaseDone
  <2>2. ASSUME NEW b \in Agents PROVE UpTo(toServer'[b], turn[b])
    <3>1. toServer'[b] = toServer[b] \/ (b = a /\ toServer'[b] = Tail(toServer[b]))
      BY <2>1 DEF TypeOK
    <3>2. UpTo(toServer[b], turn[b]) /\ toServer[b] \in Seq(Nat) /\ turn[b] \in Nat
      BY DEF SendInv, TypeOK
    <3>3. b = a => toServer[b] # << >>
      BY <2>1
    <3>4. QED BY <3>1, <3>2, <3>3, UpToTail
  <2>3. QED BY <2>1, <2>2 DEF SendInv
<1>4. ASSUME NEW a \in Agents, Drop(a) PROVE SendInv'
  <2>1. UNCHANGED turn /\ toServer' = [toServer EXCEPT ![a] = << >>]
    BY <1>4 DEF Drop
  <2>2. ASSUME NEW b \in Agents PROVE UpTo(toServer'[b], turn[b])
    <3>1. toServer'[b] = toServer[b] \/ toServer'[b] = << >>
      BY <2>1 DEF TypeOK
    <3>2. UpTo(<< >>, turn[b])
      BY DEF UpTo
    <3>3. QED BY <3>1, <3>2 DEF SendInv
  <2>3. QED BY <2>1, <2>2 DEF SendInv
<1>5. CASE SrvNewTurn \/ UNCHANGED vars
  <2>1. UNCHANGED <<turn, toServer>>
    BY <1>5 DEF SrvNewTurn, vars
  <2>2. QED BY <2>1 DEF SendInv, UpTo
<1>6. QED
  BY <1>1, <1>2, <1>3, <1>4, <1>5 DEF Next, ClientStep, AgentStep, EnvStep

\* No PHASE_DONE on its way names a turn its client or the server has not begun,
\* and no agent's PHASE_DONE packets go back in turn.
THEOREM PhaseDoneBounded == Spec => []PhaseDoneNeverAhead
<1>1. TypeOK /\ StreamInv /\ [Next]_vars => StreamInv'
  BY StreamStep
<1>2. TypeOK /\ StreamInv /\ SendInv /\ [Next]_vars => SendInv'
  BY SendStep
<1>3. TypeOK /\ StreamInv /\ SendInv => PhaseDoneNeverAhead
  <2> SUFFICES ASSUME TypeOK, StreamInv, SendInv, NEW a \in Agents,
                      NEW i \in 1..Len(toServer[a])
               PROVE  /\ toServer[a][i] <= srvTurn
                      /\ toServer[a][i] <= turn[a]
                      /\ \A j \in 1..i : toServer[a][j] <= toServer[a][i]
    BY DEF PhaseDoneNeverAhead
  <2>1. toServer[a][i] \in Nat /\ turn[a] \in Nat /\ srvTurn \in Nat
    BY DEF TypeOK
  <2>2. turn[a] <= srvTurn /\ UpTo(toServer[a], turn[a])
    BY DEF StreamInv, StreamOK, SendInv
  <2>3. QED BY <2>1, <2>2 DEF UpTo
<1>4. QED BY <1>1, <1>2, <1>3, StreamInit, SendInit, TypeCorrect, PTL DEF Spec

-----------------------------------------------------------------------------
(* The commands of the user.                                               *)

\* The last command in the queue is the last one submitted.
QueueOK(a) == queue[a] # << >> => queue[a][Len(queue[a])] = submitted[a]

QueueInv == \A a \in Agents : QueueOK(a)

\* The newest command is taken and the others are discarded.
Takes(a) ==
  /\ queue[a] # << >>
  /\ queue' = [queue EXCEPT ![a] = << >>]
  /\ handled' = [handled EXCEPT ![a] = @ \cup {queue[a][Len(queue[a])]}]

Leaves == UNCHANGED <<queue, handled>>

LEMMA LoopTopCommands ==
  ASSUME NEW a \in Agents, NEW l, LoopTop(a, l)
  PROVE  Takes(a) \/ Leaves
BY DEF LoopTop, Exit, TakeTurn, HandleCommand, AutonomousTurn, Sleep, Takes, Leaves

LEMMA WaitResumesCommands ==
  ASSUME NEW a \in Agents, WaitResumes(a)
  PROVE  Takes(a) \/ Leaves
BY DEF WaitResumes, Exit, TakeTurn, HandleCommand, AutonomousTurn, Sleep, Takes, Leaves

LEMMA LoopReturnsCommands ==
  ASSUME NEW a \in Agents, LoopReturns(a)
  PROVE  Takes(a) \/ Leaves
BY LoopTopCommands DEF LoopReturns, Leaves

\* Every step of the game loop takes the newest command, or none.
LEMMA AgentCommands ==
  ASSUME NEW a \in Agents, AgentStep(a)
  PROVE  /\ Takes(a) \/ Leaves
         /\ UNCHANGED submitted
<1> USE DEF commandVars
<1>1. CASE Start(a)
  BY <1>1, LoopTopCommands DEF Start, AutonomousTurn, Leaves
<1>2. CASE Wake(a) \/ Poll(a)
  BY <1>2, WaitResumesCommands DEF Wake, Poll
<1>3. CASE WaitExpires(a)
  BY <1>3, LoopTopCommands DEF WaitExpires, HandleCommand, Takes
<1>4. CASE LLMCalls(a)
  BY <1>4 DEF LLMCalls, Leaves
<1>5. CASE LLMStops(a)
  BY <1>5, LoopReturnsCommands DEF LLMStops
<1>6. CASE RunTool(a)
  BY <1>6 DEF RunTool, Leaves
<1>7. CASE ToolsDone(a)
  BY <1>7, LoopReturnsCommands DEF ToolsDone, Leaves
<1>8. CASE TurnTimeout(a)
  BY <1>8 DEF TurnTimeout, Leaves
<1>9. CASE EndSent(a) \/ LLMRaises(a)
  BY <1>9, LoopTopCommands DEF EndSent, LLMRaises
<1> QED
  BY <1>1, <1>2, <1>3, <1>4, <1>5, <1>6, <1>7, <1>8, <1>9 DEF AgentStep

\* What a step does to the commands of every agent.
CommandStep(b) ==
  \/ UNCHANGED <<queue[b], handled[b], submitted[b]>>
  \/ /\ queue[b] # << >> /\ queue'[b] = << >>
     /\ handled'[b] = handled[b] \cup {queue[b][Len(queue[b])]}
     /\ submitted'[b] = submitted[b]
  \/ /\ submitted'[b] = submitted[b] + 1
     /\ queue'[b] = Append(queue[b], submitted[b] + 1)
     /\ handled'[b] = handled[b]

LEMMA NextCommands ==
  ASSUME TypeOK, [Next]_vars, NEW b \in Agents
  PROVE  CommandStep(b)
<1> USE DEF commandVars, CommandStep
<1>1. ASSUME NEW a \in Agents, AgentStep(a) PROVE CommandStep(b)
  <2>1. CASE Takes(a) /\ UNCHANGED submitted
    BY <2>1 DEF Takes, TypeOK
  <2>2. CASE Leaves /\ UNCHANGED submitted
    BY <2>2 DEF Leaves
  <2> QED
    BY <1>1, <2>1, <2>2, AgentCommands
<1>2. ASSUME NEW a \in Agents, SubmitCommand(a) PROVE CommandStep(b)
  BY <1>2 DEF SubmitCommand, TypeOK
<1>3. ASSUME NEW a \in Agents, ClientStep(a) \/ SrvPhaseDone(a) \/ Drop(a)
      PROVE  CommandStep(b)
  BY <1>3 DEF ClientStep, Recv, RecvEnd, SrvPhaseDone, Drop
<1>4. CASE SrvNewTurn
  BY <1>4 DEF SrvNewTurn
<1>5. CASE UNCHANGED vars
  BY <1>5 DEF vars
<1> QED
  BY <1>1, <1>2, <1>3, <1>4, <1>5 DEF Next, EnvStep

LEMMA QueueStep ==
  ASSUME TypeOK, QueueInv, [Next]_vars
  PROVE  QueueInv'
<1> SUFFICES ASSUME NEW b \in Agents PROVE QueueOK(b)'
  BY DEF QueueInv
<1>1. CommandStep(b) /\ QueueOK(b)
  BY NextCommands DEF QueueInv
<1>2. CASE queue'[b] = Append(queue[b], submitted[b] + 1) /\ submitted'[b] = submitted[b] + 1
  <2>1. queue[b] \in Seq(Nat) /\ submitted[b] + 1 \in Nat
    BY DEF TypeOK
  <2>2. Len(queue'[b]) = Len(queue[b]) + 1
        /\ queue'[b][Len(queue[b]) + 1] = submitted[b] + 1
    BY <1>2, <2>1
  <2> QED
    BY <1>2, <2>2 DEF QueueOK
<1> QED
  BY <1>1, <1>2 DEF CommandStep, QueueOK

\* Whenever an agent takes up a command, it is the one submitted last: nothing
\* newer is left in the queue (_drain_command).
THEOREM NewestIsTaken == Spec => NewestCommandWins
<1>1. Init => QueueInv
  BY DEF Init, QueueInv, QueueOK
<1>2. ASSUME TypeOK, QueueInv, [Next]_vars, NEW a \in Agents, handled'[a] # handled[a]
      PROVE  submitted[a] \in handled'[a]
  BY <1>2, NextCommands DEF CommandStep, QueueInv, QueueOK
<1>3. TypeOK /\ QueueInv /\ [Next]_vars =>
        \A a \in Agents : handled'[a] # handled[a] => submitted[a] \in handled'[a]
  BY <1>2
<1> QED
  BY <1>1, <1>3, QueueStep, TypeCorrect, PTL DEF Spec, NewestCommandWins
=============================================================================
