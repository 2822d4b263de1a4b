---------------------------- MODULE Orchestrator ----------------------------
(***************************************************************************)
(* The game a server process runs for its API (server.py): AgentOrchestra- *)
(* tor and the part of ServerManager it uses.  POST /game/create replaces  *)
(* the running game by a new one, in a dozen steps parted by awaits; DELETE*)
(* /game shuts it down.  Every request is a task: requests interleave at   *)
(* their awaits, and share the orchestrator's fields without a lock.       *)
(*                                                                         *)
(* A dict that has another size when its iteration resumes raises; one that*)
(* has the same goes on to a name it has not come to, in an order that does*)
(* not matter here.  The number of a request stands for the port of the    *)
(* server it spawns.  A request may name an agent twice: nothing here tests*)
(* for it.                                                                 *)
(***************************************************************************)
EXTENDS Naturals, Sequences, FiniteSets

CONSTANTS
  Names,        \* names of agents
  Configs,      \* the lists of agents a request to create a game may hold
  MaxRequests,  \* bound: requests to create or delete a game
  AtOnce        \* bound: requests under way at a time

ASSUME OrchestratorAssumption ==
  /\ IsFiniteSet(Names)
  /\ MaxRequests \in Nat /\ AtOnce \in Nat
  /\ \A cfg \in Configs : cfg \in Seq(Names) /\ cfg # << >>

VARIABLES
  clients,     \* clients: the GameClient of a name, or NoClient
  agents,      \* agents: the GameClient of the agent of that name, or NoClient
  serverPort,  \* server_port
  servers,     \* ServerManager._servers, by port
  open,        \* GameClients whose WebSocket is open
  loops,       \* the tasks of _tasks that run a game loop
  req,         \* the requests, a record each (see Request)
  orderly      \* history: have the callers kept to the rules of Orderly?

gameVars == <<clients, agents, serverPort, servers, open>>
vars     == <<gameVars, loops, req, orderly>>

Requests == 1..MaxRequests
NoPort   == 0                \* -1 in the code
Given    == MaxRequests + 1  \* the server_port a request may hold
Ports    == 0..Given

\* A GameClient: the request that made it, for which agent of its list, whether its
\* name does not come again in that list, and the port it was told to join.
Client   == [by : Nat, k : Nat, last : BOOLEAN, port : Ports]
NoClient == [by |-> 0, k |-> 0, last |-> FALSE, port |-> NoPort]

\* A task: the request that started it, and the client its agent plays with.
Task == [by : Requests, client : Client]

Points == {"idle", "agents", "clients", "spawned", "joining", "joined",
           "settings", "greeting", "waiting", "ok", "failed"}

Request == [
  pc   : Points,            \* where its task is suspended
  cfg  : Seq(Names),        \* the agents to create; none: it deletes the game
  k    : Nat,               \* the agent it is at, in cfg
  port : Ports,             \* the port that agent's client joins
  seen : SUBSET Names,      \* names the iteration has come to
  size : Nat]               \* and the size of its dict when it began

TypeOK ==
  /\ clients \in [Names -> Client]
  /\ agents \in [Names -> Client]
  /\ serverPort \in Ports
  /\ servers \subseteq Requests
  /\ open \subseteq Client
  /\ loops \subseteq Task
  /\ req \in [Requests -> Request]
  /\ \A r \in Requests : req[r].k <= Len(req[r].cfg)
  /\ orderly \in BOOLEAN

NewRequest == [pc |-> "idle", cfg |-> << >>, k |-> 0, port |-> NoPort,
               seen |-> {}, size |-> 0]

Init ==
  /\ clients = [n \in Names |-> NoClient]
  /\ agents = [n \in Names |-> NoClient]
  /\ serverPort = NoPort
  /\ servers = {}
  /\ open = {}
  /\ loops = {}
  /\ req = [r \in Requests |-> NewRequest]
  /\ orderly = TRUE

\* The names in a dict.
In(dict) == {n \in Names : dict[n] # NoClient}

Ended(r)  == req[r].pc \in {"ok", "failed"}
Active(r) == req[r].pc # "idle" /\ ~Ended(r)

\* The locals of what it has done are dropped.
Goto(r, q, point) ==
  req' = [req EXCEPT ![r] = [NewRequest EXCEPT !.pc = point, !.cfg = q.cfg]]

\* An exception: the request is answered with status 500.
Fail(r, q) == Goto(r, q, "failed") /\ UNCHANGED gameVars

-----------------------------------------------------------------------------
(* create_game, from the test of self.agents on; s and p are the values of *)
(* servers and serverPort by then.                                         *)

\* The port is given, and joined; or a server is spawned, or fails to start.
OpenGame(r, q, s, p) ==
  \/ /\ req' = [req EXCEPT ![r] = [q EXCEPT !.pc = "joining", !.k = 1,
                                            !.port = Given]]
     /\ servers' = s /\ serverPort' = Given
  \/ /\ Goto(r, q, "spawned")
     /\ servers' = s \cup {r} /\ serverPort' = p
  \/ /\ Goto(r, q, "failed")
     /\ servers' = s /\ serverPort' = p

\* Mutant: the port is joined but not noted.
SpawnedUnnoted(r) ==
  /\ req[r].pc = "spawned"
  /\ req' = [req EXCEPT ![r].pc = "joining", ![r].k = 1, ![r].port = r]
  /\ UNCHANGED <<gameVars, loops, orderly>>

\* Two seconds after the spawn.
Spawned(r) ==
  /\ req[r].pc = "spawned"
  /\ req' = [req EXCEPT ![r].pc = "joining", ![r].k = 1, ![r].port = r]
  /\ serverPort' = r
  /\ UNCHANGED <<clients, agents, servers, open, loops, orderly>>

Joining(r) ==
  LET q == req[r]
  IN  [by |-> r, k |-> q.k, port |-> q.port,
       last |-> \A j \in 1..Len(q.cfg) : j > q.k => q.cfg[j] # q.cfg[q.k]]

\* join_game has connected: the client is registered, a former one of its name
\* replaced.
Joined(r) ==
  /\ req[r].pc = "joining"
  /\ open' = open \cup {Joining(r)}
  /\ clients' = [clients EXCEPT ![req[r].cfg[req[r].k]] = Joining(r)]
  /\ req' = [req EXCEPT ![r].pc = "joined"]
  /\ UNCHANGED <<agents, serverPort, servers, loops, orderly>>

\* join_game raises, after five attempts.
JoinFails(r) ==
  /\ req[r].pc = "joining"
  /\ Fail(r, req[r])
  /\ UNCHANGED <<loops, orderly>>

\* The first client must still be connected.
FirstLost(r) ==
  /\ req[r].pc = "joined" /\ req[r].k = 1
  /\ Joining(r) \notin open
  /\ Fail(r, req[r])
  /\ UNCHANGED <<loops, orderly>>

CanGoOn(r) ==
  req[r].pc = "joined" /\ (req[r].k = 1 => Joining(r) \in open)

\* The next client joins the port the orchestrator has by now.
JoinNext(r) ==
  /\ CanGoOn(r) /\ req[r].k < Len(req[r].cfg)
  /\ req' = [req EXCEPT ![r].pc = "joining", ![r].k = @ + 1,
                        ![r].port = serverPort]
  /\ UNCHANGED <<gameVars, loops, orderly>>

\* All have joined: an agent is made for each, in the order of the list, up to one
\* whose client is not there any more (KeyError).
MakeAgents(r) ==
  /\ CanGoOn(r) /\ req[r].k = Len(req[r].cfg)
  /\ LET cfg  == req[r].cfg
         made == {i \in 1..Len(cfg) : \A j \in 1..i : cfg[j] \in In(clients)}
     IN  /\ agents' = [n \in Names |-> IF \E i \in made : cfg[i] = n
                                       THEN clients[n] ELSE agents[n]]
         /\ Goto(r, req[r], IF made = 1..Len(cfg) THEN "settings" ELSE "failed")
  /\ UNCHANGED <<clients, serverPort, servers, open, loops, orderly>>

\* The settings are sent; "/start" is sent for every client.
Greet(r) ==
  /\ req[r].pc = "settings"
  /\ \/ /\ In(clients) = {}
        /\ Goto(r, req[r], "waiting")
     \/ \E n \in In(clients) :
          req' = [req EXCEPT ![r].pc = "greeting", ![r].seen = {n},
                             ![r].size = Cardinality(In(clients))]
  /\ UNCHANGED <<gameVars, loops, orderly>>

\* The iteration goes on to the next name, if the dict has its size.
NextName(r, dict) ==
  /\ Cardinality(In(dict)) = req[r].size
  /\ Cardinality(req[r].seen) < req[r].size
  /\ \E n \in In(dict) \ req[r].seen : req' = [req EXCEPT ![r].seen = @ \cup {n}]

IterationEnds(r, dict) ==
  /\ Cardinality(In(dict)) = req[r].size
  /\ Cardinality(req[r].seen) = req[r].size

\* RuntimeError: dictionary changed size during iteration.
SizeChanged(r, dict) ==
  Cardinality(In(dict)) # req[r].size /\ Fail(r, req[r])

Greeted(r) ==
  /\ req[r].pc = "greeting"
  /\ \/ NextName(r, clients) /\ UNCHANGED gameVars
     \/ IterationEnds(r, clients) /\ Goto(r, req[r], "waiting") /\ UNCHANGED gameVars
     \/ SizeChanged(r, clients)
  /\ UNCHANGED <<loops, orderly>>

\* A message is not taken before the connection is lost: the send raises.
SendRaises(r) ==
  /\ req[r].pc \in {"settings", "greeting"}
  /\ \E n \in In(clients) : clients[n] \notin open
  /\ Fail(r, req[r])
  /\ UNCHANGED <<loops, orderly>>

\* Turn 1 has begun, or 15 seconds have passed: a game loop for every agent.
StartLoops(r) ==
  /\ req[r].pc = "waiting"
  /\ loops' = loops \cup {[by |-> r, client |-> agents[n]] : n \in In(agents)}
  /\ Goto(r, req[r], "ok")
  /\ UNCHANGED <<gameVars, orderly>>

-----------------------------------------------------------------------------
(* shutdown, for a request to delete the game or to replace it.            *)

\* Mutant: the port is reset before the server is killed.
ShutDownUnkilled(r, q) ==
  /\ clients' = [n \in Names |-> NoClient]
  /\ agents' = [n \in Names |-> NoClient]
  /\ IF q.cfg = << >>
     THEN Goto(r, q, "ok") /\ servers' = servers /\ serverPort' = NoPort
     ELSE OpenGame(r, q, servers, NoPort)

\* Everything is closed: the dicts are emptied, the server is killed.
ShutDown(r, q) ==
  /\ clients' = [n \in Names |-> NoClient]
  /\ agents' = [n \in Names |-> NoClient]
  /\ LET s == servers \ {serverPort}
     IN  IF q.cfg = << >>
         THEN Goto(r, q, "ok") /\ servers' = s /\ serverPort' = NoPort
         ELSE OpenGame(r, q, s, NoPort)

\* Mutant: only the clients of agents are closed.
CloseAgentsClients(r, q) ==
  \/ /\ In(agents) = {}
     /\ ShutDown(r, q) /\ UNCHANGED open
  \/ \E n \in In(agents) :
       /\ open' = open \ {agents[n]}
       /\ req' = [req EXCEPT ![r] = [q EXCEPT !.pc = "clients", !.seen = {n},
                                       !.size = Cardinality(In(clients))]]
       /\ UNCHANGED <<clients, agents, serverPort, servers>>

\* Mutant: the clients are forgotten, not closed.
ForgetClients(r, q) == ShutDown(r, q) /\ UNCHANGED open

\* Every client is closed, one after the other.
CloseClients(r, q) ==
  \/ /\ In(clients) = {}
     /\ ShutDown(r, q) /\ UNCHANGED open
  \/ \E n \in In(clients) :
       /\ open' = open \ {clients[n]}
       /\ req' = [req EXCEPT ![r] = [q EXCEPT !.pc = "clients", !.seen = {n},
                                       !.size = Cardinality(In(clients))]]
       /\ UNCHANGED <<clients, agents, serverPort, servers>>

\* Mutant: the game loops go on.
BeginShutdownLooping(r, q) ==
  /\ UNCHANGED loops
  /\ \/ In(agents) = {} /\ CloseClients(r, q)
     \/ \E n \in In(agents) :
          /\ req' = [req EXCEPT ![r] = [q EXCEPT !.pc = "agents", !.seen = {n},
                                          !.size = Cardinality(In(agents))]]
          /\ UNCHANGED gameVars

\* The game loops are cancelled and every agent is closed.
BeginShutdown(r, q) ==
  /\ loops' = {}
  /\ \/ In(agents) = {} /\ CloseClients(r, q)
     \/ \E n \in In(agents) :
          /\ req' = [req EXCEPT ![r] = [q EXCEPT !.pc = "agents", !.seen = {n},
                                          !.size = Cardinality(In(agents))]]
          /\ UNCHANGED gameVars

AgentClosed(r) ==
  /\ req[r].pc = "agents"
  /\ \/ NextName(r, agents) /\ UNCHANGED gameVars
     \/ IterationEnds(r, agents) /\ CloseClients(r, req[r])
     \/ SizeChanged(r, agents)
  /\ UNCHANGED <<loops, orderly>>

ClientClosed(r) ==
  /\ req[r].pc = "clients"
  /\ \/ /\ NextName(r, clients)
        /\ open' = open \ {clients[n] : n \in req'[r].seen \ req[r].seen}
        /\ UNCHANGED <<clients, agents, serverPort, servers>>
     \/ IterationEnds(r, clients) /\ ShutDown(r, req[r]) /\ UNCHANGED open
     \/ SizeChanged(r, clients)
  /\ UNCHANGED <<loops, orderly>>

-----------------------------------------------------------------------------
(* The requests arrive, in the order of their numbers.                     *)

Arrives(r) ==
  /\ req[r].pc = "idle" /\ \A p \in 1..r - 1 : req[p].pc # "idle"
  /\ Cardinality({p \in Requests : Active(p)}) < AtOnce

Alone(r) == \A p \in Requests \ {r} : ~Active(p)

\* A game whose creation failed half way.
HalfMade == In(agents) = {} /\ (In(clients) # {} \/ serverPort # NoPort)

\* The rules of the history variable: a request waits for the one before it, and
\* a creation that failed is cleared away by DELETE before the next.
Delete(r) ==
  /\ Arrives(r)
  /\ orderly' = (orderly /\ Alone(r))
  /\ BeginShutdown(r, NewRequest)

Create(r) ==
  /\ Arrives(r)
  /\ orderly' = (orderly /\ Alone(r) /\ ~HalfMade)
  /\ \E cfg \in Configs :
       LET q == [NewRequest EXCEPT !.cfg = cfg]
       IN  \/ In(agents) # {} /\ BeginShutdown(r, q)
           \/ /\ In(agents) = {}
              /\ OpenGame(r, q, servers, serverPort)
              /\ UNCHANGED <<clients, agents, open, loops>>

Resumes(r) ==
  \/ Spawned(r) \/ Joined(r) \/ JoinFails(r) \/ FirstLost(r) \/ JoinNext(r)
  \/ MakeAgents(r) \/ Greet(r) \/ Greeted(r) \/ SendRaises(r) \/ StartLoops(r)
  \/ AgentClosed(r) \/ ClientClosed(r)

-----------------------------------------------------------------------------
(* The game's end of a connection, and the game loops.                     *)

\* The server or the network drops a client.
Drop(c) ==
  /\ c \in open
  /\ open' = open \ {c}
  /\ UNCHANGED <<clients, agents, serverPort, servers, loops, req, orderly>>

\* run_game_loop returns: its client is not connected.
LoopEnds(t) ==
  /\ t \in loops /\ t.client \notin open
  /\ loops' = loops \ {t}
  /\ UNCHANGED <<gameVars, req, orderly>>

Next ==
  \/ \E r \in Requests : Delete(r) \/ Create(r) \/ Resumes(r)
  \/ \E c \in open : Drop(c)
  \/ \E t \in loops : LoopEnds(t)

Spec == Init /\ [][Next]_vars

-----------------------------------------------------------------------------
(* Properties.                                                             *)

\* No connection is forgotten but one whose name its request repeats, which the next
\* client of that name replaces (server.py:251): as long as the callers are orderly,
\* shutdown finds every other open client among those it closes (server.py:242-251,
\* 292-293).
NoStrayClient ==
  orderly => \A c \in open : c.last => \E n \in Names : clients[n] = c

\* No server process is forgotten: the one that runs is the one shutdown kills, or
\* the one a creation has just spawned (server.py:237-239, 296-298).
NoStrayServer ==
  orderly => \A p \in servers : p = serverPort \/ req[p].pc = "spawned"

\* An agent is played by one game loop at most, with the client registered under
\* its name: no loop of an earlier game goes on (server.py:287-289, 281-283).
OneLoopEach ==
  orderly => \A t \in loops :
    /\ \E n \in Names : agents[n] = t.client /\ clients[n] = t.client
    /\ \A u \in loops : u.client = t.client => u = t

\* All agents of a game have joined the server of that game (server.py:239-251).
SameServer ==
  orderly => \A n \in Names : clients[n] # NoClient => clients[n].port = serverPort

\* "Shut down game" (ARCHITECTURE.md:66, DELETE /game): what it answers with success
\* leaves nothing of the game behind, if callers are orderly, but the clients whose
\* names their requests repeat.
Clearing ==
  orderly /\ orderly' =>
    \A r \in Requests :
      ~Ended(r) /\ req'[r].pc = "ok" /\ req'[r].cfg = << >>
        => (\A c \in open' : ~c.last) /\ servers' = {} /\ loops' = {}
DeleteClears == [][Clearing]_vars
=============================================================================
