-------------------------- MODULE GameOrchestrator --------------------------
(***************************************************************************)
(* The agents' games (multi_main.py): POST /game/create, DELETE /game and  *)
(* POST /game/join on the one GameOrchestrator, in the coroutines of their *)
(* requests, which let each other run at every await.  Retries of a        *)
(* connection, chat commands and the agents' loops are not told apart.     *)
(***************************************************************************)
EXTENDS Naturals, Sequences, FiniteSets, Functions, SequencesExt

CONSTANTS
  Slots,        \* bound: requests in progress at once
  Configs,      \* the lists of names a game may be created with
  Joiners,      \* the names an external agent may join with
  Games,        \* the ports of game servers
  Ids,          \* bound: connections at once
  NoPort        \* server_port without a game

VARIABLES
  agents, clients, external,   \* the dictionaries: from names to connections
  server_port,
  tasks,        \* the agents' loops that run: [conn, by]
  open,         \* the connections that are open: [id, game]
  req,          \* the request in each slot
  replaced,     \* the connections whose name another join took (history)
  messy         \* whether requests met that cannot meet in order (history)

vars == <<agents, clients, external, server_port, tasks, open, req, replaced, messy>>
History == <<replaced, messy>>
Tables == <<agents, clients, external, server_port, tasks>>

Nothing == [x \in {} |-> x]
Put(dict, name, conn) == [n \in DOMAIN dict \cup {name} |-> IF n = name THEN conn ELSE dict[n]]
Registered == Range(agents) \cup Range(clients) \cup Range(external)

Free == [do |-> "free", at |-> "free", names |-> <<>>, next |-> 1, size |-> 0, left |-> {}, game |-> NoPort, first |-> {}]
Busy(s) == req[s].do # "free"
\* Bound: no request begins after the first that met another out of order.
Begins(s) == ~Busy(s) /\ ~messy
Others(s) == {t \in Slots \ {s} : Busy(t)}

Used == {c.id : c \in open \cup Registered \cup {t.conn : t \in tasks} \cup UNION {req[s].first : s \in Slots}}
Fresh == {i \in Ids \ Used : \A j \in Ids \ Used : i <= j}

Init ==
  /\ agents = Nothing /\ clients = Nothing /\ external = Nothing
  /\ server_port = NoPort /\ tasks = {} /\ open = {}
  /\ req = [s \in Slots |-> Free]
  /\ replaced = {} /\ messy = FALSE

At(s, stage) == req' = [req EXCEPT ![s].at = stage]
Ends(s) == req' = [req EXCEPT ![s] = Free]

-----------------------------------------------------------------------------
(* shutdown: what each await's loop goes through.  A dictionary that        *)
(* changed its size meanwhile ends the loop with a RuntimeError.            *)
DictOf(stage) == CASE stage = "agents" -> agents [] stage = "clients" -> clients [] OTHER -> external

\* Mutant: the external clients are dropped without being closed.
StageAfterManaged(stage) == IF stage = "agents" THEN "clients" ELSE "cleared"

StageAfter(stage) ==
  CASE stage = "agents" -> "clients" [] stage = "clients" -> "external" [] OTHER -> "cleared"

Stage(r, stage) ==
  [r EXCEPT !.at = stage, !.left = DOMAIN DictOf(stage), !.size = Cardinality(DOMAIN DictOf(stage))]

(* Its beginning: the loops of the agents are cancelled. *)
BeginShutdown(s, r) ==
  /\ tasks' = {}
  /\ req' = [req EXCEPT ![s] = Stage(r, "agents")]
  /\ UNCHANGED <<agents, clients, external, server_port, open>>

Closing(s) == req[s].at \in {"agents", "clients", "external"}

CloseNext(s) ==
  /\ Closing(s)
  /\ LET r == req[s]
         dict == DictOf(r.at)
         rest == r.left \cap DOMAIN dict
     IN CASE Cardinality(DOMAIN dict) # r.size ->
               Ends(s) /\ UNCHANGED <<Tables, open>>
          [] Cardinality(DOMAIN dict) = r.size /\ rest # {} ->
               /\ \E n \in rest :
                    /\ req' = [req EXCEPT ![s].left = rest \ {n}]
                    /\ open' = IF r.at = "agents" THEN open ELSE open \ {dict[n]}
               /\ UNCHANGED Tables
          [] Cardinality(DOMAIN dict) = r.size /\ rest = {} /\ StageAfter(r.at) # "cleared" ->
               /\ req' = [req EXCEPT ![s] = Stage(r, StageAfter(r.at))]
               /\ UNCHANGED <<Tables, open>>
          [] OTHER ->
               /\ clients' = Nothing /\ external' = Nothing /\ agents' = Nothing
               /\ server_port' = r.game
               /\ req' = [req EXCEPT ![s] = IF r.do = "create" THEN [r EXCEPT !.at = "first"] ELSE Free]
               /\ UNCHANGED <<tasks, open>>
  /\ UNCHANGED History

(* api_delete_game *)
DeleteGame(s) ==
  /\ Begins(s)
  /\ BeginShutdown(s, [Free EXCEPT !.do = "delete"])
  /\ messy' = (Others(s) # {}) /\ UNCHANGED replaced

-----------------------------------------------------------------------------
(* api_create_game, create_game, with the port of a server to join or none: *)
(* a game whose agents are known is shut down; what a failed creation left  *)
(* behind, its port or its clients, is not.  A port that was given is noted *)
(* before the first client's connection is awaited.                         *)
CreateGame(s, names, game) ==
  /\ Begins(s)
  /\ LET r == [Free EXCEPT !.do = "create", !.names = names, !.game = game]
     IN IF DOMAIN agents # {} THEN BeginShutdown(s, r)
        ELSE /\ req' = [req EXCEPT ![s] = [r EXCEPT !.at = "first"]]
             /\ server_port' = IF game # NoPort THEN game ELSE server_port
             /\ UNCHANGED <<agents, clients, external, tasks, open>>
  /\ messy' = (Others(s) # {} \/ (DOMAIN agents = {} /\ (Registered # {} \/ server_port # NoPort)))
  /\ UNCHANGED replaced

(* Whatever awaits a connection may fail to get it; the port stays noted. *)
Fails(s) ==
  /\ req[s].at \in {"first", "join"}
  /\ Ends(s)
  /\ UNCHANGED <<Tables, open, History>>

(* Without a port of its own a game gets one with its first client. *)
FirstClient(s) ==
  /\ req[s].at = "first"
  /\ \E i \in Fresh, game \in IF req[s].game = NoPort THEN Games ELSE {req[s].game} :
       LET conn == [id |-> i, game |-> game]
       IN /\ open' = open \cup {conn}
          /\ server_port' = IF req[s].game = NoPort THEN game ELSE server_port
          /\ clients' = Put(clients, req[s].names[1], conn)
          /\ req' = [req EXCEPT ![s].at = "wait", ![s].first = {conn}]
  /\ UNCHANGED <<agents, external, tasks, History>>

(* The first connection is lost while it is waited for; one lost later      *)
(* changes nothing here.                                                    *)
FirstLost(s) ==
  /\ req[s].at = "wait"
  /\ open' = open \ req[s].first
  /\ UNCHANGED <<Tables, req, History>>

(* The next name's join begins with the port of that moment. *)
Following(r) ==
  IF r.next < Len(r.names)
  THEN [r EXCEPT !.at = "join", !.next = r.next + 1, !.game = server_port]
  ELSE [r EXCEPT !.at = "agree"]

FirstConnected(s) ==
  /\ req[s].at = "wait"
  /\ IF req[s].first \subseteq open THEN req' = [req EXCEPT ![s] = Following(req[s])] ELSE Ends(s)
  /\ UNCHANGED <<Tables, open, History>>

NextClient(s) ==
  /\ req[s].do = "create" /\ req[s].at = "join" /\ req[s].game # NoPort
  /\ \E i \in Fresh :
       LET conn == [id |-> i, game |-> req[s].game]
       IN /\ open' = open \cup {conn}
          /\ clients' = Put(clients, req[s].names[req[s].next], conn)
          /\ req' = [req EXCEPT ![s].at = "pause"]
  /\ UNCHANGED <<agents, external, server_port, tasks, History>>

Pauses(s) ==
  /\ req[s].at = "pause"
  /\ req' = [req EXCEPT ![s] = Following(req[s])]
  /\ UNCHANGED <<Tables, open, History>>

(* The agents are made at once; a name whose client is gone stops it. *)
MakeAgents(s) ==
  /\ req[s].at = "agree"
  /\ LET names == req[s].names
         known == {k \in DOMAIN names : \A j \in 1..k : names[j] \in DOMAIN clients}
         made == {names[k] : k \in known}
     IN /\ agents' = [n \in DOMAIN agents \cup made |-> IF n \in made THEN clients[n] ELSE agents[n]]
        /\ IF known = DOMAIN names
           THEN req' = [req EXCEPT ![s].at = "start", ![s].size = Cardinality(DOMAIN clients)]
           ELSE Ends(s)
  /\ UNCHANGED <<clients, external, server_port, tasks, open, History>>

(* Every client is told to start, between awaits. *)
StartGame(s) ==
  /\ req[s].at = "start"
  /\ IF Cardinality(DOMAIN clients) = req[s].size THEN At(s, "loops") ELSE Ends(s)
  /\ UNCHANGED <<Tables, open, History>>

BeginLoops(s) ==
  /\ req[s].at = "loops"
  /\ tasks' = tasks \cup {[conn |-> c, by |-> s] : c \in Range(agents)}
  /\ Ends(s)
  /\ UNCHANGED <<agents, clients, external, server_port, open, History>>

-----------------------------------------------------------------------------
(* api_join_game: the name is tested before the connection is awaited.      *)
JoinGame(s, name) ==
  /\ Begins(s) /\ server_port # NoPort
  /\ name \notin DOMAIN clients \cup DOMAIN external
  /\ req' = [req EXCEPT ![s] = [Free EXCEPT !.do = "join", !.at = "join", !.names = <<name>>, !.game = server_port]]
  /\ messy' = (\E t \in Others(s) : Closing(t))
  /\ UNCHANGED <<Tables, open, replaced>>

Joined(s) ==
  /\ req[s].do = "join"
  /\ \E i \in Fresh :
       LET conn == [id |-> i, game |-> req[s].game]
       IN open' = open \cup {conn} /\ external' = Put(external, req[s].names[1], conn)
  /\ replaced' = replaced \cup {external[n] : n \in {req[s].names[1]} \cap DOMAIN external}
  /\ Ends(s)
  /\ UNCHANGED <<agents, clients, server_port, tasks, messy>>

Next ==
  \/ \E s \in Slots :
       \/ DeleteGame(s) \/ CloseNext(s)
       \/ \E names \in Configs, game \in Games \cup {NoPort} : CreateGame(s, names, game)
       \/ FirstClient(s) \/ FirstLost(s) \/ FirstConnected(s) \/ NextClient(s) \/ Pauses(s) \/ Fails(s)
       \/ MakeAgents(s) \/ StartGame(s) \/ BeginLoops(s)
       \/ \E name \in Joiners : JoinGame(s, name)
       \/ Joined(s)

Spec == Init /\ [][Next]_vars

-----------------------------------------------------------------------------
(* Whatever the requests that meet, an agent's name has a client: the       *)
(* commands of /agents/{name} find both or neither.                         *)
AgentsHaveClients == DOMAIN agents \subseteq DOMAIN clients

(* Unless requests meet that cannot be put in order (two creations, a       *)
(* deletion and a join) or a creation follows one that failed and left its  *)
(* port or a client, no connection is open that a later shutdown would not  *)
(* close but those whose name two joins had at once, all are to the one     *)
(* game, and an agent has one loop at most.                                 *)
GamesApart ==
  ~messy =>
    /\ open \subseteq Registered \cup replaced
    /\ \A c \in Registered : c.game = server_port
    /\ \A n \in DOMAIN agents : agents[n] = clients[n]
    /\ \A t \in tasks : t.conn \in Range(agents)
    /\ \A t, u \in tasks : t.conn = u.conn => t = u

GamesSound == AgentsHaveClients /\ GamesApart
=============================================================================
