------------------------- MODULE Orchestrator_proofs -------------------------
(***************************************************************************)
(* For every set of names, every list of agents a request may hold and any *)
(* number of requests: orderly callers never lose a server, a game loop or *)
(* a client whose name comes once, and DELETE /game clears them away.      *)
(***************************************************************************)
EXTENDS Orchestrator, FiniteSetTheorems, TLAPS

Building == {"spawned", "joining", "joined"}
Creating == Building \cup {"settings", "greeting", "waiting"}
Closing  == {"agents", "clients"}

\* What a request keeps of its task, at every point.
Sane(q) ==
  /\ q.pc \in Creating => q.cfg \in Configs
  /\ q.pc \in Closing => q.cfg \in Configs \cup {<< >>}
  /\ q.pc \in {"joining", "joined"} => q.k >= 1

Shape ==
  /\ TypeOK
  /\ \A r \in Requests : Sane(req[r])
  /\ NoClient \notin open /\ \A t \in loops : t.client # NoClient

-----------------------------------------------------------------------------
(* Helpers.                                                                *)

LEMMA Lists ==
  ASSUME NEW cfg \in Configs
  PROVE  /\ cfg \in Seq(Names) /\ cfg # << >> /\ Len(cfg) \in Nat /\ Len(cfg) >= 1
         /\ \A i \in 1..Len(cfg) : cfg[i] \in Names
<1>1. cfg \in Seq(Names) /\ cfg # << >>
  BY OrchestratorAssumption
<1> QED BY <1>1, OrchestratorAssumption

LEMMA Numbers ==
  /\ MaxRequests \in Nat /\ Requests \subseteq Ports /\ Given \in Ports
  /\ NoPort \in Ports /\ NoPort \notin Requests /\ Given \notin Requests
  /\ \A r \in Requests : r \in Nat /\ r >= 1
BY OrchestratorAssumption DEF Requests, Ports, Given, NoPort

LEMMA NewIsRequest == NewRequest \in Request /\ NewRequest.k = 0
BY Numbers DEF NewRequest, Request, Points

LEMMA NoClientIsClient == NoClient \in Client
BY Numbers DEF NoClient, Client

\* What replacing one request's record means for all.
LEMMA Replace ==
  ASSUME TypeOK, NEW r \in Requests, NEW x \in Request, x.k <= Len(x.cfg),
         req' = [req EXCEPT ![r] = x]
  PROVE  /\ req' \in [Requests -> Request]
         /\ \A p \in Requests : req'[p].k <= Len(req'[p].cfg)
         /\ req'[r] = x
         /\ \A p \in Requests : p # r => req'[p] = req[p]
BY DEF TypeOK

LEMMA GotoRecord ==
  ASSUME NEW q \in Request, NEW point \in Points
  PROVE  LET x == [NewRequest EXCEPT !.pc = point, !.cfg = q.cfg]
         IN  x \in Request /\ x.k = 0 /\ x.pc = point /\ x.cfg = q.cfg
             /\ x.k <= Len(x.cfg)
<1> DEFINE x == [NewRequest EXCEPT !.pc = point, !.cfg = q.cfg]
<1>1. Len(q.cfg) \in Nat /\ q.cfg \in Seq(Names)
  BY DEF Request
<1>3. x \in Request
  BY NewIsRequest DEF Request
<1>4. x.pc = point /\ x.cfg = q.cfg
  BY NewIsRequest DEF Request
<1>6. x.k = 0
  BY NewIsRequest DEF Request
<1> HIDE DEF x
<1>5. x.k <= Len(x.cfg)
  BY <1>1, <1>4, <1>6
<1> QED BY <1>3, <1>4, <1>5, <1>6 DEF x

\* A request that goes on with nothing but its list of agents.
LEMMA Goes ==
  ASSUME TypeOK, NEW r \in Requests, NEW q \in Request, NEW point \in Points,
         Goto(r, q, point)
  PROVE  /\ req' \in [Requests -> Request]
         /\ \A p \in Requests : req'[p].k <= Len(req'[p].cfg)
         /\ req'[r] \in Request
         /\ req'[r].pc = point /\ req'[r].cfg = q.cfg
         /\ \A p \in Requests : p # r => req'[p] = req[p]
<1> DEFINE x == [NewRequest EXCEPT !.pc = point, !.cfg = q.cfg]
<1>1. x \in Request /\ x.pc = point /\ x.cfg = q.cfg /\ x.k <= Len(x.cfg)
  BY GotoRecord
<1>2. req' = [req EXCEPT ![r] = x]
  BY DEF Goto
<1> HIDE DEF x
<1> QED BY <1>1, <1>2, Replace

-----------------------------------------------------------------------------
(* The shape of the state is kept by every step, orderly or not.           *)

ReqOK ==
  /\ req \in [Requests -> Request]
  /\ \A p \in Requests : req[p].k <= Len(req[p].cfg) /\ Sane(req[p])

LEMMA ReplaceOK ==
  ASSUME Shape, NEW r \in Requests, NEW x \in Request, x.k <= Len(x.cfg), Sane(x),
         req' = [req EXCEPT ![r] = x]
  PROVE  /\ ReqOK' /\ req'[r] = x
         /\ \A p \in Requests : p # r => req'[p] = req[p]
<1>1. TypeOK
  BY DEF Shape
<1>2. /\ req' \in [Requests -> Request]
      /\ \A p \in Requests : req'[p].k <= Len(req'[p].cfg)
      /\ req'[r] = x
      /\ \A p \in Requests : p # r => req'[p] = req[p]
  BY <1>1, Replace
<1>3. \A p \in Requests : Sane(req'[p])
  BY <1>2 DEF Shape
<1> QED BY <1>2, <1>3 DEF ReqOK

LEMMA GoesOK ==
  ASSUME Shape, NEW r \in Requests, NEW q \in Request, NEW point \in Points,
         point \in Creating => q.cfg \in Configs,
         point \notin Closing \cup {"joining", "joined"},
         Goto(r, q, point)
  PROVE  /\ ReqOK' /\ req'[r].pc = point /\ req'[r].cfg = q.cfg
         /\ \A p \in Requests : p # r => req'[p] = req[p]
<1>1. TypeOK
  BY DEF Shape
<1>2. /\ req' \in [Requests -> Request]
      /\ \A p \in Requests : req'[p].k <= Len(req'[p].cfg)
      /\ req'[r].pc = point /\ req'[r].cfg = q.cfg
      /\ \A p \in Requests : p # r => req'[p] = req[p]
  BY <1>1, Goes
<1>3. \A p \in Requests : Sane(req'[p])
  BY <1>2 DEF Shape, Sane
<1> QED BY <1>2, <1>3 DEF ReqOK

\* The record of a request that starts to join.
LEMMA FirstRecord ==
  ASSUME NEW q \in Request, q.cfg \in Configs, NEW p \in Ports
  PROVE  LET x == [q EXCEPT !.pc = "joining", !.k = 1, !.port = p]
         IN  /\ x \in Request /\ x.k <= Len(x.cfg) /\ Sane(x)
             /\ x.pc = "joining" /\ x.k = 1 /\ x.port = p /\ x.cfg = q.cfg
<1> DEFINE x == [q EXCEPT !.pc = "joining", !.k = 1, !.port = p]
<1>1. x \in Request
  BY DEF Request, Points
<1>2. x.pc = "joining" /\ x.k = 1 /\ x.port = p /\ x.cfg = q.cfg
  BY DEF Request
<1> HIDE DEF x
<1>3. Len(q.cfg) >= 1
  BY Lists
<1>4. x.k <= Len(x.cfg)
  BY <1>2, <1>3
<1>5. Sane(x)
  BY <1>2 DEF Sane, Closing
<1> QED BY <1>1, <1>2, <1>4, <1>5 DEF x

LEMMA OpenOK ==
  ASSUME Shape, NEW r \in Requests, NEW q \in Request, q.cfg \in Configs,
         NEW s \in SUBSET Requests, NEW p \in Ports,
         OpenGame(r, q, s, p)
  PROVE  ReqOK' /\ servers' \subseteq Requests /\ serverPort' \in Ports
<1>1. CASE /\ req' = [req EXCEPT ![r] = [q EXCEPT !.pc = "joining", !.k = 1,
                                                  !.port = Given]]
           /\ servers' = s /\ serverPort' = Given
  <2> DEFINE x == [q EXCEPT !.pc = "joining", !.k = 1, !.port = Given]
  <2>1. x \in Request /\ x.k <= Len(x.cfg) /\ Sane(x)
    BY FirstRecord, Numbers
  <2>2. req' = [req EXCEPT ![r] = x]
    BY <1>1
  <2> HIDE DEF x
  <2> QED BY <1>1, <2>1, <2>2, ReplaceOK, Numbers
<1>2. CASE Goto(r, q, "spawned") /\ servers' = s \cup {r} /\ serverPort' = p
  <2>1. ReqOK'
    BY <1>2, GoesOK DEF Points, Closing, Creating, Building
  <2> QED BY <1>2, <2>1
<1>3. CASE Goto(r, q, "failed") /\ servers' = s /\ serverPort' = p
  <2>1. ReqOK'
    BY <1>3, GoesOK DEF Points, Closing, Creating, Building
  <2> QED BY <1>3, <2>1
<1> QED BY <1>1, <1>2, <1>3 DEF OpenGame

LEMMA ShutDownOK ==
  ASSUME Shape, NEW r \in Requests, NEW q \in Request,
         q.cfg \in Configs \cup {<< >>}, ShutDown(r, q)
  PROVE  /\ ReqOK' /\ servers' \subseteq Requests /\ serverPort' \in Ports
         /\ clients' \in [Names -> Client] /\ agents' \in [Names -> Client]
<1> DEFINE s == servers \ {serverPort}
<1>1. s \in SUBSET Requests
  BY DEF Shape, TypeOK
<1>2. clients' \in [Names -> Client] /\ agents' \in [Names -> Client]
  BY NoClientIsClient DEF ShutDown
<1>3. CASE q.cfg = << >>
  <2>1. Goto(r, q, "ok") /\ servers' = s /\ serverPort' = NoPort
    BY <1>3 DEF ShutDown
  <2>2. ReqOK'
    BY <2>1, GoesOK DEF Points, Closing, Creating, Building
  <2> QED BY <1>1, <1>2, <2>1, <2>2, Numbers
<1>4. CASE q.cfg # << >>
  <2>1. OpenGame(r, q, s, NoPort)
    BY <1>4 DEF ShutDown
  <2>2. q.cfg \in Configs /\ NoPort \in Ports
    BY <1>4, Numbers
  <2> HIDE DEF s
  <2> QED BY <1>1, <1>2, <2>1, <2>2, OpenOK
<1> QED BY <1>3, <1>4

\* The record of a request that iterates over a dict.
LEMMA FirstName ==
  ASSUME NEW q \in Request, q.k <= Len(q.cfg), NEW point \in {"agents", "clients"},
         q.cfg \in Configs \cup {<< >>}, NEW n \in Names, NEW m \in Nat
  PROVE  LET x == [q EXCEPT !.pc = point, !.seen = {n}, !.size = m]
         IN  /\ x \in Request /\ x.k <= Len(x.cfg) /\ Sane(x)
             /\ x.pc = point /\ x.seen = {n} /\ x.size = m /\ x.cfg = q.cfg
<1> DEFINE x == [q EXCEPT !.pc = point, !.seen = {n}, !.size = m]
<1>1. x \in Request
  BY DEF Request, Points
<1>2. /\ x.pc = point /\ x.seen = {n} /\ x.size = m /\ x.cfg = q.cfg /\ x.k = q.k
  BY DEF Request
<1> HIDE DEF x
<1>3. x.k <= Len(x.cfg)
  BY <1>2
<1>4. Sane(x)
  BY <1>2 DEF Sane, Creating, Building
<1> QED BY <1>1, <1>2, <1>3, <1>4 DEF x

LEMMA InFinite ==
  ASSUME NEW dict
  PROVE  /\ IsFiniteSet(In(dict)) /\ In(dict) \in SUBSET Names
         /\ Cardinality(In(dict)) \in Nat
<1>1. In(dict) \in SUBSET Names
  BY DEF In
<1>2. IsFiniteSet(In(dict))
  BY <1>1, FS_Subset, OrchestratorAssumption
<1> QED BY <1>1, <1>2, FS_CardinalityType

StateOK ==
  /\ clients \in [Names -> Client] /\ agents \in [Names -> Client]
  /\ serverPort \in Ports /\ servers \subseteq Requests
  /\ open \subseteq Client /\ NoClient \notin open

LEMMA CloseClientsOK ==
  ASSUME Shape, NEW r \in Requests, NEW q \in Request, q.k <= Len(q.cfg),
         q.cfg \in Configs \cup {<< >>}, CloseClients(r, q)
  PROVE  ReqOK' /\ StateOK'
<1>0. StateOK
  BY DEF Shape, TypeOK, StateOK
<1>1. CASE ShutDown(r, q) /\ UNCHANGED open
  BY <1>0, <1>1, ShutDownOK DEF StateOK
<1>2. ASSUME NEW n \in Names,
             open' = open \ {clients[n]},
             req' = [req EXCEPT ![r] = [q EXCEPT !.pc = "clients", !.seen = {n},
                                                 !.size = Cardinality(In(clients))]],
             UNCHANGED <<clients, agents, serverPort, servers>>
      PROVE  ReqOK' /\ StateOK'
  <2> DEFINE x == [q EXCEPT !.pc = "clients", !.seen = {n},
                            !.size = Cardinality(In(clients))]
  <2>1. x \in Request /\ x.k <= Len(x.cfg) /\ Sane(x)
    BY FirstName, InFinite
  <2>2. req' = [req EXCEPT ![r] = x]
    BY <1>2
  <2> HIDE DEF x
  <2>3. ReqOK'
    BY <2>1, <2>2, ReplaceOK
  <2> QED BY <1>0, <1>2, <2>3 DEF StateOK
<1> QED BY <1>1, <1>2 DEF CloseClients, In

LEMMA BeginShutdownOK ==
  ASSUME Shape, NEW r \in Requests, NEW q \in Request, q.k <= Len(q.cfg),
         q.cfg \in Configs \cup {<< >>}, BeginShutdown(r, q)
  PROVE  ReqOK' /\ StateOK' /\ loops' = {}
<1>0. StateOK
  BY DEF Shape, TypeOK, StateOK
<1>1. CASE CloseClients(r, q)
  BY <1>1, CloseClientsOK DEF BeginShutdown
<1>2. ASSUME NEW n \in Names,
             req' = [req EXCEPT ![r] = [q EXCEPT !.pc = "agents", !.seen = {n},
                                                 !.size = Cardinality(In(agents))]],
             UNCHANGED gameVars
      PROVE  ReqOK' /\ StateOK'
  <2> DEFINE x == [q EXCEPT !.pc = "agents", !.seen = {n},
                            !.size = Cardinality(In(agents))]
  <2>1. x \in Request /\ x.k <= Len(x.cfg) /\ Sane(x)
    BY FirstName, InFinite
  <2>2. req' = [req EXCEPT ![r] = x]
    BY <1>2
  <2> HIDE DEF x
  <2>3. ReqOK'
    BY <2>1, <2>2, ReplaceOK
  <2> QED BY <1>0, <1>2, <2>3 DEF StateOK, gameVars
<1> QED BY <1>1, <1>2 DEF BeginShutdown, In

\* The record of a request that goes on in its iteration.
LEMMA NextNameOK ==
  ASSUME Shape, NEW r \in Requests, NEW dict, NextName(r, dict)
  PROVE  \E n \in In(dict) \ req[r].seen :
           /\ ReqOK'
           /\ req'[r].seen = req[r].seen \cup {n} /\ req'[r].pc = req[r].pc
           /\ req'[r].cfg = req[r].cfg /\ req'[r].size = req[r].size
           /\ \A p \in Requests : p # r => req'[p] = req[p]
<1>1. PICK n \in In(dict) \ req[r].seen :
        req' = [req EXCEPT ![r].seen = @ \cup {n}]
  BY DEF NextName
<1> DEFINE q == req[r]
           x == [q EXCEPT !.seen = q.seen \cup {n}]
<1>2. q \in Request /\ q.k <= Len(q.cfg) /\ Sane(q) /\ n \in Names
  BY DEF Shape, TypeOK, In
<1>3. req' = [req EXCEPT ![r] = x]
  BY <1>1
<1> HIDE DEF q
<1>4. /\ x \in Request /\ x.k = q.k /\ x.pc = q.pc /\ x.cfg = q.cfg
      /\ x.size = q.size /\ x.seen = q.seen \cup {n}
  BY <1>2 DEF Request
<1> HIDE DEF x
<1>5. x.k <= Len(x.cfg) /\ Sane(x)
  BY <1>2, <1>4 DEF Sane
<1>6. ReqOK' /\ req'[r] = x /\ \A p \in Requests : p # r => req'[p] = req[p]
  BY <1>3, <1>4, <1>5, ReplaceOK
<1> QED BY <1>4, <1>6 DEF q

\* A record that moves on among joining and joined.
LEMMA JoinRecord ==
  ASSUME NEW q \in Request, q.cfg \in Configs, NEW point \in {"joining", "joined"},
         NEW k \in Nat, k >= 1, k <= Len(q.cfg), NEW p \in Ports
  PROVE  LET x == [q EXCEPT !.pc = point, !.k = k, !.port = p]
         IN  /\ x \in Request /\ x.k <= Len(x.cfg) /\ Sane(x)
             /\ x.pc = point /\ x.k = k /\ x.port = p /\ x.cfg = q.cfg
<1> DEFINE x == [q EXCEPT !.pc = point, !.k = k, !.port = p]
<1>1. x \in Request
  BY DEF Request, Points
<1>2. x.pc = point /\ x.k = k /\ x.port = p /\ x.cfg = q.cfg
  BY DEF Request
<1> HIDE DEF x
<1>3. x.k <= Len(x.cfg)
  BY <1>2
<1>4. Sane(x)
  BY <1>2 DEF Sane, Closing
<1> QED BY <1>1, <1>2, <1>3, <1>4 DEF x

LEMMA SpawnedOK ==
  ASSUME Shape, NEW r \in Requests, Spawned(r)
  PROVE  /\ ReqOK' /\ req'[r].pc = "joining" /\ req'[r].k = 1 /\ req'[r].port = r
         /\ req'[r].cfg = req[r].cfg /\ req[r].cfg \in Configs
         /\ \A p \in Requests : p # r => req'[p] = req[p]
<1> DEFINE q == req[r]
           x == [q EXCEPT !.pc = "joining", !.k = 1, !.port = r]
<1>1. q \in Request /\ q.cfg \in Configs
  BY DEF Shape, TypeOK, Sane, Creating, Building, Spawned
<1>2. req' = [req EXCEPT ![r] = x]
  BY DEF Spawned
<1> HIDE DEF q
<1>3. /\ x \in Request /\ x.k <= Len(x.cfg) /\ Sane(x)
      /\ x.pc = "joining" /\ x.k = 1 /\ x.port = r /\ x.cfg = q.cfg
  BY <1>1, FirstRecord, Numbers
<1> HIDE DEF x
<1>4. ReqOK' /\ req'[r] = x /\ \A p \in Requests : p # r => req'[p] = req[p]
  BY <1>2, <1>3, ReplaceOK
<1> QED BY <1>1, <1>3, <1>4 DEF q

LEMMA JoinedOK ==
  ASSUME Shape, NEW r \in Requests, Joined(r)
  PROVE  /\ ReqOK' /\ req'[r].pc = "joined" /\ req'[r].k = req[r].k
         /\ req'[r].cfg = req[r].cfg /\ req'[r].port = req[r].port
         /\ req[r].cfg \in Configs /\ req[r].k \in 1..Len(req[r].cfg)
         /\ Joining(r) \in Client /\ Joining(r) # NoClient
         /\ Joining(r).port = req[r].port
         /\ \A p \in Requests : p # r => req'[p] = req[p]
<1> DEFINE q == req[r]
           x == [q EXCEPT !.pc = "joined"]
<1>1. q \in Request /\ q.cfg \in Configs /\ q.k >= 1 /\ q.k <= Len(q.cfg)
  BY DEF Shape, TypeOK, Sane, Creating, Building, Joined
<1>2. req' = [req EXCEPT ![r] = x]
  BY DEF Joined
<1> HIDE DEF q
<1>3. x \in Request /\ x.pc = "joined" /\ x.k = q.k /\ x.port = q.port /\ x.cfg = q.cfg
  BY <1>1 DEF Request, Points
<1> HIDE DEF x
<1>4. x.k <= Len(x.cfg) /\ Sane(x)
  BY <1>1, <1>3 DEF Sane, Closing
<1>5. ReqOK' /\ req'[r] = x /\ \A p \in Requests : p # r => req'[p] = req[p]
  BY <1>2, <1>3, <1>4, ReplaceOK
<1>6. q.k \in 1..Len(q.cfg)
  <2>1. Len(q.cfg) \in Nat /\ q.k \in Nat
    BY <1>1, Lists DEF Request
  <2> QED BY <1>1, <2>1
<1>7. Joining(r) \in Client /\ Joining(r) # NoClient /\ Joining(r).port = q.port
  <2>1. q.k \in Nat /\ q.port \in Ports /\ r \in Nat /\ r # 0
    BY <1>1, Numbers DEF Request
  <2> QED BY <2>1 DEF Joining, Client, NoClient, q
<1> QED BY <1>1, <1>3, <1>5, <1>6, <1>7 DEF q

LEMMA JoinNextOK ==
  ASSUME Shape, NEW r \in Requests, JoinNext(r)
  PROVE  /\ ReqOK' /\ req'[r].pc = "joining" /\ req'[r].k = req[r].k + 1
         /\ req'[r].cfg = req[r].cfg /\ req'[r].port = serverPort
         /\ req[r].cfg \in Configs /\ req[r].k \in Nat
         /\ \A p \in Requests : p # r => req'[p] = req[p]
<1> DEFINE q == req[r]
           m == q.k + 1
           x == [q EXCEPT !.pc = "joining", !.k = m, !.port = serverPort]
<1>1. /\ q \in Request /\ q.cfg \in Configs /\ q.k < Len(q.cfg)
      /\ serverPort \in Ports
  BY DEF Shape, TypeOK, Sane, Creating, Building, JoinNext, CanGoOn
<1>2. req' = [req EXCEPT ![r] = x]
  BY DEF JoinNext
<1> HIDE DEF q
<1>3. q.k \in Nat /\ Len(q.cfg) \in Nat
  BY <1>1, Lists DEF Request
<1>4. m \in Nat /\ m >= 1 /\ m <= Len(q.cfg)
  BY <1>1, <1>3
<1> HIDE DEF m
<1>5. /\ x \in Request /\ x.k <= Len(x.cfg) /\ Sane(x)
      /\ x.pc = "joining" /\ x.k = m /\ x.port = serverPort /\ x.cfg = q.cfg
  BY <1>1, <1>4, JoinRecord
<1> HIDE DEF x
<1>6. ReqOK' /\ req'[r] = x /\ \A p \in Requests : p # r => req'[p] = req[p]
  BY <1>2, <1>5, ReplaceOK
<1> QED BY <1>1, <1>3, <1>5, <1>6 DEF q, m

LEMMA FailOK ==
  ASSUME Shape, NEW r \in Requests, Fail(r, req[r])
  PROVE  /\ ReqOK' /\ req'[r].pc = "failed"
         /\ \A p \in Requests : p # r => req'[p] = req[p]
         /\ UNCHANGED gameVars
<1>1. req[r] \in Request /\ Goto(r, req[r], "failed") /\ UNCHANGED gameVars
  BY DEF Shape, TypeOK, Fail
<1>2. "failed" \in Points /\ "failed" \notin Creating
      /\ "failed" \notin Closing \cup {"joining", "joined"}
  BY DEF Points, Creating, Building, Closing
<1> QED BY <1>1, <1>2, GoesOK

LEMMA GreetOK ==
  ASSUME Shape, NEW r \in Requests, Greet(r)
  PROVE  /\ ReqOK' /\ req'[r].pc \in {"waiting", "greeting"}
         /\ \A p \in Requests : p # r => req'[p] = req[p]
<1> DEFINE q == req[r]
<1>1. q \in Request /\ q.cfg \in Configs /\ q.k <= Len(q.cfg)
  BY DEF Shape, TypeOK, Sane, Creating, Building, Greet
<1>2. CASE Goto(r, q, "waiting")
  BY <1>1, <1>2, GoesOK DEF Points, Creating, Building, Closing
<1>3. ASSUME NEW n \in In(clients),
             req' = [req EXCEPT ![r].pc = "greeting", ![r].seen = {n},
                                ![r].size = Cardinality(In(clients))]
      PROVE  /\ ReqOK' /\ req'[r].pc = "greeting"
             /\ \A p \in Requests : p # r => req'[p] = req[p]
  <2> DEFINE m == Cardinality(In(clients))
             x == [q EXCEPT !.pc = "greeting", !.seen = {n}, !.size = m]
  <2>1. m \in Nat /\ n \in Names
    BY InFinite DEF In
  <2>2. req' = [req EXCEPT ![r] = x]
    BY <1>3
  <2> HIDE DEF m, q
  <2>3. x \in Request /\ x.pc = "greeting" /\ x.cfg = q.cfg /\ x.k = q.k
    BY <1>1, <2>1 DEF Request, Points
  <2> HIDE DEF x
  <2>4. x.k <= Len(x.cfg) /\ Sane(x)
    BY <1>1, <2>3 DEF Sane, Closing
  <2> QED BY <2>2, <2>3, <2>4, ReplaceOK
<1> QED BY <1>2, <1>3 DEF Greet

LEMMA MakeAgentsOK ==
  ASSUME Shape, NEW r \in Requests, MakeAgents(r)
  PROVE  /\ ReqOK' /\ req'[r].pc \in {"settings", "failed"}
         /\ \A p \in Requests : p # r => req'[p] = req[p]
         /\ \A n \in Names : agents'[n] = clients[n] \/ agents'[n] = agents[n]
         /\ agents' \in [Names -> Client]
<1> DEFINE q == req[r]
           made == {i \in 1..Len(q.cfg) : \A j \in 1..i : q.cfg[j] \in In(clients)}
<1>1. q \in Request /\ q.cfg \in Configs
  BY DEF Shape, TypeOK, Sane, Creating, Building, MakeAgents, CanGoOn
<1>2. /\ agents' = [n \in Names |-> IF \E i \in made : q.cfg[i] = n
                                    THEN clients[n] ELSE agents[n]]
      /\ Goto(r, q, IF made = 1..Len(q.cfg) THEN "settings" ELSE "failed")
  BY DEF MakeAgents
<1> HIDE DEF q, made
<1>3. \E point \in {"settings", "failed"} : Goto(r, q, point)
  BY <1>2
<1>4. PICK point \in {"settings", "failed"} : Goto(r, q, point)
  BY <1>3
<1>5. /\ ReqOK' /\ req'[r].pc = point
      /\ \A p \in Requests : p # r => req'[p] = req[p]
  BY <1>1, <1>4, GoesOK DEF Points, Creating, Building, Closing
<1>6. /\ \A n \in Names : agents'[n] = clients[n] \/ agents'[n] = agents[n]
      /\ agents' \in [Names -> Client]
  BY <1>2 DEF Shape, TypeOK
<1> QED BY <1>5, <1>6

LEMMA StartLoopsOK ==
  ASSUME Shape, NEW r \in Requests, StartLoops(r)
  PROVE  /\ ReqOK' /\ req'[r].pc = "ok" /\ req'[r].cfg # << >>
         /\ \A p \in Requests : p # r => req'[p] = req[p]
         /\ loops' \subseteq Task /\ \A t \in loops' : t.client # NoClient
         /\ UNCHANGED gameVars
<1>1. req[r] \in Request /\ req[r].cfg \in Configs /\ Goto(r, req[r], "ok")
  BY DEF Shape, TypeOK, Sane, Creating, Building, StartLoops
<1>2. /\ ReqOK' /\ req'[r].pc = "ok" /\ req'[r].cfg = req[r].cfg
      /\ \A p \in Requests : p # r => req'[p] = req[p]
  BY <1>1, GoesOK DEF Points, Creating, Building, Closing
<1>3. req[r].cfg # << >>
  BY <1>1, Lists
<1>4. \A n \in In(agents) : [by |-> r, client |-> agents[n]] \in Task /\ agents[n] # NoClient
  BY DEF Shape, TypeOK, In, Task
<1>5. loops' = loops \cup {[by |-> r, client |-> agents[n]] : n \in In(agents)}
  BY DEF StartLoops
<1>6. loops' \subseteq Task /\ \A t \in loops' : t.client # NoClient
  BY <1>4, <1>5 DEF Shape, TypeOK
<1> QED BY <1>2, <1>3, <1>6 DEF StartLoops

LEMMA Assemble ==
  ASSUME ReqOK, StateOK, loops \subseteq Task, \A t \in loops : t.client # NoClient,
         orderly \in BOOLEAN
  PROVE  Shape
BY DEF ReqOK, StateOK, Shape, TypeOK

LEMMA InitShape == Init => Shape
<1> SUFFICES ASSUME Init PROVE Shape
  OBVIOUS
<1>1. StateOK
  BY NoClientIsClient, Numbers DEF Init, StateOK
<1>2. NewRequest \in Request /\ NewRequest.k = 0 /\ NewRequest.cfg = << >>
      /\ NewRequest.pc = "idle"
  BY NewIsRequest DEF NewRequest
<1>3. ReqOK
  BY <1>2 DEF Init, ReqOK, Sane, Creating, Building, Closing
<1> QED BY <1>1, <1>3, Assemble DEF Init

LEMMA ArrivesOK ==
  ASSUME Shape, NEW r \in Requests, Delete(r) \/ Create(r)
  PROVE  Shape'
<1>0. orderly' \in BOOLEAN
  BY DEF Delete, Create
<1>1. CASE Delete(r)
  <2>1. NewRequest \in Request /\ NewRequest.k <= Len(NewRequest.cfg)
        /\ NewRequest.cfg = << >> /\ BeginShutdown(r, NewRequest)
    BY <1>1, NewIsRequest DEF Delete, NewRequest
  <2>2. ReqOK' /\ StateOK' /\ loops' = {}
    BY <2>1, BeginShutdownOK
  <2> QED BY <1>0, <2>2 DEF ReqOK, StateOK, Shape, TypeOK
<1>2. CASE Create(r)
  <2>1. PICK cfg \in Configs :
          LET q == [NewRequest EXCEPT !.cfg = cfg]
          IN  \/ In(agents) # {} /\ BeginShutdown(r, q)
              \/ /\ In(agents) = {}
                 /\ OpenGame(r, q, servers, serverPort)
                 /\ UNCHANGED <<clients, agents, open, loops>>
    BY <1>2 DEF Create
  <2> DEFINE q == [NewRequest EXCEPT !.cfg = cfg]
  <2>2. q \in Request /\ q.cfg = cfg /\ q.k = 0
    BY NewIsRequest, Lists DEF Request
  <2>3. q.k <= Len(q.cfg)
    BY <2>2, Lists
  <2>4. \/ BeginShutdown(r, q)
        \/ /\ OpenGame(r, q, servers, serverPort)
           /\ UNCHANGED <<clients, agents, open, loops>>
    BY <2>1
  <2> HIDE DEF q
  <2>5. CASE BeginShutdown(r, q)
    <3>1. ReqOK' /\ StateOK' /\ loops' = {}
      BY <2>2, <2>3, <2>5, BeginShutdownOK
    <3> QED BY <1>0, <3>1 DEF ReqOK, StateOK, Shape, TypeOK
  <2>6. CASE OpenGame(r, q, servers, serverPort) /\ UNCHANGED <<clients, agents, open, loops>>
    <3>1. servers \in SUBSET Requests /\ serverPort \in Ports /\ q.cfg \in Configs
      BY <2>2 DEF Shape, TypeOK
    <3>2. ReqOK' /\ servers' \subseteq Requests /\ serverPort' \in Ports
      BY <2>2, <2>6, <3>1, OpenOK
    <3> QED BY <1>0, <2>6, <3>2 DEF ReqOK, Shape, TypeOK
  <2> QED BY <2>4, <2>5, <2>6
<1> QED BY <1>1, <1>2

LEMMA ClosingOK ==
  ASSUME Shape, NEW r \in Requests, AgentClosed(r) \/ ClientClosed(r)
  PROVE  ReqOK' /\ StateOK' /\ UNCHANGED <<loops, orderly>>
<1>0. StateOK /\ UNCHANGED <<loops, orderly>>
  BY DEF Shape, TypeOK, StateOK, AgentClosed, ClientClosed
<1>1. /\ req[r] \in Request /\ req[r].k <= Len(req[r].cfg)
      /\ req[r].cfg \in Configs \cup {<< >>}
  BY DEF Shape, TypeOK, Sane, Closing, AgentClosed, ClientClosed
<1>2. CASE CloseClients(r, req[r])
  BY <1>0, <1>1, <1>2, CloseClientsOK
<1>3. CASE ShutDown(r, req[r]) /\ UNCHANGED open
  BY <1>0, <1>1, <1>3, ShutDownOK DEF StateOK
<1>4. CASE Fail(r, req[r])
  BY <1>0, <1>4, FailOK DEF gameVars, StateOK
<1>5. ASSUME NEW dict, NextName(r, dict),
             open' \subseteq open, UNCHANGED <<clients, agents, serverPort, servers>>
      PROVE  ReqOK' /\ StateOK'
  BY <1>0, <1>5, NextNameOK DEF StateOK
<1>6. CASE AgentClosed(r)
  BY <1>0, <1>2, <1>4, <1>5, <1>6 DEF AgentClosed, SizeChanged, gameVars
<1>7. CASE ClientClosed(r)
  BY <1>0, <1>3, <1>4, <1>5, <1>7 DEF ClientClosed, SizeChanged
<1> QED BY <1>0, <1>6, <1>7

LEMMA ResumesOK ==
  ASSUME Shape, NEW r \in Requests, Resumes(r)
  PROVE  Shape'
<1>0. StateOK /\ orderly' = orderly /\ orderly \in BOOLEAN
  BY DEF Shape, TypeOK, StateOK, Resumes, Spawned, Joined, JoinFails, FirstLost,
         JoinNext, MakeAgents, Greet, Greeted, SendRaises, StartLoops, AgentClosed,
         ClientClosed
<1>a. ASSUME ReqOK', StateOK', UNCHANGED loops
      PROVE  Shape'
  BY <1>0, <1>a DEF ReqOK, StateOK, Shape, TypeOK
<1>1. CASE Spawned(r)
  <2>1. ReqOK'
    BY <1>1, SpawnedOK
  <2>2. StateOK' /\ UNCHANGED loops
    BY <1>0, <1>1, Numbers DEF StateOK, Spawned
  <2> QED BY <1>a, <2>1, <2>2
<1>2. CASE Joined(r)
  <2>1. ReqOK' /\ Joining(r) \in Client /\ Joining(r) # NoClient
    BY <1>2, JoinedOK
  <2>2. StateOK' /\ UNCHANGED loops
    BY <1>0, <1>2, <2>1 DEF StateOK, Joined
  <2> QED BY <1>a, <2>1, <2>2
<1>3. CASE Fail(r, req[r]) /\ UNCHANGED loops
  <2>1. ReqOK' /\ UNCHANGED gameVars
    BY <1>3, FailOK
  <2>2. StateOK'
    BY <1>0, <2>1 DEF StateOK, gameVars
  <2> QED BY <1>3, <1>a, <2>1, <2>2
<1>4. CASE JoinNext(r)
  <2>1. ReqOK'
    BY <1>4, JoinNextOK
  <2>2. StateOK' /\ UNCHANGED loops
    BY <1>0, <1>4 DEF StateOK, JoinNext, gameVars
  <2> QED BY <1>a, <2>1, <2>2
<1>5. CASE MakeAgents(r)
  <2>1. ReqOK' /\ agents' \in [Names -> Client]
    BY <1>5, MakeAgentsOK
  <2>2. StateOK' /\ UNCHANGED loops
    BY <1>0, <1>5, <2>1 DEF StateOK, MakeAgents
  <2> QED BY <1>a, <2>1, <2>2
<1>6. CASE Greet(r)
  <2>1. ReqOK'
    BY <1>6, GreetOK
  <2>2. StateOK' /\ UNCHANGED loops
    BY <1>0, <1>6 DEF StateOK, Greet, gameVars
  <2> QED BY <1>a, <2>1, <2>2
<1>7. CASE NextName(r, clients) /\ UNCHANGED <<gameVars, loops>>
  <2>1. ReqOK'
    BY <1>7, NextNameOK
  <2>2. StateOK' /\ UNCHANGED loops
    BY <1>0, <1>7 DEF StateOK, gameVars
  <2> QED BY <1>a, <2>1, <2>2
<1>8. CASE req[r].pc = "greeting" /\ Goto(r, req[r], "waiting") /\ UNCHANGED <<gameVars, loops>>
  <2>1. req[r] \in Request /\ req[r].cfg \in Configs
    BY <1>8 DEF Shape, TypeOK, Sane, Creating, Building
  <2>2. ReqOK'
    BY <1>8, <2>1, GoesOK DEF Points, Creating, Building, Closing
  <2>3. StateOK' /\ UNCHANGED loops
    BY <1>0, <1>8 DEF StateOK, gameVars
  <2> QED BY <1>a, <2>2, <2>3
<1>9. CASE Greeted(r)
  BY <1>3, <1>7, <1>8, <1>9 DEF Greeted, SizeChanged
<1>10. CASE StartLoops(r)
  <2>1. /\ ReqOK' /\ loops' \subseteq Task /\ \A t \in loops' : t.client # NoClient
        /\ UNCHANGED gameVars
    BY <1>10, StartLoopsOK
  <2>2. StateOK'
    BY <1>0, <2>1 DEF StateOK, gameVars
  <2> QED BY <1>0, <2>1, <2>2 DEF ReqOK, StateOK, Shape, TypeOK
<1>11. CASE AgentClosed(r) \/ ClientClosed(r)
  BY <1>11, <1>a, ClosingOK
<1>12. CASE JoinFails(r) \/ FirstLost(r) \/ SendRaises(r)
  BY <1>3, <1>12 DEF JoinFails, FirstLost, SendRaises
<1> QED BY <1>1, <1>2, <1>4, <1>5, <1>6, <1>9, <1>10, <1>11, <1>12 DEF Resumes

LEMMA StepShape == Shape /\ [Next]_vars => Shape'
<1> SUFFICES ASSUME Shape, [Next]_vars PROVE Shape'
  OBVIOUS
<1>1. ASSUME NEW r \in Requests, Delete(r) \/ Create(r) PROVE Shape'
  BY <1>1, ArrivesOK
<1>2. ASSUME NEW r \in Requests, Resumes(r) PROVE Shape'
  BY <1>2, ResumesOK
<1>3. ASSUME NEW c \in open, Drop(c) PROVE Shape'
  BY <1>3 DEF Shape, TypeOK, Drop
<1>4. ASSUME NEW t \in loops, LoopEnds(t) PROVE Shape'
  BY <1>4 DEF Shape, TypeOK, LoopEnds, gameVars
<1>5. CASE UNCHANGED vars
  BY <1>5 DEF Shape, TypeOK, vars, gameVars
<1> QED BY <1>1, <1>2, <1>3, <1>4, <1>5 DEF Next

-----------------------------------------------------------------------------
(* What orderly callers keep: one request at a time, so that what is true  *)
(* between two steps of the active request stays true while it waits.      *)

Single   == \A p, r \in Requests : Active(p) /\ Active(r) => p = r
Known    == \A c \in open : c.last => \E n \in Names : clients[n] = c
OnePort  == \A p \in servers : p = serverPort \/ req[p].pc = "spawned"
Together == \A n \in Names : clients[n] # NoClient => clients[n].port = serverPort
Played   == \A n \in Names : agents[n] # NoClient => agents[n] = clients[n]
Looping  == \A t \in loops :
              /\ \E n \in Names : agents[n] = t.client
              /\ \A u \in loops : u.client = t.client => u = t

\* The names from i on are free, or have a client that the list replaces.
Free(cfg, i) == \A j \in 1..Len(cfg) : j >= i => ~clients[cfg[j]].last

\* What a request relies on where it waits.
At(r) ==
  /\ Active(r) => loops = {}
  /\ req[r].pc \in Building => \A n \in Names : agents[n] = NoClient
  /\ req[r].pc = "spawned" =>
       serverPort = NoPort /\ \A n \in Names : clients[n] = NoClient
  /\ req[r].pc = "joining" =>
       req[r].port = serverPort /\ Free(req[r].cfg, req[r].k)
  /\ req[r].pc = "joined" => Free(req[r].cfg, req[r].k + 1)
  /\ req[r].pc = "clients" =>
       /\ req[r].seen \subseteq In(clients)
       /\ \A c \in open : c.last => \E n \in Names \ req[r].seen : clients[n] = c

Ordered ==
  /\ Single /\ Known /\ OnePort /\ Together /\ Played /\ Looping
  /\ \A r \in Requests : At(r)

IInv == Shape /\ (orderly => Ordered)

\* A request that deletes the game and is answered with success.
Clears(r) ==
  req'[r].pc = "ok" /\ req'[r].cfg = << >>
    => (\A c \in open' : ~c.last) /\ servers' = {} /\ loops' = {}

OthersRest(r) == \A p \in Requests : p # r => ~Active(p)
OthersSame(r) == \A p \in Requests : p # r => req'[p] = req[p]

LEMMA Rest ==
  ASSUME Single, NEW r \in Requests, Active(r)
  PROVE  OthersRest(r)
BY DEF Single, OthersRest

\* Only the request that takes the step has to be looked at.
LEMMA OnlyOne ==
  ASSUME NEW r \in Requests, OthersRest(r), OthersSame(r), At(r)'
  PROVE  Single' /\ \A p \in Requests : At(p)'
<1>1. \A p \in Requests : p # r => ~Active(p)'
  BY DEF OthersRest, OthersSame, Active, Ended
<1>2. Single'
  BY <1>1 DEF Single
<1>3. ASSUME NEW p \in Requests, p # r
      PROVE  At(p)'
  BY <1>1, <1>3 DEF At, Active, Ended, Building
<1> QED BY <1>2, <1>3

\* The servers that are known when nothing is being spawned.
LEMMA KnownServers ==
  ASSUME Shape, OnePort, NEW r \in Requests, OthersRest(r), req[r].pc # "spawned"
  PROVE  servers \subseteq {serverPort}
<1> SUFFICES ASSUME NEW p \in servers, p # serverPort PROVE FALSE
  OBVIOUS
<1>1. p \in Requests /\ req[p].pc = "spawned"
  BY DEF OnePort, Shape, TypeOK
<1>2. p # r /\ Active(p)
  BY <1>1 DEF Active, Ended
<1> QED BY <1>1, <1>2 DEF OthersRest

LEMMA GotoFields ==
  ASSUME Shape, NEW r \in Requests, NEW q \in Request, NEW point \in Points,
         Goto(r, q, point)
  PROVE  /\ req'[r].pc = point /\ req'[r].cfg = q.cfg
         /\ OthersSame(r)
<1>1. TypeOK
  BY DEF Shape
<1> QED BY <1>1, Goes DEF OthersSame

\* A game is opened where nothing is left of another.
LEMMA OpenOrdered ==
  ASSUME Shape, NEW r \in Requests, NEW q \in Request, q.cfg \in Configs,
         OthersRest(r), OpenGame(r, q, {}, NoPort),
         \A n \in Names : clients'[n] = NoClient /\ agents'[n] = NoClient,
         \A c \in open' : ~c.last, loops' = {}
  PROVE  Ordered' /\ Clears(r)
<1>1. ASSUME OthersSame(r), At(r)', servers' \subseteq {r},
             servers' # {} => req'[r].pc = "spawned"
      PROVE  Ordered'
  <2>1. Single' /\ \A p \in Requests : At(p)'
    BY <1>1, OnlyOne
  <2>2. Known' /\ OnePort' /\ Together' /\ Played' /\ Looping'
    BY <1>1 DEF Known, OnePort, Together, Played, Looping
  <2> QED BY <2>1, <2>2 DEF Ordered
<1>2. CASE /\ req' = [req EXCEPT ![r] = [q EXCEPT !.pc = "joining", !.k = 1,
                                                  !.port = Given]]
           /\ servers' = {} /\ serverPort' = Given
  <2> DEFINE x == [q EXCEPT !.pc = "joining", !.k = 1, !.port = Given]
  <2>1. /\ x \in Request /\ x.pc = "joining" /\ x.k = 1 /\ x.port = Given
        /\ x.cfg = q.cfg
    BY FirstRecord, Numbers
  <2>2. req' = [req EXCEPT ![r] = x]
    BY <1>2
  <2> HIDE DEF x
  <2>3. req'[r] = x /\ OthersSame(r)
    BY <2>2 DEF Shape, TypeOK, OthersSame
  <2>4. Free(q.cfg, 1)'
    BY Lists DEF Free, NoClient
  <2>5. At(r)'
    BY <1>2, <2>1, <2>3, <2>4 DEF At, Building
  <2> QED BY <1>1, <1>2, <2>1, <2>3, <2>5 DEF Clears
<1>3. CASE Goto(r, q, "spawned") /\ servers' = {} \cup {r} /\ serverPort' = NoPort
  <2>1. req'[r].pc = "spawned" /\ OthersSame(r)
    BY <1>3, GotoFields DEF Points
  <2>2. At(r)'
    BY <1>3, <2>1 DEF At, Building
  <2> QED BY <1>1, <1>3, <2>1, <2>2 DEF Clears
<1>4. CASE Goto(r, q, "failed") /\ servers' = {} /\ serverPort' = NoPort
  <2>1. req'[r].pc = "failed" /\ OthersSame(r)
    BY <1>4, GotoFields DEF Points
  <2>2. At(r)'
    BY <1>4, <2>1 DEF At, Building
  <2> QED BY <1>1, <1>4, <2>1, <2>2 DEF Clears
<1> QED BY <1>2, <1>3, <1>4 DEF OpenGame

LEMMA ShutOrdered ==
  ASSUME Shape, NEW r \in Requests, NEW q \in Request,
         q.cfg \in Configs \cup {<< >>},
         OthersRest(r), servers \subseteq {serverPort},
         ShutDown(r, q), \A c \in open' : ~c.last, loops' = {}
  PROVE  Ordered' /\ Clears(r)
<1>1. \A n \in Names : clients'[n] = NoClient /\ agents'[n] = NoClient
  BY DEF ShutDown
<1>2. servers \ {serverPort} = {}
  OBVIOUS
<1>3. CASE q.cfg = << >>
  <2>1. Goto(r, q, "ok") /\ servers' = {} /\ serverPort' = NoPort
    BY <1>2, <1>3 DEF ShutDown
  <2>2. req'[r].pc = "ok" /\ OthersSame(r)
    BY <2>1, GotoFields DEF Points
  <2>3. At(r)'
    BY <2>2 DEF At, Building, Active, Ended
  <2>4. Single' /\ \A p \in Requests : At(p)'
    BY <2>2, <2>3, OnlyOne
  <2>5. Known' /\ OnePort' /\ Together' /\ Played' /\ Looping'
    BY <1>1, <2>1 DEF Known, OnePort, Together, Played, Looping
  <2> QED BY <2>1, <2>4, <2>5 DEF Ordered, Clears
<1>4. CASE q.cfg # << >>
  <2>1. OpenGame(r, q, {}, NoPort)
    BY <1>2, <1>4 DEF ShutDown
  <2> QED BY <1>1, <1>4, <2>1, OpenOrdered
<1> QED BY <1>3, <1>4

LEMMA CloseOrdered ==
  ASSUME Shape, NEW r \in Requests, NEW q \in Request, q.k <= Len(q.cfg),
         q.cfg \in Configs \cup {<< >>},
         OthersRest(r), servers \subseteq {serverPort},
         Known, Together, Played,
         CloseClients(r, q), loops' = {}
  PROVE  Ordered' /\ Clears(r)
<1>1. CASE In(clients) = {} /\ ShutDown(r, q) /\ UNCHANGED open
  <2>1. \A c \in open : ~c.last
    BY <1>1 DEF Known, In, Shape
  <2> QED BY <1>1, <2>1, ShutOrdered
<1>2. ASSUME NEW n \in In(clients),
             open' = open \ {clients[n]},
             req' = [req EXCEPT ![r] = [q EXCEPT !.pc = "clients", !.seen = {n},
                                                 !.size = Cardinality(In(clients))]],
             UNCHANGED <<clients, agents, serverPort, servers>>
      PROVE  Ordered' /\ Clears(r)
  <2> DEFINE x == [q EXCEPT !.pc = "clients", !.seen = {n},
                            !.size = Cardinality(In(clients))]
  <2>0. n \in Names
    BY DEF In
  <2>1. x \in Request /\ x.pc = "clients" /\ x.seen = {n}
    BY <2>0, FirstName, InFinite
  <2>2. req' = [req EXCEPT ![r] = x]
    BY <1>2
  <2> HIDE DEF x
  <2>3. req'[r].pc = "clients" /\ req'[r].seen = {n} /\ OthersSame(r)
    BY <2>1, <2>2 DEF Shape, TypeOK, OthersSame
  <2>4. {n} \subseteq In(clients)' 
        /\ \A c \in open' : c.last => \E m \in Names \ {n} : clients'[m] = c
    BY <1>2, <2>0 DEF In, Known
  <2>5. At(r)'
    BY <2>3, <2>4 DEF At, Building
  <2>6. Single' /\ \A p \in Requests : At(p)'
    BY <2>3, <2>5, OnlyOne
  <2>7. Known' /\ OnePort' /\ Together' /\ Played' /\ Looping'
    BY <1>2 DEF Known, OnePort, Together, Played, Looping
  <2> QED BY <2>3, <2>6, <2>7 DEF Ordered, Clears
<1> QED BY <1>1, <1>2 DEF CloseClients

LEMMA BeginOrdered ==
  ASSUME Shape, NEW r \in Requests, NEW q \in Request, q.k <= Len(q.cfg),
         q.cfg \in Configs \cup {<< >>},
         OthersRest(r), servers \subseteq {serverPort},
         Known, Together, Played, BeginShutdown(r, q)
  PROVE  Ordered' /\ Clears(r)
<1>0. loops' = {}
  BY DEF BeginShutdown
<1>1. CASE CloseClients(r, q)
  BY <1>0, <1>1, CloseOrdered
<1>2. ASSUME NEW n \in In(agents),
             req' = [req EXCEPT ![r] = [q EXCEPT !.pc = "agents", !.seen = {n},
                                                 !.size = Cardinality(In(agents))]],
             UNCHANGED gameVars
      PROVE  Ordered' /\ Clears(r)
  <2> DEFINE x == [q EXCEPT !.pc = "agents", !.seen = {n},
                            !.size = Cardinality(In(agents))]
  <2>0. n \in Names
    BY DEF In
  <2>1. x \in Request /\ x.pc = "agents"
    BY <2>0, FirstName, InFinite
  <2>2. req' = [req EXCEPT ![r] = x]
    BY <1>2
  <2> HIDE DEF x
  <2>3. req'[r].pc = "agents" /\ OthersSame(r)
    BY <2>1, <2>2 DEF Shape, TypeOK, OthersSame
  <2>4. At(r)'
    BY <1>0, <2>3 DEF At, Building
  <2>5. Single' /\ \A p \in Requests : At(p)'
    BY <2>3, <2>4, OnlyOne
  <2>6. Known' /\ OnePort' /\ Together' /\ Played' /\ Looping'
    BY <1>0, <1>2 DEF gameVars, Known, OnePort, Together, Played, Looping
  <2> QED BY <2>3, <2>5, <2>6 DEF Ordered, Clears
<1> QED BY <1>1, <1>2 DEF BeginShutdown

\* The requests as they arrive.
LEMMA ArrivesOrdered ==
  ASSUME IInv, NEW r \in Requests, Delete(r) \/ Create(r), orderly'
  PROVE  Ordered' /\ Clears(r)
<1>1. Shape /\ Ordered /\ Alone(r) /\ req[r].pc = "idle"
  BY DEF IInv, Delete, Create, Arrives, Shape, TypeOK
<1>2. OthersRest(r)
  BY <1>1 DEF Alone, OthersRest
<1>3. servers \subseteq {serverPort}
  BY <1>1, <1>2, KnownServers DEF Ordered
<1>4. CASE Delete(r)
  <2>1. NewRequest \in Request /\ NewRequest.k <= Len(NewRequest.cfg)
        /\ NewRequest.cfg = << >> /\ BeginShutdown(r, NewRequest)
    BY <1>4, NewIsRequest DEF Delete, NewRequest
  <2> QED BY <1>1, <1>2, <1>3, <2>1, BeginOrdered DEF Ordered
<1>5. CASE Create(r)
  <2>0. ~HalfMade
    BY <1>5 DEF Create
  <2>1. PICK cfg \in Configs :
          LET q == [NewRequest EXCEPT !.cfg = cfg]
          IN  \/ In(agents) # {} /\ BeginShutdown(r, q)
              \/ /\ In(agents) = {}
                 /\ OpenGame(r, q, servers, serverPort)
                 /\ UNCHANGED <<clients, agents, open, loops>>
    BY <1>5 DEF Create
  <2> DEFINE q == [NewRequest EXCEPT !.cfg = cfg]
  <2>2. q \in Request /\ q.cfg = cfg /\ q.k = 0
    BY NewIsRequest, Lists DEF Request
  <2>3. q.k <= Len(q.cfg)
    BY <2>2, Lists
  <2>4. \/ BeginShutdown(r, q)
        \/ /\ In(agents) = {}
           /\ OpenGame(r, q, servers, serverPort)
           /\ UNCHANGED <<clients, agents, open, loops>>
    BY <2>1
  <2> HIDE DEF q
  <2>5. CASE BeginShutdown(r, q)
    BY <1>1, <1>2, <1>3, <2>2, <2>3, <2>5, BeginOrdered DEF Ordered
  <2>6. CASE /\ In(agents) = {} /\ OpenGame(r, q, servers, serverPort)
             /\ UNCHANGED <<clients, agents, open, loops>>
    <3>1. In(clients) = {} /\ serverPort = NoPort
      BY <2>0, <2>6 DEF HalfMade
    <3>2. \A n \in Names : clients'[n] = NoClient /\ agents'[n] = NoClient
      BY <2>6, <3>1 DEF In
    <3>3. servers = {}
      BY <1>1, <1>3, <3>1, Numbers DEF Shape, TypeOK
    <3>4. \A c \in open' : ~c.last
      BY <1>1, <2>6, <3>2 DEF Ordered, Known, Shape
    <3>5. loops' = {}
      <4>1. \A t \in loops : \E n \in Names : agents[n] = t.client
        BY <1>1 DEF Ordered, Looping
      <4>2. \A t \in loops : t.client # NoClient
        BY <1>1 DEF Shape
      <4> QED BY <2>6, <3>2, <4>1, <4>2
    <3>6. OpenGame(r, q, {}, NoPort)
      BY <2>6, <3>1, <3>3
    <3> QED BY <1>1, <1>2, <2>2, <3>2, <3>4, <3>5, <3>6, OpenOrdered
  <2> QED BY <2>4, <2>5, <2>6
<1> QED BY <1>4, <1>5

\* A step of a request that touches nothing else.
LEMMA Private ==
  ASSUME Shape, Ordered, NEW r \in Requests, OthersRest(r), req[r].pc # "spawned",
         OthersSame(r), At(r)', UNCHANGED <<gameVars, loops>>
  PROVE  Ordered'
<1>1. Single' /\ \A p \in Requests : At(p)'
  BY OnlyOne
<1>2. servers \subseteq {serverPort}
  BY KnownServers DEF Ordered
<1>3. Known' /\ OnePort' /\ Together' /\ Played' /\ Looping'
  BY <1>2 DEF Ordered, gameVars, Known, OnePort, Together, Played, Looping
<1> QED BY <1>1, <1>3 DEF Ordered

LEMMA FailOrdered ==
  ASSUME Shape, Ordered, NEW r \in Requests, OthersRest(r), req[r].pc # "spawned",
         Fail(r, req[r]), UNCHANGED loops
  PROVE  Ordered' /\ Clears(r)
<1>1. req'[r].pc = "failed" /\ OthersSame(r) /\ UNCHANGED gameVars
  BY FailOK DEF OthersSame
<1>2. At(r)'
  BY <1>1 DEF At, Building, Active, Ended
<1> QED BY <1>1, <1>2, Private DEF Clears

LEMMA SpawnedOrdered ==
  ASSUME Shape, Ordered, NEW r \in Requests, OthersRest(r), Spawned(r)
  PROVE  Ordered' /\ Clears(r)
<1>1. /\ req'[r].pc = "joining" /\ req'[r].k = 1 /\ req'[r].port = r
      /\ req'[r].cfg = req[r].cfg /\ req[r].cfg \in Configs /\ OthersSame(r)
  BY SpawnedOK DEF OthersSame
<1>2. /\ serverPort = NoPort /\ \A n \in Names : clients[n] = NoClient
      /\ \A n \in Names : agents[n] = NoClient
      /\ loops = {}
  BY DEF Ordered, At, Spawned, Building, Active, Ended
<1>3. /\ serverPort' = r
      /\ UNCHANGED <<clients, agents, servers, open, loops>>
  BY DEF Spawned
<1>4. servers \subseteq {r}
  <2> SUFFICES ASSUME NEW p \in servers, p # r PROVE FALSE
    OBVIOUS
  <2>1. p \in Requests /\ p # serverPort
    BY <1>2, Numbers DEF Shape, TypeOK
  <2>2. req[p].pc = "spawned"
    BY <2>1 DEF Ordered, OnePort
  <2> QED BY <2>1, <2>2 DEF OthersRest, Active, Ended
<1>5. Free(req[r].cfg, 1)'
  BY <1>1, <1>2, <1>3, Lists DEF Free, NoClient
<1>6. At(r)'
  BY <1>1, <1>2, <1>3, <1>5 DEF At, Building, Free
<1>7. Single' /\ \A p \in Requests : At(p)'
  BY <1>1, <1>6, OnlyOne
<1>8. Known' /\ OnePort' /\ Together' /\ Played' /\ Looping'
  BY <1>2, <1>3, <1>4 DEF Ordered, Known, OnePort, Together, Played, Looping
<1> QED BY <1>1, <1>7, <1>8 DEF Ordered, Clears

LEMMA JoinedOrdered ==
  ASSUME Shape, Ordered, NEW r \in Requests, OthersRest(r), Joined(r)
  PROVE  Ordered' /\ Clears(r)
<1> DEFINE cfg == req[r].cfg
           k == req[r].k
           c == Joining(r)
<1>1. /\ req'[r].pc = "joined" /\ req'[r].k = k
      /\ req'[r].cfg = cfg /\ cfg \in Configs /\ k \in 1..Len(cfg)
      /\ c \in Client /\ c # NoClient /\ c.port = req[r].port
      /\ c.last => \A j \in 1..Len(cfg) : j > k => cfg[j] # cfg[k]
      /\ OthersSame(r)
  BY JoinedOK DEF OthersSame, Joining
<1>2. /\ req[r].port = serverPort /\ Free(cfg, k)
      /\ \A n \in Names : agents[n] = NoClient
      /\ loops = {}
  BY DEF Ordered, At, Joined, Building, Active, Ended
<1>3. /\ open' = open \cup {c}
      /\ clients' = [clients EXCEPT ![cfg[k]] = c]
      /\ UNCHANGED <<agents, serverPort, servers, loops>>
  BY DEF Joined
<1>4. servers \subseteq {serverPort}
  BY KnownServers DEF Ordered, Joined
<1>5. clients \in [Names -> Client] /\ NoClient \notin open
  BY DEF Shape, TypeOK
<1> HIDE DEF cfg, k, c
<1>6. /\ cfg[k] \in Names /\ Len(cfg) \in Nat
      /\ \A i \in 1..Len(cfg) : cfg[i] \in Names
  BY <1>1, Lists
<1>7. ~clients[cfg[k]].last
  BY <1>1, <1>2 DEF Free
<1>8. /\ clients'[cfg[k]] = c
      /\ \A n \in Names : n # cfg[k] => clients'[n] = clients[n]
  BY <1>3, <1>5, <1>6
<1>9. Known'
  BY <1>3, <1>5, <1>6, <1>7, <1>8 DEF Ordered, Known
<1>10. \A j \in 1..Len(cfg) : j >= k + 1 => ~clients'[cfg[j]].last
  <2> SUFFICES ASSUME NEW j \in 1..Len(cfg), j >= k + 1
               PROVE  ~clients'[cfg[j]].last
    OBVIOUS
  <2>1. j > k /\ j >= k /\ cfg[j] \in Names
    BY <1>1, <1>6
  <2>2. CASE cfg[j] = cfg[k]
    BY <1>1, <1>8, <2>1, <2>2
  <2>3. CASE cfg[j] # cfg[k]
    BY <1>2, <1>8, <2>1, <2>3 DEF Free
  <2> QED BY <2>2, <2>3
<1>11. At(r)'
  BY <1>1, <1>2, <1>3, <1>10 DEF At, Building, Free
<1>12. Single' /\ \A p \in Requests : At(p)'
  BY <1>1, <1>11, OnlyOne
<1>13. Together'
  BY <1>1, <1>2, <1>3, <1>8 DEF Ordered, Together
<1>14. OnePort' /\ Played' /\ Looping'
  BY <1>2, <1>3, <1>4 DEF OnePort, Played, Looping
<1> QED BY <1>1, <1>9, <1>12, <1>13, <1>14 DEF Ordered, Clears

LEMMA JoinNextOrdered ==
  ASSUME Shape, Ordered, NEW r \in Requests, OthersRest(r), JoinNext(r)
  PROVE  Ordered' /\ Clears(r)
<1>1. /\ req'[r].pc = "joining" /\ req'[r].k = req[r].k + 1
      /\ req'[r].cfg = req[r].cfg /\ req'[r].port = serverPort /\ OthersSame(r)
  BY JoinNextOK DEF OthersSame
<1>2. UNCHANGED <<gameVars, loops>> /\ req[r].pc = "joined"
  BY DEF JoinNext, CanGoOn
<1>3. /\ Free(req[r].cfg, req[r].k + 1) /\ \A n \in Names : agents[n] = NoClient
      /\ loops = {}
  BY <1>2 DEF Ordered, At, Building, Active, Ended
<1>4. At(r)'
  BY <1>1, <1>2, <1>3 DEF At, Building, Free, gameVars
<1> QED BY <1>1, <1>2, <1>4, Private DEF Clears

LEMMA MakeAgentsOrdered ==
  ASSUME Shape, Ordered, NEW r \in Requests, OthersRest(r), MakeAgents(r)
  PROVE  Ordered' /\ Clears(r)
<1>1. /\ req'[r].pc \in {"settings", "failed"} /\ OthersSame(r)
      /\ \A n \in Names : agents'[n] = clients[n] \/ agents'[n] = agents[n]
  BY MakeAgentsOK DEF OthersSame
<1>2. req[r].pc = "joined" /\ UNCHANGED <<clients, serverPort, servers, open, loops>>
  BY DEF MakeAgents, CanGoOn
<1>3. (\A n \in Names : agents[n] = NoClient) /\ loops = {}
  BY <1>2 DEF Ordered, At, Building, Active, Ended
<1>4. At(r)'
  BY <1>1, <1>2, <1>3 DEF At, Building, Active, Ended
<1>5. Single' /\ \A p \in Requests : At(p)'
  BY <1>1, <1>4, OnlyOne
<1>6. servers \subseteq {serverPort}
  BY <1>2, KnownServers DEF Ordered
<1>7. Known' /\ OnePort' /\ Together' /\ Played' /\ Looping'
  BY <1>1, <1>2, <1>3, <1>6 DEF Ordered, Known, OnePort, Together, Played, Looping
<1> QED BY <1>1, <1>5, <1>7 DEF Ordered, Clears

LEMMA GreetOrdered ==
  ASSUME Shape, Ordered, NEW r \in Requests, OthersRest(r), Greet(r)
  PROVE  Ordered' /\ Clears(r)
<1>1. req'[r].pc \in {"waiting", "greeting"} /\ OthersSame(r)
  BY GreetOK DEF OthersSame
<1>2. req[r].pc = "settings" /\ UNCHANGED <<gameVars, loops>>
  BY DEF Greet
<1>3. loops = {}
  BY <1>2 DEF Ordered, At, Active, Ended
<1>4. At(r)'
  BY <1>1, <1>2, <1>3 DEF At, Building
<1> QED BY <1>1, <1>2, <1>4, Private DEF Clears

LEMMA GreetedOrdered ==
  ASSUME Shape, Ordered, NEW r \in Requests, OthersRest(r), Greeted(r)
  PROVE  Ordered' /\ Clears(r)
<1>1. req[r].pc = "greeting" /\ UNCHANGED loops /\ loops = {}
  BY DEF Greeted, Ordered, At, Active, Ended
<1>2. CASE NextName(r, clients) /\ UNCHANGED gameVars
  <2>1. req'[r].pc = "greeting" /\ OthersSame(r)
    BY <1>1, <1>2, NextNameOK DEF OthersSame
  <2>2. At(r)'
    BY <1>1, <2>1 DEF At, Building
  <2> QED BY <1>1, <1>2, <2>1, <2>2, Private DEF Clears
<1>3. CASE Goto(r, req[r], "waiting") /\ UNCHANGED gameVars
  <2>1. req[r] \in Request
    BY DEF Shape, TypeOK
  <2>2. req'[r].pc = "waiting" /\ OthersSame(r)
    BY <1>3, <2>1, GotoFields DEF Points
  <2>3. At(r)'
    BY <1>1, <2>2 DEF At, Building
  <2> QED BY <1>1, <1>3, <2>2, <2>3, Private DEF Clears
<1>4. CASE Fail(r, req[r])
  BY <1>1, <1>4, FailOrdered
<1> QED BY <1>2, <1>3, <1>4 DEF Greeted, SizeChanged

LEMMA StartLoopsOrdered ==
  ASSUME Shape, Ordered, NEW r \in Requests, OthersRest(r), StartLoops(r)
  PROVE  Ordered' /\ Clears(r)
<1>1. /\ req'[r].pc = "ok" /\ req'[r].cfg # << >> /\ OthersSame(r)
      /\ UNCHANGED gameVars
  BY StartLoopsOK DEF OthersSame
<1>2. req[r].pc = "waiting" /\ loops = {}
  BY DEF StartLoops, Ordered, At, Active, Ended
<1>3. loops' = {[by |-> r, client |-> agents[n]] : n \in In(agents)}
  BY <1>2 DEF StartLoops
<1>4. At(r)'
  BY <1>1 DEF At, Building, Active, Ended
<1>5. Single' /\ \A p \in Requests : At(p)'
  BY <1>1, <1>4, OnlyOne
<1>6. servers \subseteq {serverPort}
  BY <1>2, KnownServers DEF Ordered
<1>7. Known' /\ OnePort' /\ Together' /\ Played'
  BY <1>1, <1>6 DEF gameVars, Ordered, Known, OnePort, Together, Played
<1>8. Looping'
  <2>1. ASSUME NEW t \in loops'
        PROVE  t = [by |-> r, client |-> t.client] /\ \E n \in Names : agents[n] = t.client
    BY <1>3, <2>1 DEF In
  <2>2. \A t, u \in loops' : u.client = t.client => u = t
    BY <2>1
  <2> QED BY <1>1, <2>1, <2>2 DEF Looping, gameVars
<1> QED BY <1>1, <1>5, <1>7, <1>8 DEF Ordered, Clears

\* The iterations of shutdown.
LEMMA AgentClosedOrdered ==
  ASSUME Shape, Ordered, NEW r \in Requests, OthersRest(r), AgentClosed(r)
  PROVE  Ordered' /\ Clears(r)
<1>1. req[r].pc = "agents" /\ UNCHANGED loops /\ loops = {}
  BY DEF AgentClosed, Ordered, At, Active, Ended
<1>2. CASE NextName(r, agents) /\ UNCHANGED gameVars
  <2>1. req'[r].pc = "agents" /\ OthersSame(r)
    BY <1>1, <1>2, NextNameOK DEF OthersSame
  <2>2. At(r)'
    BY <1>1, <2>1 DEF At, Building
  <2> QED BY <1>1, <1>2, <2>1, <2>2, Private DEF Clears
<1>3. CASE CloseClients(r, req[r])
  <2>1. /\ req[r] \in Request /\ req[r].k <= Len(req[r].cfg)
        /\ req[r].cfg \in Configs \cup {<< >>}
    BY <1>1 DEF Shape, TypeOK, Sane, Closing
  <2>2. servers \subseteq {serverPort}
    BY <1>1, KnownServers DEF Ordered
  <2> QED BY <1>1, <1>3, <2>1, <2>2, CloseOrdered DEF Ordered
<1>4. CASE Fail(r, req[r])
  BY <1>1, <1>4, FailOrdered
<1> QED BY <1>2, <1>3, <1>4 DEF AgentClosed, SizeChanged

LEMMA ClientClosedOrdered ==
  ASSUME Shape, Ordered, NEW r \in Requests, OthersRest(r), ClientClosed(r)
  PROVE  Ordered' /\ Clears(r)
<1>1. /\ req[r].pc = "clients" /\ UNCHANGED loops /\ loops = {}
      /\ req[r].seen \subseteq In(clients)
      /\ \A c \in open : c.last => \E n \in Names \ req[r].seen : clients[n] = c
  BY DEF ClientClosed, Ordered, At, Active, Ended
<1>2. servers \subseteq {serverPort}
  BY <1>1, KnownServers DEF Ordered
<1>3. CASE /\ NextName(r, clients)
           /\ open' = open \ {clients[n] : n \in req'[r].seen \ req[r].seen}
           /\ UNCHANGED <<clients, agents, serverPort, servers>>
  <2>1. PICK n \in In(clients) \ req[r].seen :
          req'[r].seen = req[r].seen \cup {n} /\ req'[r].pc = req[r].pc
          /\ OthersSame(r)
    BY <1>3, NextNameOK DEF OthersSame
  <2>2. open' = open \ {clients[n]}
    BY <1>3, <2>1
  <2>3. /\ req'[r].seen \subseteq In(clients)'
        /\ \A c \in open' : c.last => \E m \in Names \ req'[r].seen : clients'[m] = c
    BY <1>1, <1>3, <2>1, <2>2 DEF In
  <2>4. At(r)'
    BY <1>1, <2>1, <2>3 DEF At, Building
  <2>5. Single' /\ \A p \in Requests : At(p)'
    BY <2>1, <2>4, OnlyOne
  <2>6. Known' /\ OnePort' /\ Together' /\ Played' /\ Looping'
    BY <1>1, <1>2, <1>3, <2>2 DEF Ordered, Known, OnePort, Together, Played, Looping
  <2> QED BY <1>1, <2>1, <2>5, <2>6 DEF Ordered, Clears
<1>4. CASE IterationEnds(r, clients) /\ ShutDown(r, req[r]) /\ UNCHANGED open
  <2>1. Cardinality(In(clients)) = Cardinality(req[r].seen)
    BY <1>4 DEF IterationEnds
  <2>2. req[r].seen = In(clients)
    BY <1>1, <2>1, InFinite, FS_Subset
  <2>3. \A c \in open : ~c.last
    BY <1>1, <2>2 DEF In, Shape
  <2>4. /\ req[r] \in Request /\ req[r].cfg \in Configs \cup {<< >>}
    BY <1>1 DEF Shape, TypeOK, Sane, Closing
  <2> QED BY <1>1, <1>2, <1>4, <2>3, <2>4, ShutOrdered
<1>5. CASE Fail(r, req[r])
  BY <1>1, <1>5, FailOrdered
<1> QED BY <1>3, <1>4, <1>5 DEF ClientClosed, SizeChanged

LEMMA ResumesOrdered ==
  ASSUME Shape, Ordered, NEW r \in Requests, Resumes(r)
  PROVE  Ordered' /\ Clears(r)
<1>1. Active(r)
  BY DEF Resumes, Spawned, Joined, JoinFails, FirstLost, JoinNext, CanGoOn,
         MakeAgents, Greet, Greeted, SendRaises, StartLoops, AgentClosed,
         ClientClosed, Active, Ended
<1>2. OthersRest(r)
  BY <1>1, Rest DEF Ordered
<1>3. CASE JoinFails(r) \/ FirstLost(r) \/ SendRaises(r)
  <2>1. req[r].pc # "spawned" /\ Fail(r, req[r]) /\ UNCHANGED loops
    BY <1>3 DEF JoinFails, FirstLost, SendRaises
  <2> QED BY <1>2, <2>1, FailOrdered
<1> QED BY <1>2, <1>3, SpawnedOrdered, JoinedOrdered, JoinNextOrdered,
           MakeAgentsOrdered, GreetOrdered, GreetedOrdered, StartLoopsOrdered,
           AgentClosedOrdered, ClientClosedOrdered DEF Resumes

LEMMA InitInv == Init => IInv
<1> SUFFICES ASSUME Init PROVE IInv
  OBVIOUS
<1>1. \A r \in Requests : req[r].pc = "idle"
  BY DEF Init, NewRequest
<1>2. Ordered
  BY <1>1 DEF Init, Ordered, Single, Known, OnePort, Together, Played, Looping, At,
              Active, Ended, Building
<1> QED BY <1>2, InitShape DEF IInv

LEMMA StepInv == IInv /\ [Next]_vars => IInv'
<1> SUFFICES ASSUME IInv, [Next]_vars, orderly' PROVE Ordered'
  BY StepShape DEF IInv
<1>0. Shape /\ (orderly => Ordered)
  BY DEF IInv
<1>1. ASSUME NEW r \in Requests, Delete(r) \/ Create(r) PROVE Ordered'
  BY <1>1, ArrivesOrdered
<1>2. ASSUME NEW r \in Requests, Resumes(r) PROVE Ordered'
  <2>1. orderly' = orderly
    BY <1>2 DEF Resumes, Spawned, Joined, JoinFails, FirstLost, JoinNext,
                MakeAgents, Greet, Greeted, SendRaises, StartLoops, AgentClosed,
                ClientClosed
  <2> QED BY <1>0, <1>2, <2>1, ResumesOrdered
<1>3. ASSUME NEW c \in open, Drop(c) PROVE Ordered'
  <2>1. /\ open' \subseteq open
        /\ UNCHANGED <<clients, agents, serverPort, servers, loops, req>> /\ Ordered
    BY <1>0, <1>3 DEF Drop
  <2>2. \A r \in Requests : At(r)'
    BY <2>1 DEF Ordered, At, Active, Ended, Free, In
  <2> QED BY <2>1, <2>2 DEF Ordered, Single, Active, Ended, Known, OnePort, Together,
                            Played, Looping
<1>4. ASSUME NEW t \in loops, LoopEnds(t) PROVE Ordered'
  <2>1. /\ loops' \subseteq loops
        /\ UNCHANGED <<clients, agents, serverPort, servers, open, req>> /\ Ordered
    BY <1>0, <1>4 DEF LoopEnds, gameVars
  <2>2. \A r \in Requests : At(r)'
    BY <2>1 DEF Ordered, At, Active, Ended, Free, In
  <2> QED BY <2>1, <2>2 DEF Ordered, Single, Active, Ended, Known, OnePort, Together,
                            Played, Looping
<1>5. CASE UNCHANGED vars
  <2>1. /\ UNCHANGED <<clients, agents, serverPort, servers, open, loops, req>>
        /\ Ordered
    BY <1>0, <1>5 DEF vars, gameVars
  <2>2. \A r \in Requests : At(r)'
    BY <2>1 DEF Ordered, At, Active, Ended, Free, In
  <2> QED BY <2>1, <2>2 DEF Ordered, Single, Active, Ended, Known, OnePort, Together,
                            Played, Looping
<1> QED BY <1>1, <1>2, <1>3, <1>4, <1>5 DEF Next

\* A step of one request leaves the others where they are.
LEMMA OthersKept ==
  ASSUME Shape, NEW r \in Requests, Delete(r) \/ Create(r) \/ Resumes(r)
  PROVE  OthersSame(r)
<1>0. req \in [Requests -> Request]
  BY DEF Shape, TypeOK
<1>1. ASSUME NEW x, req' = [req EXCEPT ![r] = x]
      PROVE  OthersSame(r)
  BY <1>0, <1>1 DEF OthersSame
<1>2. ASSUME NEW q, NEW point, Goto(r, q, point)
      PROVE  OthersSame(r)
  BY <1>1, <1>2 DEF Goto
<1>3. ASSUME NEW q, NEW s, NEW p, OpenGame(r, q, s, p)
      PROVE  OthersSame(r)
  BY <1>1, <1>2, <1>3 DEF OpenGame
<1>4. ASSUME NEW q, ShutDown(r, q)
      PROVE  OthersSame(r)
  <2>1. CASE Goto(r, q, "ok")
    BY <1>2, <2>1
  <2>2. CASE OpenGame(r, q, servers \ {serverPort}, NoPort)
    BY <1>3, <2>2
  <2> QED BY <1>4, <2>1, <2>2 DEF ShutDown
<1>5. ASSUME NEW q, CloseClients(r, q)
      PROVE  OthersSame(r)
  BY <1>1, <1>4, <1>5 DEF CloseClients
<1>6. ASSUME NEW q, BeginShutdown(r, q)
      PROVE  OthersSame(r)
  BY <1>1, <1>5, <1>6 DEF BeginShutdown
<1>7. CASE Delete(r)
  BY <1>6, <1>7 DEF Delete
<1>8. CASE Create(r)
  <2>1. PICK cfg \in Configs :
          \/ BeginShutdown(r, [NewRequest EXCEPT !.cfg = cfg])
          \/ OpenGame(r, [NewRequest EXCEPT !.cfg = cfg], servers, serverPort)
    BY <1>8 DEF Create
  <2> QED BY <1>3, <1>6, <2>1
<1>9. CASE Fail(r, req[r])
  BY <1>2, <1>9 DEF Fail
<1>10. CASE JoinFails(r) \/ FirstLost(r) \/ SendRaises(r)
  BY <1>9, <1>10 DEF JoinFails, FirstLost, SendRaises
<1>11. CASE Spawned(r) \/ Joined(r) \/ JoinNext(r)
  BY <1>11, SpawnedOK, JoinedOK, JoinNextOK DEF OthersSame
<1>12. CASE MakeAgents(r) \/ Greet(r) \/ StartLoops(r)
  BY <1>12, MakeAgentsOK, GreetOK, StartLoopsOK DEF OthersSame
<1>13. ASSUME NEW dict, NextName(r, dict)
       PROVE  OthersSame(r)
  BY <1>13, NextNameOK DEF OthersSame
<1>14. CASE Greeted(r)
  BY <1>2, <1>9, <1>13, <1>14 DEF Greeted, SizeChanged
<1>15. CASE AgentClosed(r)
  BY <1>5, <1>9, <1>13, <1>15 DEF AgentClosed, SizeChanged
<1>16. CASE ClientClosed(r)
  BY <1>4, <1>9, <1>13, <1>16 DEF ClientClosed, SizeChanged
<1> QED BY <1>7, <1>8, <1>10, <1>11, <1>12, <1>14, <1>15, <1>16 DEF Resumes

-----------------------------------------------------------------------------
(* Theorems.                                                               *)

\* The orchestrator's fields, the game's connections and every request keep their
\* types, in whatever order requests arrive (server.py:215-298).
THEOREM TypeCorrect == Spec => []TypeOK
<1>1. IInv => TypeOK
  BY DEF IInv, Shape
<1> QED BY InitInv, StepInv, <1>1, PTL DEF Spec

\* Orderly callers lose no connection but those whose names their requests repeat:
\* every other open client is one that shutdown closes (server.py:242-251, 292-293).
THEOREM ClientsAreKnown == Spec => []NoStrayClient
<1>1. IInv => NoStrayClient
  BY DEF IInv, Ordered, Known, NoStrayClient
<1> QED BY InitInv, StepInv, <1>1, PTL DEF Spec

\* Orderly callers lose no server: the running one is the one shutdown kills
\* (server.py:237-239, 296-298).
THEOREM ServersAreKnown == Spec => []NoStrayServer
<1>1. IInv => NoStrayServer
  BY DEF IInv, Ordered, OnePort, NoStrayServer
<1> QED BY InitInv, StepInv, <1>1, PTL DEF Spec

\* One game loop per agent, playing its registered client (server.py:281-289).
THEOREM AgentsPlayedOnce == Spec => []OneLoopEach
<1>1. IInv => OneLoopEach
  <2> SUFFICES ASSUME IInv, orderly, NEW t \in loops
               PROVE  /\ \E n \in Names : agents[n] = t.client /\ clients[n] = t.client
                      /\ \A u \in loops : u.client = t.client => u = t
    BY DEF OneLoopEach
  <2>1. t.client # NoClient /\ Played /\ Looping
    BY DEF IInv, Ordered, Shape
  <2> QED BY <2>1 DEF Played, Looping
<1> QED BY InitInv, StepInv, <1>1, PTL DEF Spec

\* The clients of a game are all connected to its server (server.py:239-251).
THEOREM ClientsTogether == Spec => []SameServer
<1>1. IInv => SameServer
  BY DEF IInv, Ordered, Together, SameServer
<1> QED BY InitInv, StepInv, <1>1, PTL DEF Spec

\* A DELETE /game that is answered with success leaves no server and no game loop
\* behind, and no connection but those whose names a request repeated
\* (server.py:251, 286-298, 437-440).
THEOREM DeletionClears == Spec => DeleteClears
<1>1. IInv /\ [Next]_vars => [Clearing]_vars
  <2> DEFINE Gone == (\A c \in open' : ~c.last) /\ servers' = {} /\ loops' = {}
  <2> SUFFICES ASSUME IInv, Next, orderly, orderly', NEW p \in Requests, ~Ended(p),
                      req'[p].pc = "ok", req'[p].cfg = << >>
               PROVE  Gone
    BY DEF Clearing
  <2>0. Shape /\ Ordered
    BY DEF IInv
  <2>1. ASSUME NEW r \in Requests, Delete(r) \/ Create(r) \/ Resumes(r)
        PROVE  Gone
    <3>1. OthersSame(r)
      BY <2>0, <2>1, OthersKept
    <3>2. p = r
      BY <3>1 DEF OthersSame, Ended
    <3>3. Clears(r)
      BY <2>0, <2>1, ArrivesOrdered, ResumesOrdered
    <3> QED BY <3>2, <3>3 DEF Clears
  <2>2. ASSUME NEW c \in open, Drop(c)
        PROVE  FALSE
    BY <2>2 DEF Drop, Ended
  <2>3. ASSUME NEW t \in loops, LoopEnds(t)
        PROVE  FALSE
    BY <2>3 DEF LoopEnds, Ended
  <2> QED BY <2>1, <2>2, <2>3 DEF Next
<1> QED BY InitInv, StepInv, <1>1, PTL DEF Spec, DeleteClears
=============================================================================
