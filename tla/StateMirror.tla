---------------------------- MODULE StateMirror ----------------------------
(***************************************************************************)
(* What an agent is told of its game: GameClient mirrors the server's      *)
(* packets (game_client.py), the tracker compares what it is asked for     *)
(* with what it was asked for last (state_api.py), and the client picks    *)
(* the next research by itself, in a coroutine of its own.                 *)
(*                                                                         *)
(* The server is external: it tells the owner of a thing everything, and   *)
(* others the owner and little else.                                       *)
(***************************************************************************)
EXTENDS Integers, Sequences, FiniteSets

CONSTANTS
  Things,       \* units and cities the client may come to see
  Cities,       \* those that are cities
  Players, Me,  \* the numbers of players, and the client's
  Golds,        \* sums of gold
  Techs,        \* the numbers of technologies, in the order of the ruleset
  Priority,     \* PRIORITY_TECHS: a sequence of some
  Requires,     \* what each of them requires
  Readers,      \* who asks for the changes
  MaxNet,       \* bound: packets on their way
  MaxChanges,   \* bound: changes at the server
  MaxAnswers,   \* bound: answers of the tracker
  None          \* nothing yet

VARIABLES
  world,        \* server: the owner of every thing that is in sight
  gold, known, researching,  \* server: the player's gold, technologies, research
  net,          \* packets to the client, first sent first
  state,        \* the client's GameState
  picks,        \* coroutines of _auto_pick_research that are to run
  wire,         \* requests for a research on their way to the server
  snap,         \* the tracker's snapshot under the agent's name
  answer,       \* the last answer's reader and state
  told, missed, \* what each reader makes of its answers; history: who missed one
  changes, answers    \* bounds

vars == <<world, gold, known, researching, net, state, picks, wire, snap, answer, told, missed, changes, answers>>

server == <<world, gold, known, researching>>
readers == <<snap, answer, told, missed, answers>>

NoTech == -1
Unknown == 0
PrereqsKnown == 1
Known == 2
Level(t) == IF t \in known THEN Known ELSE IF Requires[t] \subseteq known THEN PrereqsKnown ELSE Unknown
Inventions == [t \in Techs |-> Level(t)]

-----------------------------------------------------------------------------
\* GameState() and the packet handlers of GameClient.
Nothing == [i \in {} |-> None]
NewState ==
  [me |-> None, things |-> Nothing, gold |-> 0, researching |-> NoTech, inventions |-> None]

Put(f, i, x) == [j \in DOMAIN f \cup {i} |-> IF j = i THEN x ELSE f[j]]
Without(f, i) == [j \in DOMAIN f \ {i} |-> f[j]]

Full(s, id) == id \in DOMAIN s.things /\ s.things[id].full

\* A thing's own packet takes the place of what was known, a short one and its
\* own fields are added; a packet of a thing that is not known makes it known.
Handled(s, p) ==
  CASE p.type \in {"info", "short"} ->
         [s EXCEPT !.things = Put(@, p.id, [owner |-> p.owner, full |-> p.type = "info" \/ Full(s, p.id)])]
    [] p.type = "remove" -> [s EXCEPT !.things = Without(@, p.id)]
    [] p.type = "player" -> [s EXCEPT !.gold = p.gold]
    [] p.type = "conn" -> [s EXCEPT !.me = p.player]
    [] OTHER -> [s EXCEPT !.researching = p.researching, !.inventions = p.inventions]

\* _handle_packet.  A research that ended with none after it is picked at once,
\* by a coroutine that keeps the packet.
Handle ==
  /\ net # <<>> /\ net' = Tail(net)
  /\ state' = Handled(state, Head(net))
  /\ picks' = IF /\ Head(net).type = "research"
                 /\ state.researching # NoTech /\ Head(net).researching = NoTech
              THEN Append(picks, Head(net).inventions) ELSE picks
  /\ UNCHANGED <<server, wire, readers, changes>>

\* _auto_pick_research: the first name on the list that is not 1, or any.
Pick(inventions) ==
  LET wanted == {i \in DOMAIN Priority : inventions[Priority[i]] # 1}
      rest == {t \in Techs : inventions[t] # 1}
  IN  IF wanted # {} THEN {Priority[i] : i \in {k \in wanted : \A j \in wanted : k <= j}}
      ELSE {t \in rest : \A u \in rest : t <= u}

\* What was asked for, by whom, and its level in the packet it was asked upon.
Request(by, tech, level) == [by |-> by, tech |-> tech, level |-> level]

AutoPick ==
  /\ picks # <<>> /\ picks' = Tail(picks)
  /\ LET pick == Pick(Head(picks))
     IN  IF pick = {} THEN UNCHANGED wire
         ELSE \E t \in pick : wire' = Append(wire, Request("client", t, Head(picks)[t]))
  /\ UNCHANGED <<server, net, state, readers, changes>>

\* set_research_target: a technology "already known" is refused.  Bound: one
\* request at a time.
SetResearchTarget(t) ==
  /\ state.inventions # None /\ wire = <<>>
  /\ state.inventions[t] # 1
  /\ wire' = Append(wire, Request("agent", t, state.inventions[t]))
  /\ UNCHANGED <<server, net, state, picks, readers, changes>>

-----------------------------------------------------------------------------
\* game_state_to_json, as far as changes are told from it.
Of(s, ids) == {i \in ids \cap DOMAIN s.things : s.things[i].owner = s.me}
Json(s) ==
  [cities |-> Of(s, Cities), units |-> Of(s, Things \ Cities),
   enemies |-> {i \in DOMAIN s.things \ Cities : s.things[i].owner # s.me},
   gold |-> IF s.me = None THEN 0 ELSE s.gold, research |-> s.researching]

\* compute_turn_delta
Delta(prev, curr) ==
  [gold_change |-> curr.gold - prev.gold,
   new_cities |-> curr.cities \ prev.cities, lost_cities |-> prev.cities \ curr.cities,
   new_units |-> curr.units \ prev.units, lost_units |-> prev.units \ curr.units,
   research_changed |-> IF prev.research = curr.research THEN <<>> ELSE <<curr.research>>,
   new_enemies_visible |-> curr.enemies \ prev.enemies,
   enemies_disappeared |-> Cardinality(prev.enemies \ curr.enemies)]

\* What a reader makes of a state, and of changes to what it knew.
Learnt(s) == [s EXCEPT !.enemies = Cardinality(s.enemies)]
Fold(t, d) ==
  [cities |-> (t.cities \ d.lost_cities) \cup d.new_cities,
   units |-> (t.units \ d.lost_units) \cup d.new_units,
   enemies |-> t.enemies + Cardinality(d.new_enemies_visible) - d.enemies_disappeared,
   gold |-> t.gold + d.gold_change,
   research |-> IF d.research_changed = <<>> THEN t.research ELSE d.research_changed[1]]

\* StateTracker.snapshot: asked for by the reader r, who begins with the state
\* that comes with the first answer.
Snapshot(r) ==
  /\ answers < MaxAnswers /\ answers' = answers + 1
  /\ snap' = Json(state)
  /\ told' = [told EXCEPT ![r] = IF told[r] = None THEN Learnt(snap') ELSE Fold(told[r], Delta(snap, snap'))]
  /\ answer' = [to |-> r, current |-> Json(state)]
  /\ missed' = missed \cup {q \in Readers \ {r} : told[q] # None}
  /\ UNCHANGED <<server, net, state, picks, wire, changes>>

-----------------------------------------------------------------------------
\* The server.

Changes == changes < MaxChanges /\ changes' = changes + 1 /\ Len(net) < MaxNet
Tells(p) == net' = Append(net, p)
Research(r, inv) == [type |-> "research", researching |-> r, inventions |-> inv]

\* A thing comes into sight or changes hands.
Shows(id, owner) ==
  /\ Changes /\ (id \in DOMAIN world => world[id] # owner)
  /\ world' = Put(world, id, owner)
  /\ Tells([type |-> IF owner = Me THEN "info" ELSE "short", id |-> id, owner |-> owner])
  /\ UNCHANGED <<gold, known, researching, state, picks, wire, readers>>

Hides(id) ==
  /\ Changes /\ id \in DOMAIN world
  /\ world' = Without(world, id)
  /\ Tells([type |-> "remove", id |-> id])
  /\ UNCHANGED <<gold, known, researching, state, picks, wire, readers>>

Pays(g) ==
  /\ Changes /\ g # gold /\ gold' = g /\ Tells([type |-> "player", gold |-> g])
  /\ UNCHANGED <<world, known, researching, state, picks, wire, readers>>

\* A technology is learnt; the goal may name the next.
Learns ==
  /\ Changes /\ researching # NoTech
  /\ known' = known \cup {researching}
  /\ researching' \in {NoTech} \cup {t \in Techs \ known' : Requires[t] \subseteq known'}
  /\ Tells(Research(researching', Inventions'))
  /\ UNCHANGED <<world, gold, state, picks, wire, readers>>

\* A request for what cannot be researched is refused.
Receives ==
  /\ wire # <<>> /\ wire' = Tail(wire) /\ Len(net) < MaxNet
  /\ LET t == Head(wire).tech
     IN  IF Level(t) = PrereqsKnown
         THEN researching' = t /\ Tells(Research(t, Inventions))
         ELSE UNCHANGED <<researching, net>>
  /\ UNCHANGED <<world, gold, known, state, picks, readers, changes>>

\* Another game under the agent's name: the client is new, the tracker is not.
NewGame ==
  /\ changes < MaxChanges /\ changes' = changes + 1
  /\ world' = Nothing /\ gold' = 0 /\ known' = {} /\ researching' = NoTech
  /\ net' = <<[type |-> "conn", player |-> Me]>>
  /\ state' = NewState
  /\ picks' = <<>> /\ wire' = <<>>
  /\ UNCHANGED readers

-----------------------------------------------------------------------------
Init ==
  /\ world = Nothing /\ gold = 0 /\ known = {} /\ researching \in Techs
  /\ Requires[researching] = {}
  /\ net = <<[type |-> "conn", player |-> Me], Research(researching, Inventions)>>
  /\ state = NewState
  /\ picks = <<>> /\ wire = <<>>
  /\ snap = None /\ told = [r \in Readers |-> None] /\ answer = None /\ missed = {}
  /\ changes = 0 /\ answers = 0

Next ==
  \/ Handle \/ AutoPick \/ \E t \in Techs : SetResearchTarget(t)
  \/ \E r \in Readers : Snapshot(r)
  \/ \E id \in Things : Hides(id) \/ \E owner \in Players : Shows(id, owner)
  \/ \E g \in Golds : Pays(g)
  \/ Learns \/ Receives \/ NewGame

Spec == Init /\ [][Next]_vars

-----------------------------------------------------------------------------
TypeOK ==
  /\ DOMAIN state.things \subseteq Things /\ state.me \in {None, Me}
  /\ researching \in Techs \cup {NoTech} /\ missed \subseteq Readers
  /\ Len(net) <= MaxNet + 1

\* The packets on their way that are about a thing, or of a type, and the last of
\* them.
AboutThing(id) == {k \in DOMAIN net : net[k].type \in {"info", "short", "remove"} /\ net[k].id = id}
OfType(type) == {k \in DOMAIN net : net[k].type = type}
Latest(ks) == {k \in ks : \A j \in ks : j <= k}

\* The last packet on its way about a thing says what the server shows of it, and
\* so does the mirror when there is none; so it is with gold and research.  Of
\* what is the player's own the client has everything.
MirrorFollows ==
  /\ \A id \in Things :
       /\ AboutThing(id) = {} =>
            /\ id \in DOMAIN state.things <=> id \in DOMAIN world
            /\ id \in DOMAIN world => state.things[id].owner = world[id]
       /\ \A k \in Latest(AboutThing(id)) :
            /\ net[k].type = "remove" <=> id \notin DOMAIN world
            /\ id \in DOMAIN world => net[k].owner = world[id]
  /\ OfType("player") = {} => state.gold = gold
  /\ \A k \in Latest(OfType("player")) : net[k].gold = gold
  /\ OfType("research") = {} => state.researching = researching
  /\ \A k \in Latest(OfType("research")) : net[k].researching = researching
  /\ \A id \in DOMAIN state.things : state.things[id].owner = Me => state.things[id].full

\* A reader that has missed no answer has, from the first state and the changes
\* alone, the state that came with its last answer, whatever games came between.
ReaderKnows ==
  (answer # None /\ answer.to \notin missed) => told[answer.to] = Learnt(answer.current)

MirrorTells == TypeOK /\ MirrorFollows /\ ReaderKnows

\* "Auto-pick next research when current one completes" (game_client.py:692):
\* what the client asks for can be researched, as far as the packet says.
PicksResearchable == \A i \in DOMAIN wire : wire[i].by = "client" => wire[i].level = PrereqsKnown
=============================================================================
