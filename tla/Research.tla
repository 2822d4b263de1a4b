------------------------------ MODULE Research ------------------------------
(***************************************************************************)
(* Research in the web client: the packets of research, the technology     *)
(* tree, the dialog that announces a technology and offers the next ones,  *)
(* and the label of the bulbs.  The tree and the dialogs read their        *)
(* module's table of technologies, which globalRegistry.ts copies once and *)
(* handle_ruleset_control replaces on the window: it stays empty.  live is *)
(* TRUE for the table the code is written for, the window's.               *)
(***************************************************************************)
EXTENDS Naturals, Integers, Sequences, FiniteSets, FiniteSetsExt

CONSTANTS
  Techs,        \* the technologies of the ruleset: positive numbers
  Requires,     \* the values of a technology's research_reqs; 0 is A_NONE
  Players, Me,  \* the players, and the one of this client
  TeamOf,       \* a player's team
  Varies,       \* what differs between games: a set of [pooled, pbem, observer]
  MaxNet,       \* bound: packets on their way
  MaxAsked,     \* bound: requests on their way
  Nothing       \* no dialog, no label

VARIABLES
  live,         \* whether the dialogs see the ruleset's technologies
  game,         \* which kind of game this is
  known,        \* what the server counts as known, by research
  wants,        \* what the server researches and aims at, by research
  net,          \* research packets on their way to the client
  asked,        \* requests on their way to the server
  data,         \* research_data
  mirror,       \* the research fields of players
  canvas,       \* the tree's canvas: "fresh", "ready" (is_tech_tree_init) or "gone"
  shown,        \* what the tree, or the list of an observer, shows
  clicked,      \* clicked_tech_id
  gained,       \* the dialog of a gained technology, with its choices
  ended,        \* pbem_phase_ended
  stored,       \* the technology kept for the player's next turn
  due,          \* whether bulbs_output_updater is to fire
  label         \* the label of the bulbs

vars == <<live, game, known, wants, net, asked, data, mirror, canvas, shown, clicked,
          gained, ended, stored, due, label>>

Unknown == 0
Prereqs == 1
Known   == 2
Unset   == 0

Ids == Techs \cup {0}
Researches == Players \cup {TeamOf[p] : p \in Players}
IdOf(p) == IF game.pooled THEN TeamOf[p] ELSE p

Needs(t) == {Requires[t][i] : i \in DOMAIN Requires[t]} \ {0}

(* The states of the server's packet. *)
Inventions(set) ==
  [t \in Techs |-> IF t \in set THEN Known ELSE IF Needs(t) \subseteq set THEN Prereqs ELSE Unknown]

(* The dialog module's table. *)
Table == IF live THEN Techs ELSE {}

(* playerInventionState: TECH_UNKNOWN for what no packet told. *)
StateIn(m, p, t) == IF t \in DOMAIN m[p].inventions THEN m[p].inventions[t] ELSE Unknown
State(p, t) == StateIn(mirror, p, t)

(* isTechReqForGoal: is a technology on the way to another.                *)
IsTechReqForGoal(check, goal) ==
  LET leads[g \in Ids] ==
        \/ check = g
        \/ /\ g # 0 /\ check # 0
           /\ \E i \in DOMAIN Requires[g] : check = Requires[g][i] \/ leads[Requires[g][i]]
  IN leads[goal]

(* isTechReqForTech: is it asked for by another.  get_advances_text lists   *)
(* those that ask for it.                                                   *)
IsTechReqForTech(check, next) == check # next /\ next # 0 /\ check \in Needs(next)
Advances(t) == {next \in Table : IsTechReqForTech(t, next)}

(* update_tech_tree: the boxes that are marked, as researched or as the     *)
(* goal, and those not yet known that lead to the goal.                     *)
Marked ==
  {t \in Table : \/ State(Me, t) = Prereqs /\ mirror[Me].researching = t
                 \/ State(Me, t) = Unknown /\ mirror[Me].goal = t}
Leading == {t \in Table : State(Me, t) # Known /\ IsTechReqForGoal(t, mirror[Me].goal)}

(* init_tech_screen and update_tech_tree find the canvas once.  The list of *)
(* an observer replaces it (show_observer_tech_dialog).                     *)
Screen ==
  IF game.observer
  THEN canvas' = "gone"
       /\ shown' = {data[r].researching : r \in DOMAIN data \cap Players} \cap Table
  ELSE canvas' = (IF canvas = "fresh" THEN "ready" ELSE canvas)
       /\ shown' = (IF canvas # "gone" THEN Marked \cup Leading ELSE shown)

(* getCurrentBulbsOutput, but for what the cities make, whose packets do    *)
(* not bring the label up to date.  The number of known technologies stands *)
(* for a player's tech_upkeep.                                              *)
Upkeep(m, p) == Cardinality({t \in Techs : StateIn(m, p, t) = Known})
BulbsOf(m, g) ==
  LET mates == {p \in Players : TeamOf[p] = TeamOf[Me]}
      pooled == g.pooled /\ mates # {Me}
  IN IF g.observer THEN [upkeep |-> 0, pooled |-> FALSE]
     ELSE [upkeep |-> FoldSet(LAMBDA p, n : n + Upkeep(m, p), 0, IF pooled THEN mates ELSE {Me}),
           pooled |-> pooled]
Bulbs == BulbsOf(mirror, game)

Init ==
  /\ live \in BOOLEAN
  /\ game \in Varies
  /\ known = [r \in Researches |-> {}]
  /\ wants = [r \in Researches |-> [researching |-> Unset, goal |-> Unset]]
  /\ net = <<>> /\ asked = {}
  /\ data = <<>>
  /\ mirror = [p \in Players |-> [inventions |-> <<>>, researching |-> Unset, goal |-> Unset]]
  /\ canvas = "fresh" /\ shown = {} /\ clicked = Unset
  /\ gained = Nothing /\ ended = FALSE /\ stored = Unset
  /\ due = FALSE /\ label = Nothing

Server == <<known, wants>>
Dialogs == <<canvas, shown, clicked, gained, stored>>
Panel == <<due, label>>
Fixed == <<live, game>>

-----------------------------------------------------------------------------
(* The server: a technology is learnt, or a request is taken; it tells the  *)
(* client of each change, and of what it knew when the client came.         *)
Packet(r) == [id |-> r, known |-> known[r], wants |-> wants[r]]

ServerTells(r) ==
  /\ Len(net) < MaxNet
  /\ net' = Append(net, Packet(r))
  /\ UNCHANGED <<Fixed, Server, asked, data, mirror, Dialogs, ended, Panel>>

ServerLearns(r, t) ==
  /\ Len(net) < MaxNet
  /\ t \notin known[r] /\ Needs(t) \subseteq known[r]
  /\ known' = [known EXCEPT ![r] = @ \cup {t}]
  /\ wants' = [wants EXCEPT ![r].researching = IF @ = t THEN Unset ELSE @,
                            ![r].goal = IF @ = t THEN Unset ELSE @]
  /\ net' = Append(net, [id |-> r, known |-> known'[r], wants |-> wants'[r]])
  /\ UNCHANGED <<Fixed, asked, data, mirror, Dialogs, ended, Panel>>

ServerTakes(q) ==
  /\ q \in asked /\ Len(net) < MaxNet
  /\ asked' = asked \ {q}
  /\ LET r == IdOf(Me)
         ok == q.tech \notin known[r] /\ (q.what = "research" => Needs(q.tech) \subseteq known[r])
     IN /\ wants' = IF ~ok THEN wants
                    ELSE IF q.what = "research" THEN [wants EXCEPT ![r].researching = q.tech]
                    ELSE [wants EXCEPT ![r].goal = q.tech]
        /\ net' = Append(net, [id |-> r, known |-> known[r], wants |-> wants'[r]])
  /\ UNCHANGED <<Fixed, known, data, mirror, Dialogs, ended, Panel>>

-----------------------------------------------------------------------------
\* Mutant: whatever is not known yet is offered.
TechChoicesUnknown == {t \in Table : State(Me, t)' # Known}

(* show_tech_gained_dialog: what may be researched next is offered.        *)
TechChoices == {t \in Table : State(Me, t)' = Prereqs}

ShowTechGained(t) ==
  gained' = IF game.observer \/ t \notin Table THEN gained
            ELSE [tech |-> t, leads |-> Advances(t), choices |-> TechChoices]

(* queue_tech_gained_dialog *)
QueueTechGained(t) ==
  IF game.observer THEN UNCHANGED <<gained, stored>>
  ELSE IF game.pbem /\ ended THEN stored' = t /\ UNCHANGED gained
  ELSE ShowTechGained(t) /\ UNCHANGED stored

(* The technologies a packet newly counts as known, against the last one. *)
News(packet, old) ==
  {t \in Techs : Inventions(packet.known)[t] = Known /\ Inventions(old)[t] # Known}

(* handle_research_info: the research is kept, copied to the player, or to  *)
(* the players of the team, and the first technology that is new is         *)
(* announced.  The window's is_tech_tree_init and tech_dialog_active are    *)
(* what they were at the start: the tree is not redrawn.                    *)
HandleResearchInfo ==
  /\ net # <<>>
  /\ net' = Tail(net)
  /\ LET packet == Head(net)
         told == {p \in Players : IF game.pooled THEN TeamOf[p] = packet.id ELSE p = packet.id}
         first == packet.id \notin DOMAIN data
         new == IF first THEN {} ELSE News(packet, data[packet.id].known)
     IN /\ data' = [r \in DOMAIN data \cup {packet.id} |->
                      IF r = packet.id
                      THEN [known |-> packet.known, researching |-> packet.wants.researching]
                      ELSE data[r]]
        /\ mirror' = [p \in Players |->
             IF p \in told THEN [inventions |-> Inventions(packet.known),
                                 researching |-> packet.wants.researching,
                                 goal |-> packet.wants.goal]
             ELSE mirror[p]]
        /\ IF ~game.observer /\ Me = packet.id /\ new # {}
           THEN QueueTechGained(CHOOSE t \in new : \A u \in new : t <= u)
           ELSE UNCHANGED <<gained, stored>>
  /\ due' = TRUE
  /\ UNCHANGED <<Fixed, Server, asked, canvas, shown, clicked, ended, label>>

(* removeCity: a city makes no bulbs any more.                              *)
RemoveCity ==
  /\ due' = TRUE
  /\ UNCHANGED <<Fixed, Server, net, asked, data, mirror, Dialogs, ended, label>>

(* update_bulbs_output_info, when bulbs_output_updater fires.               *)
UpdateBulbs ==
  /\ due
  /\ due' = FALSE
  /\ label' = Bulbs
  /\ UNCHANGED <<Fixed, Server, net, asked, data, mirror, Dialogs, ended>>

(* The tab of the tree is opened, or the dialog's button is pressed.        *)
UpdateTechScreen(byDialog) ==
  /\ byDialog => gained # Nothing
  /\ gained' = IF byDialog THEN Nothing ELSE gained
  /\ Screen
  /\ UNCHANGED <<Fixed, Server, net, asked, data, mirror, clicked, ended, stored, Panel>>

(* send_player_research and send_player_tech_goal.  The former closes the   *)
(* dialog of a gained technology.                                           *)
Asks(what, t) ==
  /\ asked' = asked \cup {[what |-> what, tech |-> t]}
  /\ Cardinality(asked') <= MaxAsked

(* tech_mapview_mouse_click on the box of a technology. *)
TechMapviewMouseClick(t) ==
  /\ canvas = "ready" /\ ~game.observer /\ t \in Table
  /\ clicked' = t
  /\ IF State(Me, t) = Prereqs THEN Asks("research", t) /\ gained' = Nothing
     ELSE IF State(Me, t) = Unknown THEN Asks("goal", t) /\ UNCHANGED gained
     ELSE UNCHANGED <<asked, gained>>
  /\ Screen
  /\ UNCHANGED <<Fixed, Server, net, data, mirror, ended, stored, Panel>>

(* A choice of the dialog is taken, or the dialog closed. *)
ChooseTech(t) ==
  /\ gained # Nothing /\ t \in gained.choices
  /\ Asks("research", t)
  /\ gained' = Nothing
  /\ UNCHANGED <<Fixed, Server, net, data, mirror, canvas, shown, clicked, ended, stored, Panel>>

CloseTechGained ==
  /\ gained # Nothing
  /\ gained' = Nothing
  /\ UNCHANGED <<Fixed, Server, net, asked, data, mirror, canvas, shown, clicked, ended,
                 stored, Panel>>

(* Play by e-mail: the player's phase ends, and when it begins again what   *)
(* was learnt meanwhile is announced (check_queued_tech_gained_dialog).     *)
PbemPhase ==
  /\ game.pbem
  /\ ended' = ~ended
  /\ IF ended /\ stored # Unset /\ Cardinality(Players) >= 2
     THEN /\ gained' = IF game.observer \/ stored \notin Table THEN Nothing
                       ELSE [tech |-> stored, leads |-> Advances(stored),
                                  choices |-> {t \in Table : State(Me, t) = Prereqs}]
          /\ stored' = Unset
     ELSE UNCHANGED <<gained, stored>>
  /\ UNCHANGED <<Fixed, Server, net, asked, data, mirror, canvas, shown, clicked, Panel>>

Next ==
  \/ \E r \in {IdOf(p) : p \in Players} :
       ServerTells(r) \/ \E t \in Techs : ServerLearns(r, t)
  \/ \E q \in asked : ServerTakes(q)
  \/ HandleResearchInfo \/ RemoveCity \/ UpdateBulbs
  \/ \E byDialog \in BOOLEAN : UpdateTechScreen(byDialog)
  \/ \E t \in Techs : TechMapviewMouseClick(t) \/ ChooseTech(t)
  \/ CloseTechGained \/ PbemPhase

Spec == Init /\ [][Next]_vars

-----------------------------------------------------------------------------
(* A technology leads to another iff every set of technologies that has the *)
(* other, and what each of its own requires, has it (isTechReqForGoal).     *)
ReqForGoalIsClosure ==
  \A goal \in Techs :
    LET closed == {S \in SUBSET Techs : goal \in S /\ \A t \in S : Needs(t) \subseteq S}
        way == {t \in Techs : IsTechReqForGoal(t, goal)}
    IN /\ way = {t \in Techs : \A S \in closed : t \in S}
       /\ \A t \in way \ {goal} : \E next \in way : IsTechReqForTech(t, next)

(* What the player asks to research can be researched when the server gets  *)
(* to it, or is known by then, however late the mirror and the dialog were  *)
(* (tech_mapview_mouse_click, show_tech_gained_dialog).                     *)
ResearchIsPossible ==
  \A q \in asked : q.what = "research" => Needs(q.tech) \subseteq known[IdOf(Me)]

(* Players of one research are told the same, and no player more than the   *)
(* server counts (handle_research_info).                                    *)
MirrorFits ==
  /\ \A p, q \in Players : IdOf(p) = IdOf(q) => mirror[p] = mirror[q]
  /\ \A p \in Players : {t \in Techs : State(p, t) = Known} \subseteq known[IdOf(p)]

(* What is announced, or kept to be announced, is known by the research     *)
(* with the player's number: its own, unless research is pooled by teams,   *)
(* whose numbers are others (handle_research_info).                         *)
GainedIsKnown ==
  \A t \in Techs :
    (gained # Nothing /\ gained.tech = t) \/ stored = t =>
      /\ Me \in DOMAIN data /\ t \in data[Me].known
      /\ IdOf(Me) = Me => State(Me, t) = Known

(* The label of the bulbs is out of date only while its update is due.      *)
LabelFollows == ~due /\ label # Nothing => label = Bulbs

(* Requests, mirror, announcements and label follow the server's research.  *)
ResearchSound ==
  ReqForGoalIsClosure /\ ResearchIsPossible /\ MirrorFits /\ GainedIsKnown /\ LabelFollows
=============================================================================
