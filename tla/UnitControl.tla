---------------------------- MODULE UnitControl ----------------------------
(***************************************************************************)
(* The web client's mirror of the server's units (data/unit.ts and the     *)
(* unit handlers of net/packhandlers.ts) together with the unit focus and  *)
(* the action selection of core/control.ts and ui/actionDialog.ts.         *)
(*                                                                         *)
(* JavaScript runs one callback at a time: a packet's handler, a click, a  *)
(* timer.  What such a callback does to the focus and to the selection is  *)
(* a chain of synchronous calls, written here as operators that take the   *)
(* control state (the record ctl) and return it changed.  A message of the *)
(* server is a batch of packets; an exception of a handler drops the rest  *)
(* of its batch.                                                           *)
(*                                                                         *)
(* Names that control.ts only declares and nothing binds throw where they  *)
(* are read.  webgl_clear_unit_focus and FC_ACTION_FOUND_CITY are two of   *)
(* them: whatever moves the focus (set_unit_focus_and_redraw,              *)
(* advance_unit_focus) or draws the panel of units in focus has changed    *)
(* its state and then throws, so what its caller had left to do is not     *)
(* done.  Key commands whose activity is such a name do nothing.           *)
(*                                                                         *)
(* control.ts exports its variables and globalRegistry.ts copies them to   *)
(* the window once, before they are ever assigned.  The handlers read the  *)
(* copies: to them no unit is in focus and none is selecting an action.    *)
(* What they do only for a unit of the copies is left out below, and said  *)
(* where it is.                                                            *)
(***************************************************************************)
EXTENDS Naturals, Sequences, FiniteSets

CONSTANTS
  Units,      \* unit numbers; 0 (NoUnit) is IDENTITY_NUMBER_ZERO
  Tiles,      \* tile numbers, ordered as unit_distance_compare orders them
  Players,
  Me,         \* client.conn.playing
  Status,     \* what a unit is doing, see below
  Start,      \* the units when the game begins
  None,       \* no unit object
  NoTile,     \* no decision is wanted
  MaxServed,  \* bound: changes the server makes
  MaxClicks   \* bound: what the player does outside of dialogs

NoUnit == 0

\* ready:  idle, with moves left        orders: idle, carrying out orders
\* cargo:  ready, but transported       auto:   under a server-side agent
\* busy:   some activity                spent:  idle, no moves left
\* done:   ready, but "no orders" was pressed (done_moving)
Statuses == {"ready", "orders", "cargo", "auto", "busy", "spent", "done"}

UnitRec == [owner: Players, tile: Tiles, st: Status, want: Tiles \cup {NoTile}]

ASSUME UnitControlAssumption ==
  /\ Units \subseteq Nat \ {NoUnit} /\ IsFiniteSet(Units)
  /\ Tiles \subseteq Nat /\ NoTile \notin Tiles
  /\ Me \in Players
  /\ {"ready", "done"} \subseteq Status /\ Status \subseteq Statuses
  /\ None \notin UnitRec
  /\ Start \in [Units -> UnitRec \cup {None}]
  /\ \A u \in Units :   \* others' units want no decision of this player
       Start[u] # None /\ Start[u].owner # Me => Start[u].want = NoTile
  /\ MaxServed \in Nat /\ MaxClicks \in Nat

VARIABLES
  srv,       \* the server's units
  down,      \* packets on their way to the client
  batch,     \* the packets of the message that is being handled
  dropped,   \* has an exception dropped packets, or what is left of one?
  units,     \* units (store.units)
  onTile,    \* tiles[t].units
  ctl,       \* the state of control.ts and actionDialog.ts
  timers,    \* pending setTimeout(update_unit_focus / advance_unit_focus)
  born,      \* the numbers the server has given: it gives none twice
  switched,  \* was "change target" ever chosen in a dialog?
  served, clicks

server == <<srv, born, served>>
vars == <<srv, born, down, batch, dropped, units, onTile, ctl, timers, switched, served, clicks>>

Kinds   == {"select", "price", "list", "name"}
Dialogs == [kind: Kinds, u: Units]
Control ==
  [focus: Seq(Units),                    \* current_focus
   shared: Tiles \cup {NoTile},          \* the tile whose own list of units that is
   urgent: Seq(Units),                   \* urgent_focus_queue
   waiting: Seq(Units),                  \* waiting_units_list
   taken: SUBSET Units,                  \* units whose ssa_controller is no number
   selecting: Units \cup {NoUnit},       \* action_selection_in_progress_for
   more: BOOLEAN,                        \* is_more_user_input_needed
   restart: BOOLEAN,                     \* action_selection_restart
   undecided: BOOLEAN,                   \* did_not_decide
   dialogs: Seq(Dialogs),                \* open modal dialogs, the top one last
   up: Seq([k: {"ask", "query", "sabotage", "name", "unqueue"}, u: Units])]
                                         \* requests on their way to the server

-----------------------------------------------------------------------------
(* What a unit object says of itself.                                      *)

Wants(r) == r.want # NoTile
\* idle, with moves and not done moving
Awake(r) == r.st \in {"ready", "orders", "cargo"}
\* assigned new orders since it was put in the urgent queue
Reassigned(r) == r.st \in {"busy", "orders"} /\ ~Wants(r)

\* The elements of a list that are in S, in their order: the k-th one has k - 1
\* of them before it.
Only(list, S) ==
  LET kept == {i \in DOMAIN list : list[i] \in S}
      at(k) == CHOOSE i \in kept : Cardinality({j \in kept : j < i}) = k - 1
  IN  [k \in 1..Cardinality(kept) |-> list[at(k)]]

Without(list, u) == Only(list, Units \ {u})
Has(list, u) == \E i \in DOMAIN list : list[i] = u
First(S) == CHOOSE i \in S : \A j \in S : i <= j

Send(c, k, u) == [c EXCEPT !.up = Append(@, [k |-> k, u |-> u])]

-----------------------------------------------------------------------------
(* Action selection.                                                       *)

AskServerForActions(c, u) == Send([c EXCEPT !.selecting = u], "ask", u)

NextInFocus(c, us, old) ==
  LET due == {i \in DOMAIN c.focus : c.focus[i] # old /\ Wants(us[c.focus[i]])}
  IN  IF due = {} THEN c ELSE AskServerForActions(c, c.focus[First(due)])

NoLongerInProgress(c) == [c EXCEPT !.selecting = NoUnit, !.more = FALSE]

ClearWant(c, us, u) ==
  IF us[u] # None /\ Wants(us[u]) THEN Send(c, "unqueue", u) ELSE c

ActionDecisionRequest(c, u) ==
  IF ~Has(c.focus, u) THEN [c EXCEPT !.urgent = Append(@, u)]
  ELSE IF c.selecting = NoUnit THEN AskServerForActions(c, u)
  ELSE c

\* Mutant: the end of a selection is not noted.
DoneKeepsSelecting(c, us, u) ==
  IF c.more THEN c ELSE ClearWant(c, us, u)

ActSelQueueMayBeDone(c, us, u) ==
  LET over == IF c.restart THEN [c EXCEPT !.restart = FALSE] ELSE NoLongerInProgress(c)
  IN  IF c.more THEN c
      ELSE IF c.undecided THEN [over EXCEPT !.undecided = FALSE]
      ELSE NextInFocus(ClearWant(over, us, u), us, u)

ActSelQueueDone(c, us, u) ==
  [ActSelQueueMayBeDone([c EXCEPT !.more = FALSE], us, u)
     EXCEPT !.restart = FALSE, !.undecided = FALSE]

Open(c, kind, u) ==
  LET it == [kind |-> kind, u |-> u]
  IN  [c EXCEPT !.dialogs = Append(Only(@, Dialogs \ {it}), it)]

\* the prices of a bribe, an incitement and an upgrade
OpenPrice(c, u) == Open(c, "price", u)
\* what to sabotage or to steal
OpenList(c, u) == Open(c, "list", u)
\* There is one city name dialog, whatever unit it is for.
OpenName(c, u) ==
  Open([c EXCEPT !.dialogs = Only(@, {d \in Dialogs : d.kind # "name"})], "name", u)

\* The dialogs "list" (steal, sabotage) stay: their selectors lack the '#'.
ActionSelectionClose(c, us, u) ==
  LET stays == {d \in Dialogs : d.kind # "name" /\ (d.u = u => d.kind = "list")}
  IN  ActSelQueueDone([c EXCEPT !.dialogs = Only(@, stays)], us, u)

PopupActionSelection(c, us, u) ==
  LET alone == IF c.selecting \in {NoUnit, u} THEN c
               ELSE ActionSelectionClose(c, us, c.selecting)
  IN  [Open(alone, "select", u) EXCEPT !.more = FALSE]

-----------------------------------------------------------------------------
(* The unit focus.                                                         *)

\* Each of these has thrown when it ends.
SetUnitFocus(c, us, u) ==
  NextInFocus([c EXCEPT !.focus = <<u>>, !.shared = NoTile], us, NoUnit)

ClearFocus(c) == [c EXCEPT !.focus = <<>>, !.shared = NoTile]

Before(us, u, v) ==
  \/ us[u].tile < us[v].tile
  \/ us[u].tile = us[v].tile /\ u <= v

Eligible(c, us, acceptCurrent) ==
  {u \in Units : /\ us[u] # None
                 /\ us[u].owner = Me
                 /\ acceptCurrent \/ ~Has(c.focus, u)
                 /\ Awake(us[u]) \/ Wants(us[u])
                 /\ us[u].st \notin {"auto", "cargo"} /\ u \notin c.taken
                 /\ ~Has(c.waiting, u)}

\* The first of them, else the first waiting unit with moves, else NoUnit.
BestCandidate(c, us, acceptCurrent) ==
  LET free == Eligible(c, us, acceptCurrent)
      back == {i \in DOMAIN c.waiting : /\ us[c.waiting[i]] # None
                                        /\ us[c.waiting[i]].st # "spent"}
  IN  IF free # {} THEN CHOOSE u \in free : \A v \in free : Before(us, u, v)
      ELSE IF back # {} THEN c.waiting[First(back)] ELSE NoUnit

\* find_best_focus_candidate(false), and (true) if that finds nothing.
FocusBest(c, us) ==
  LET another == BestCandidate(c, us, FALSE)
      u == IF another # NoUnit THEN another ELSE BestCandidate(c, us, TRUE)
      i == First({j \in DOMAIN c.waiting : c.waiting[j] = u})
      rest == [c EXCEPT !.waiting = SubSeq(@, 1, i - 1) \o SubSeq(@, i + 1, Len(@))]
  IN  IF u = NoUnit THEN ClearFocus(c)
      ELSE SetUnitFocus(IF Has(c.waiting, u) THEN rest ELSE c, us, u)

\* The units of the urgent queue that were given orders are dropped up to the
\* first that can be chosen: one on the focus tile at once, else the first.
AdvanceUnitFocus(c, us) ==
  LET free == {i \in DOMAIN c.urgent : ~Reassigned(us[c.urgent[i]])}
      near == {i \in free : \/ c.focus = <<>>
                            \/ us[c.urgent[i]].tile = us[c.focus[1]].tile}
      seen == IF near = {} THEN DOMAIN c.urgent ELSE 1..First(near)
      pick == IF near # {} THEN c.urgent[First(near)]
              ELSE IF free # {} THEN c.urgent[First(free)] ELSE NoUnit
      gone == {c.urgent[i] : i \in seen \ free} \cup {pick}
      rest == [c EXCEPT !.urgent = Only(@, Units \ gone)]
  IN  IF pick = NoUnit THEN FocusBest(rest, us) ELSE SetUnitFocus(rest, us, pick)

\* Is the focus left where it is?
InUse(c, us) ==
  \/ c.selecting # NoUnit /\ c.focus # <<>>
  \/ \E i \in DOMAIN c.focus : Awake(us[c.focus[i]]) /\ c.focus[i] \notin c.taken

\* Mutant: without a unit in focus none is looked for.
UpdateSomeFocus(c, us) ==
  IF c.focus = <<>> \/ InUse(c, us) THEN c ELSE AdvanceUnitFocus(c, us)

UpdateUnitFocus(c, us) == IF InUse(c, us) THEN c ELSE AdvanceUnitFocus(c, us)

\* The removed unit is still mirrored here: it can be chosen again.
ControlUnitKilled(c, us, u) ==
  LET rest == [c EXCEPT !.urgent = Without(@, u)]
  IN  IF ~Has(c.focus, u) THEN rest
      ELSE IF Len(c.focus) = 1 THEN AdvanceUnitFocus(rest, us)
      ELSE [rest EXCEPT !.focus = Without(@, u), !.shared = NoTile]

-----------------------------------------------------------------------------
(* The mirror.                                                             *)

ClearTileUnit(lists, us, u) ==
  IF us[u] = None THEN lists ELSE [lists EXCEPT ![us[u].tile] = @ \ {u}]

UpdateTileUnit(lists, u, t) == [lists EXCEPT ![t] = @ \cup {u}]

\* A focus that is the list of a tile loses and gets units with it.
LeftTile(c, us, u) ==
  IF us[u] # None /\ us[u].tile = c.shared THEN [c EXCEPT !.focus = Without(@, u)] ELSE c
EnteredTile(c, u, t) ==
  IF t = c.shared /\ ~Has(c.focus, u) THEN [c EXCEPT !.focus = Append(@, u)] ELSE c

\* Mutant: a known unit keeps its wish for a decision.
AssignMoves(us, u, r) ==
  [us EXCEPT ![u] = IF @ = None THEN r ELSE [r EXCEPT !.want = us[u].want]]

\* Object.assign(units[id], packet)
Assign(us, u, r) == [us EXCEPT ![u] = r]

Listed(us) == [t \in Tiles |-> {u \in Units : us[u] # None /\ us[u].tile = t}]

Init ==
  /\ srv = Start /\ units = Start
  /\ onTile = Listed(Start)
  /\ down = <<>> /\ batch = <<>> /\ dropped = FALSE
  /\ ctl = [focus |-> <<>>, shared |-> NoTile, urgent |-> <<>>, waiting |-> <<>>,
            taken |-> {}, selecting |-> NoUnit, more |-> FALSE, restart |-> FALSE,
            undecided |-> FALSE, dialogs |-> <<>>, up |-> <<>>]
  /\ timers = [update |-> 0, advance |-> 0]
  /\ born = {u \in Units : Start[u] # None}
  /\ switched = FALSE
  /\ served = 0 /\ clicks = 0

-----------------------------------------------------------------------------
(* The server: its units change, it answers requests in order.             *)

Info(u, r) == [t |-> "info", u |-> u, r |-> r]
Packet(t, u) == [t |-> t, u |-> u]
Answer(t, u, ok) == [t |-> t, u |-> u, ok |-> ok]

Serve(p) ==
  /\ served < MaxServed
  /\ served' = served + 1
  /\ down' = Append(down, p)
  /\ UNCHANGED <<batch, dropped, units, onTile, ctl, timers, switched, clicks>>

ServerChanges(u) ==
  /\ srv[u] # None
  /\ \E r \in UnitRec :
       /\ r.owner # Me => r.want = NoTile
       \* one thing at a time: it moves, is captured, acts, or wants a decision
       /\ Cardinality({f \in {"owner", "tile", "st", "want"} : r[f] # srv[u][f]}) = 1
       /\ srv' = [srv EXCEPT ![u] = r]
       /\ Serve(Info(u, r))
  /\ UNCHANGED born

ServerCreates(u) ==
  /\ u \notin born
  /\ born' = born \cup {u}
  /\ \E r \in UnitRec :
       /\ r.st = "ready" /\ r.want = NoTile   \* nobody has acted on it yet
       /\ srv' = [srv EXCEPT ![u] = r]
       /\ Serve(Info(u, r))

ServerRemoves(u) ==
  /\ srv[u] # None
  /\ srv' = [srv EXCEPT ![u] = None]
  /\ Serve(Packet("remove", u))
  /\ UNCHANGED born

ServerBeginsTurn == Serve(Packet("begin", NoUnit)) /\ UNCHANGED <<srv, born>>

\* The answer to a request about a unit that is gone has nothing to offer, and
\* for a city's name there is none.
ServerAnswers ==
  LET q == Head(ctl.up)
      here == srv[q.u] # None /\ srv[q.u].owner = Me
  IN  /\ ctl.up # <<>>
      /\ ctl' = [ctl EXCEPT !.up = Tail(@)]
      /\ \/ /\ q.k \in {"ask", "query"}
            /\ \E ok \in IF here THEN BOOLEAN ELSE {FALSE} :
                 down' = Append(down, Answer(q.k, q.u, ok))
            /\ UNCHANGED srv
         \/ /\ q.k \in {"sabotage", "name"}
            /\ down' = IF here THEN Append(down, Packet(q.k, q.u)) ELSE down
            /\ UNCHANGED srv
         \/ /\ q.k = "unqueue"
            /\ srv' = IF here THEN [srv EXCEPT ![q.u].want = NoTile] ELSE srv
            /\ down' = IF here THEN Append(down, Info(q.u, srv'[q.u])) ELSE down
      /\ UNCHANGED <<born, batch, dropped, units, onTile, timers, switched, served, clicks>>

-----------------------------------------------------------------------------
(* The client handles a message: client_handle_packet.                     *)

Deliver ==
  /\ batch = <<>> /\ down # <<>>
  /\ \E n \in 1..Len(down) : /\ batch' = SubSeq(down, 1, n)
                             /\ down' = SubSeq(down, n + 1, Len(down))
  /\ UNCHANGED <<server, dropped, units, onTile, ctl, timers, switched, clicks>>

Handle(t) ==
  /\ batch # <<>> /\ Head(batch).t = t
  /\ UNCHANGED <<server, down, timers, switched, clicks>>

Done  == batch' = Tail(batch) /\ UNCHANGED dropped
Throw == /\ batch' = <<>> /\ dropped' = TRUE
         /\ UNCHANGED <<units, onTile, ctl>>

\* The test for the unit that is selecting reads the window's copy: never true.
\* For a unit in focus control_unit_killed throws: the unit stays mirrored, though
\* no tile lists it.
HandleUnitRemove ==
  LET u == Head(batch).u
      left == LeftTile(ctl, units, u)
  IN  /\ Handle("remove")
      /\ \/ /\ units[u] = None
            /\ UNCHANGED <<units, onTile, ctl>> /\ Done
         \/ /\ units[u] # None
            /\ onTile' = ClearTileUnit(onTile, units, u)
            /\ ctl' = ControlUnitKilled(left, units, u)
            /\ \/ /\ ~Has(left.focus, u)
                  /\ units' = [units EXCEPT ![u] = None]
                  /\ Done
               \/ /\ Has(left.focus, u)
                  /\ batch' = <<>> /\ dropped' = TRUE
                  /\ UNCHANGED units

\* handle_unit_packet_common.  A unit that changed hands is not found under its
\* new owner; its removal gets a number for a packet and returns, and the branch
\* for known units then reads a field of the unit that was not found.
HandleUnitInfo ==
  LET u == Head(batch).u
      r == Head(batch).r
      old == units[u]
      left == LeftTile(ctl, units, u)
      told == IF Wants(r) /\ (old = None \/ old.want # r.want)
              THEN ActionDecisionRequest(left, u) ELSE left
  IN  /\ Handle("info")
      /\ \/ /\ old # None /\ old.owner # r.owner
            /\ Throw
         \/ /\ old # None => old.owner = r.owner
            /\ onTile' = UpdateTileUnit(ClearTileUnit(onTile, units, u), u, r.tile)
            /\ ctl' = [EnteredTile(told, u, r.tile) EXCEPT !.taken = @ \ {u}]
            /\ units' = Assign(units, u, r)
            /\ Done

HandleUnitActions ==
  LET u == Head(batch).u
  IN  /\ Handle("ask")
      /\ ctl' = IF Head(batch).ok /\ units[u] # None
                THEN PopupActionSelection(ctl, units, u)
                ELSE NextInFocus(ClearWant(NoLongerInProgress(ctl), units, u), units, u)
      /\ UNCHANGED <<units, onTile>>
      /\ Done

\* bribe, incite and upgrade; an answer without a price ends the selection
HandleUnitActionAnswer ==
  LET u == Head(batch).u
  IN  /\ Handle("query")
      /\ ctl' = IF Head(batch).ok /\ units[u] # None THEN OpenPrice(ctl, u)
                ELSE ActSelQueueDone(ctl, units, u)
      /\ UNCHANGED <<units, onTile>>
      /\ Done

HandleCitySabotageList ==
  LET u == Head(batch).u
  IN  /\ Handle("sabotage")
      /\ \/ units[u] = None /\ Throw
         \/ /\ units[u] # None
            /\ ctl' = OpenList(ctl, u)
            /\ UNCHANGED <<units, onTile>> /\ Done

HandleCityNameSuggestion ==
  /\ Handle("name")
  /\ ctl' = OpenName(ctl, Head(batch).u)
  /\ UNCHANGED <<units, onTile>>
  /\ Done

\* It empties the window's copy of waiting_units_list, not the list.  A focus that
\* is moved throws, and the rest of the message is not handled.
HandleBeginTurn ==
  /\ Handle("begin")
  /\ ctl' = UpdateUnitFocus(ctl, units)
  /\ UNCHANGED <<units, onTile>>
  /\ \/ InUse(ctl, units) /\ Done
     \/ /\ ~InUse(ctl, units)
        /\ batch' = <<>>
        /\ dropped' = (dropped \/ Tail(batch) # <<>>)

-----------------------------------------------------------------------------
(* The player in a dialog: only the top one takes input.                   *)

Top == ctl.dialogs[Len(ctl.dialogs)]
Closed == [ctl EXCEPT !.dialogs = SubSeq(@, 1, Len(@) - 1)]

InDialog(kinds) ==
  /\ batch = <<>> /\ ctl.dialogs # <<>> /\ Top.kind \in kinds
  /\ UNCHANGED <<server, down, batch, dropped, units, onTile, timers, clicks>>

\* an action that needs no more input; "auto attack" does the same
ChooseAction ==
  /\ InDialog({"select"})
  /\ ctl' = ActSelQueueMayBeDone(ClearWant(Closed, units, Top.u), units, Top.u)
  /\ UNCHANGED switched

ChooseWithQuestion ==
  /\ InDialog({"select"})
  /\ \E k \in {"query", "sabotage", "name"} :
       ctl' = [Send(Closed, k, Top.u) EXCEPT !.more = TRUE]
  /\ UNCHANGED switched

\* the technology to steal is asked for without the server
ChooseSteal ==
  /\ InDialog({"select"})
  /\ units[Top.u] # None
  /\ ctl' = [OpenList(Closed, Top.u) EXCEPT !.more = TRUE]
  /\ UNCHANGED switched

Wait ==
  /\ InDialog({"select"})
  /\ ctl' = ActSelQueueMayBeDone([Closed EXCEPT !.undecided = TRUE], units, Top.u)
  /\ UNCHANGED switched

\* select_tgt_unit and select_tgt_extra are stubs: no dialog follows
ChangeTarget ==
  /\ InDialog({"select"})
  /\ ctl' = ActSelQueueMayBeDone([Closed EXCEPT !.restart = TRUE], units, Top.u)
  /\ switched' = TRUE

Cancel ==
  /\ InDialog({"select"})
  /\ ctl' = ActSelQueueMayBeDone(Closed, units, Top.u)
  /\ UNCHANGED switched

\* the city's name is sent with the unit's tile: for a unit that is gone the
\* handler throws and the dialog stays
AnswerQuestion ==
  /\ InDialog({"price", "list", "name"})
  /\ Top.kind = "name" => units[Top.u] # None
  /\ ctl' = ActSelQueueDone(ClearWant(Closed, units, Top.u), units, Top.u)
  /\ UNCHANGED switched

CancelQuestion ==
  /\ InDialog({"price", "list", "name"})
  /\ ctl' = ActSelQueueDone(Closed, units, Top.u)
  /\ UNCHANGED switched

-----------------------------------------------------------------------------
(* The player on the map: no modal dialog is open.                         *)

OnMap ==
  /\ batch = <<>> /\ ctl.dialogs = <<>>
  /\ clicks < MaxClicks
  /\ clicks' = clicks + 1
  /\ UNCHANGED <<server, down, batch, dropped, onTile, switched>>

Focused == {ctl.focus[i] : i \in DOMAIN ctl.focus}

\* request_unit_cancel_orders: its orders end locally before the server knows.  The
\* SSA_NONE it compares and writes is the enumeration, not its member: it always
\* writes, and until the server tells of the unit the client takes it for one that
\* an agent controls.
Cancelled(r) == IF r.st \in {"auto", "orders"} THEN [r EXCEPT !.st = "ready"] ELSE r
Taken(c, us) == [c EXCEPT !.taken = @ \cup us]

\* The mirrored objects of these units changed by f.
Changed(f(_), us) ==
  [u \in Units |-> IF u \in us /\ units[u] # None THEN f(units[u]) ELSE units[u]]

ClearWants(c, us, list) ==
  LET due == Only(list, {v \in Units : us[v] # None /\ Wants(us[v])})
  IN  [c EXCEPT !.up = @ \o [i \in DOMAIN due |-> [k |-> "unqueue", u |-> due[i]]]]

\* The first unit of a tile's list comes into focus.  That has thrown: a unit that
\* is alone there is not activated (set_unit_focus_and_activate).
ClickOwnUnit(u) ==
  /\ OnMap
  /\ units[u] # None /\ units[u].owner = Me
  /\ u \in onTile[units[u].tile]
  /\ ctl' = SetUnitFocus(ctl, units, u)
  /\ UNCHANGED <<units, timers>>

\* a tile with other players' units: its list itself becomes the focus
ClickForeignTile(t) ==
  /\ OnMap
  /\ \E u \in onTile[t] : units[u].owner # Me
  /\ \E list \in [1..Cardinality(onTile[t]) -> onTile[t]] :
       /\ {list[i] : i \in DOMAIN list} = onTile[t]
       /\ units[list[1]].owner # Me
       /\ ctl' = [ctl EXCEPT !.focus = list, !.shared = t]
  /\ UNCHANGED <<units, timers>>

\* an empty tile, or the space key
ClickNothing ==
  /\ OnMap
  /\ ctl' = ClearFocus(ctl)
  /\ UNCHANGED <<units, timers>>

KeyUnitWait ==
  /\ OnMap /\ ctl.focus # <<>>
  /\ ctl' = AdvanceUnitFocus([ctl EXCEPT !.waiting = @ \o ctl.focus], units)
  /\ UNCHANGED <<units, timers>>

KeyUnitNoOrders ==
  LET done(r) == IF Awake(r) THEN [r EXCEPT !.st = "done"] ELSE r
  IN  /\ OnMap /\ ctl.focus # <<>>
      /\ units' = Changed(done, Focused)
      /\ ctl' = AdvanceUnitFocus(ctl, units')
      /\ UNCHANGED timers

\* "idle" and auto work: an order for every unit in focus, and the focus is updated
\* 700 ms later.  The other activities are names that are not bound.
KeyUnitOrder ==
  /\ OnMap /\ ctl.focus # <<>>
  /\ units' = Changed(Cancelled, Focused)
  /\ ctl' = ClearWants(Taken(ctl, Focused), units, ctl.focus)
  /\ timers' = [timers EXCEPT !.update = @ + 1]

\* auto explore, and orders that find nothing to do
KeyUnitExplore ==
  /\ OnMap /\ ctl.focus # <<>>
  /\ timers' = [timers EXCEPT !.update = @ + 1]
  /\ UNCHANGED <<units, ctl>>

\* load without a transport, and unload on a tile whose list is empty: the focus is
\* advanced 700 ms later, whatever it is then
KeyUnitLoad ==
  /\ OnMap /\ ctl.focus # <<>>
  /\ timers' = [timers EXCEPT !.advance = @ + 1]
  /\ UNCHANGED <<units, ctl>>

\* The first unit of the last one's tile stops what it does; the request to unload
\* it throws, before the others and the timer.
KeyUnitUnload ==
  /\ OnMap /\ ctl.focus # <<>>
  /\ \E u \in onTile[units[ctl.focus[Len(ctl.focus)]].tile] :
       /\ units' = Changed(Cancelled, {u})
       /\ ctl' = ClearWant(Taken(ctl, {u}), units, u)
  /\ UNCHANGED timers

TimerUpdatesFocus ==
  /\ batch = <<>> /\ timers.update > 0
  /\ timers' = [timers EXCEPT !.update = @ - 1]
  /\ ctl' = UpdateUnitFocus(ctl, units)
  /\ UNCHANGED <<server, down, batch, dropped, units, onTile, switched, clicks>>

TimerAdvancesFocus ==
  /\ batch = <<>> /\ timers.advance > 0
  /\ timers' = [timers EXCEPT !.advance = @ - 1]
  /\ ctl' = AdvanceUnitFocus(ctl, units)
  /\ UNCHANGED <<server, down, batch, dropped, units, onTile, switched, clicks>>

-----------------------------------------------------------------------------
ServerSteps ==
  \/ \E u \in Units : ServerChanges(u) \/ ServerCreates(u) \/ ServerRemoves(u)
  \/ ServerBeginsTurn \/ ServerAnswers

HandlerSteps ==
  \/ Deliver
  \/ HandleUnitRemove \/ HandleUnitInfo \/ HandleUnitActions
  \/ HandleUnitActionAnswer \/ HandleCitySabotageList
  \/ HandleCityNameSuggestion \/ HandleBeginTurn

DialogSteps ==
  \/ ChooseAction \/ ChooseWithQuestion \/ ChooseSteal
  \/ Wait \/ ChangeTarget \/ Cancel \/ AnswerQuestion \/ CancelQuestion

MapSteps ==
  \/ \E u \in Units : ClickOwnUnit(u)
  \/ \E t \in Tiles : ClickForeignTile(t)
  \/ ClickNothing \/ KeyUnitWait \/ KeyUnitNoOrders
  \/ KeyUnitOrder \/ KeyUnitExplore \/ KeyUnitLoad \/ KeyUnitUnload
  \/ TimerUpdatesFocus \/ TimerAdvancesFocus

Next == ServerSteps \/ HandlerSteps \/ DialogSteps \/ MapSteps

Spec == Init /\ [][Next]_vars

-----------------------------------------------------------------------------
TypeOK ==
  /\ srv \in [Units -> UnitRec \cup {None}]
  /\ units \in [Units -> UnitRec \cup {None}]
  /\ onTile \in [Tiles -> SUBSET Units] /\ born \subseteq Units
  /\ dropped \in BOOLEAN /\ switched \in BOOLEAN
  /\ ctl \in Control
  /\ served \in 0..MaxServed /\ clicks \in 0..MaxClicks

\* A tile lists mirrored units that are on it and no other, and a mirrored unit that
\* its tile does not list is one that the server has removed, whatever exception cut
\* a handler or a batch short (update_tile_unit, clear_tile_unit, handle_unit_remove).
TileListsMatch ==
  /\ \A t \in Tiles : \A u \in onTile[t] : units[u] # None /\ units[u].tile = t
  /\ \A u \in Units :
       units[u] # None /\ u \notin onTile[units[u].tile] => srv[u] = None

\* The urgent queue holds only units that are mirrored: advance_unit_focus reads
\* a field of each without a test.
UrgentMirrored == \A i \in DOMAIN ctl.urgent : units[ctl.urgent[i]] # None

\* When everything sent has been handled and no exception dropped a packet, the
\* mirror is the server's state; what a unit does may be known to the client only.
MirrorAgrees ==
  (down = <<>> /\ batch = <<>> /\ ~dropped) =>
    \A u \in Units : \/ srv[u] = None /\ units[u] = None
                     \/ /\ srv[u] # None /\ units[u] # None
                        /\ \A f \in {"owner", "tile", "want"} : units[u][f] = srv[u][f]

\* No unit is twice in focus: every order would be sent twice.
FocusOnce == Cardinality(Focused) = Len(ctl.focus)

\* A focus that is a tile's own list holds what the tile holds.
SharedFollows == ctl.shared # NoTile => Focused = onTile[ctl.shared]

\* While a selection is in progress there is a question on its way or on the
\* screen that will end it; a unit lost meanwhile, change target and dropped
\* packets excepted.
Pending == {down[i] : i \in DOMAIN down} \cup {batch[i] : i \in DOMAIN batch}
Kept(u) == /\ srv[u] # None /\ srv[u].owner = Me
           /\ ~\E p \in Pending : p.t = "info" /\ p.u = u /\ p.r.owner # Me
Underway ==
  \/ ctl.dialogs # <<>>
  \/ \E i \in DOMAIN ctl.up : ctl.up[i].k # "unqueue"
  \/ \E p \in Pending : p.t \in {"ask", "query", "sabotage", "name"}
SelectionUnderway ==
  (/\ ctl.selecting # NoUnit /\ Kept(ctl.selecting)
   /\ ~switched /\ ~dropped) => Underway

\* The mirror is sound: its types, the lists of the tiles, and what the server
\* has told.
MirrorSound == TypeOK /\ TileListsMatch /\ MirrorAgrees

\* The focus is sound: no unit twice, none that left the tile whose list it is, no
\* lost unit in the urgent queue, and no action selection that nothing will end.
FocusSound == FocusOnce /\ SharedFollows /\ UrgentMirrored /\ SelectionUnderway

\* A new turn brings a unit into focus when one is free to move.
TurnFindsWork ==
  (batch # <<>> /\ Head(batch).t = "begin" /\ Eligible(ctl, units, TRUE) # {})
     => ctl'.focus # <<>>
TurnsFindWork == [][HandleBeginTurn => TurnFindsWork]_vars
=============================================================================
