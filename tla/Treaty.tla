------------------------------- MODULE Treaty -------------------------------
(***************************************************************************)
(* A meeting of diplomats in the deployed web client (ui/diplomacy.ts and  *)
(* the handlers of packhandlers.ts), with the server that keeps the treaty.*)
(*                                                                         *)
(* globalRegistry.ts copies the module's clause_infos and                  *)
(* diplomacy_clause_map to the window once.  The handlers then replace the *)
(* window's clause_infos (handle_ruleset_control), and the module its own  *)
(* diplomacy_clause_map (discard_diplomacy_dialogs): each pair parts, what *)
(* a handler stores the dialog does not see, and what the dialog reads of  *)
(* it throws.  An exception drops the packets that came in the same        *)
(* message.                                                                *)
(*                                                                         *)
(* One counterpart, in a game that is not hotseat.  What the open dialog   *)
(* offers besides its two buttons (clauses, gold) is left out: it is never *)
(* open, see Unanswered.                                                   *)
(***************************************************************************)
EXTENDS Naturals, Sequences, FiniteSets, SequencesExt

CONSTANTS
  Clauses,      \* the clauses that may be offered: [giver, type, value]
  Me, Other,    \* the players
  MaxClauses,   \* bound: clauses of a treaty
  MaxListed,    \* bound: clauses listed when the counterpart adds one
  MaxNet,       \* bound: packets on their way when the server sends one
  MaxOut,       \* bound: requests on their way
  NoClause

VARIABLES
  meeting,      \* whether the server holds the meeting
  treaty,       \* its clauses
  accepted,     \* who accepts it
  concluded,    \* whether one was ever concluded
  net, out,     \* packets to the client and requests to the server
  apart,        \* the tables of which window and module have each its own
  infos,        \* whether the module's clause_infos has the ruleset's clauses
  map,          \* the window's diplomacy_clause_map: with or without the counterpart
  own,          \* the module's
  dialog,       \* whether the dialog is open
  missed        \* clauses whose packet was dropped since the last meeting began

Server == <<meeting, treaty, accepted, concluded>>
Copies == <<apart, infos, map, own>>
vars == <<Server, net, out, Copies, dialog, missed>>

Pacts == {"ceasefire", "peace", "alliance"}

(* A map has a list for the counterpart, or none: an empty set, or the set *)
(* of the list.                                                            *)
NoList == {}
List(clauses) == {clauses}
Has(m) == m # NoList
ListOf(m) == CHOOSE clauses \in m : TRUE
Listed == IF Has(map) THEN ListOf(map) ELSE <<>>

Packet(kind, clause, mine, theirs) ==
  [kind |-> kind, clause |-> clause, mine |-> mine, theirs |-> theirs]
Plain(kind) == Packet(kind, NoClause, FALSE, FALSE)

(* The ruleset and the player of the connection come before any meeting.   *)
Init ==
  /\ meeting = FALSE /\ treaty = {} /\ accepted = {} /\ concluded = FALSE
  /\ net = <<Plain("control"), Plain("clauses"), Plain("seat")>> /\ out = <<>>
  /\ apart = {} /\ infos = FALSE
  /\ map = NoList /\ own = NoList
  /\ dialog = FALSE /\ missed = {}

-----------------------------------------------------------------------------
(* The server: a clause replaces one of its kind, as pacts and gold do, and *)
(* whoever accepted has to accept again.                                    *)
Replaced(c) ==
  {d \in treaty : \/ d.type \in Pacts /\ c.type \in Pacts
                  \/ d.type = "gold" /\ c.type = "gold" /\ d.giver = c.giver}

Tells(p) == net' = Append(net, p)

Meets ==
  /\ ~meeting
  /\ meeting' = TRUE /\ Tells(Plain("init"))
  /\ UNCHANGED <<treaty, accepted, concluded>>

Adds(c) ==
  /\ meeting /\ c \notin treaty /\ Cardinality(treaty \ Replaced(c)) < MaxClauses
  /\ treaty' = (treaty \ Replaced(c)) \cup {c} /\ accepted' = {}
  /\ Tells(Packet("create", c, FALSE, FALSE))
  /\ UNCHANGED <<meeting, concluded>>

Removes(c) ==
  /\ meeting /\ c \in treaty
  /\ treaty' = treaty \ {c} /\ accepted' = {}
  /\ Tells(Packet("remove", c, FALSE, FALSE))
  /\ UNCHANGED <<meeting, concluded>>

Ends(kind) ==
  /\ meeting
  /\ meeting' = FALSE /\ treaty' = {} /\ accepted' = {}
  /\ concluded' = (concluded \/ kind = "accept")
  /\ Tells(Packet(kind, NoClause, TRUE, TRUE))

Accepts(p) ==
  LET now == IF p \in accepted THEN accepted \ {p} ELSE accepted \cup {p}
  IN IF now = {Me, Other} THEN Ends("accept")
     ELSE /\ meeting /\ accepted' = now
          /\ Tells(Packet("accept", NoClause, Me \in now, Other \in now))
          /\ UNCHANGED <<meeting, treaty, concluded>>

(* A request that makes no sense any more is ignored. *)
Serves(kind) ==
  CASE kind = "init"   -> Meets
    [] kind = "accept" -> Accepts(Me)
    [] kind = "cancel" -> Ends("cancel")

ServerTakes ==
  /\ out # <<>> /\ Len(net) < MaxNet
  /\ out' = Tail(out)
  /\ IF meeting = (Head(out) # "init") THEN Serves(Head(out)) ELSE UNCHANGED <<Server, net>>
  /\ UNCHANGED <<Copies, dialog, missed>>

(* The counterpart, and a player who is given another seat (conn_info). *)
OtherActs ==
  /\ Len(net) < MaxNet
  /\ \/ Meets
     \/ meeting /\ Accepts(Other)
     \/ Ends("cancel")
     \/ \E c \in Clauses : Len(Listed) < MaxListed /\ Adds(c)
     \/ \E c \in treaty : Removes(c)
     \/ Tells(Plain("seat")) /\ UNCHANGED Server
  /\ UNCHANGED <<out, Copies, dialog, missed>>

-----------------------------------------------------------------------------
(* The client's tables. *)
SetWindow(list) ==
  /\ map' = list /\ own' = IF "clauses" \in apart THEN own ELSE list
  /\ UNCHANGED <<apart, infos>>
SetModule(list) ==
  /\ own' = list /\ map' = IF "clauses" \in apart THEN map ELSE list
  /\ UNCHANGED <<apart, infos>>

(* handle_ruleset_control: the window gets a new table. *)
HandleControl == apart' = apart \cup {"infos"} /\ UNCHANGED <<infos, map, own, dialog>>

(* handle_ruleset_clause: of the window's table. *)
HandleClauses ==
  infos' = (infos \/ "infos" \notin apart) /\ UNCHANGED <<apart, map, own, dialog>>

(* handle_conn_info, discard_diplomacy_dialogs: the module gets a new map.  *)
HandleSeat ==
  /\ apart' = apart \cup {"clauses"} /\ own' = NoList
  /\ dialog' = (dialog /\ ~Has(own))
  /\ UNCHANGED <<infos, map>>

(* handle_diplomacy_init_meeting, create_diplomacy_dialog: without the      *)
(* ruleset's clauses meeting_template_data throws.                          *)
HandleInit == SetWindow(List(<<>>)) /\ dialog' = infos

\* Mutant: a list of its own for every clause.
CreateAnew(c) == SetWindow(List(<<c>>)) /\ UNCHANGED dialog

(* handle_diplomacy_create_clause *)
HandleCreate(c) == SetWindow(List(Append(Listed, c))) /\ UNCHANGED dialog

(* The first clause of the giver and the type goes, whatever its value. *)
Without(list, c) == RemoveFirstMatch(list, LAMBDA d : d.giver = c.giver /\ d.type = c.type)

(* handle_diplomacy_remove_clause, remove_clause *)
HandleRemove(c) ==
  /\ IF Has(own) THEN SetModule(List(Without(ListOf(own), c))) ELSE UNCHANGED Copies
  /\ UNCHANGED dialog

(* cancel_meeting, and accept_treaty when both accept. *)
Cleanup == SetModule(List(<<>>)) /\ dialog' = FALSE

(* What throws, at the end of its handler: a dialog without the ruleset's   *)
(* clauses, and a list that the module does not have (remove_clause,        *)
(* show_diplomacy_clauses).                                                 *)
Throws(kind) ==
  \/ kind = "init" /\ ~infos
  \/ kind = "create" /\ ~Has(own')
  \/ kind = "remove" /\ ~Has(own)

(* The packet is taken, and after an exception n of those behind it. *)
Drops(n) ==
  /\ net' = SubSeq(net, n + 2, Len(net))
  /\ missed' = (IF Head(net).kind = "init" THEN {} ELSE missed)
                 \cup {net[i].clause : i \in {j \in 2..(n + 1) : net[j].kind = "create"}}

Handle ==
  /\ net # <<>>
  /\ LET p == Head(net)
     IN /\ CASE p.kind = "control" -> HandleControl
             [] p.kind = "clauses" -> HandleClauses
             [] p.kind = "seat"    -> HandleSeat
             [] p.kind = "init"    -> HandleInit
             [] p.kind = "create"  -> HandleCreate(p.clause)
             [] p.kind = "remove"  -> HandleRemove(p.clause)
             [] p.kind = "cancel" \/ (p.kind = "accept" /\ p.mine /\ p.theirs) -> Cleanup
             [] OTHER -> UNCHANGED <<Copies, dialog>>
        /\ \E n \in 0..(Len(net) - 1) : (n > 0 => Throws(p.kind)) /\ Drops(n)
  /\ UNCHANGED <<Server, out>>

(* nationMeetClicked, of the list of nations; and the buttons of the dialog. *)
Buttons == IF dialog THEN {"accept", "cancel"} ELSE {}

Clicks(kind) ==
  /\ kind \in {"init"} \cup Buttons
  /\ Len(out) < MaxOut /\ out' = Append(out, kind)
  /\ UNCHANGED <<Server, net, Copies, dialog, missed>>

Next ==
  \/ ServerTakes \/ OtherActs \/ Handle
  \/ \E kind \in {"init", "accept", "cancel"} : Clicks(kind)

Spec == Init /\ [][Next]_vars

-----------------------------------------------------------------------------
(* The ruleset's clauses come after the packet that parts the tables: the   *)
(* dialog never opens.  So a meeting, whoever asked for it, is the          *)
(* counterpart's to end: nothing accepts for the player, and no treaty is   *)
(* concluded.                                                               *)
Unanswered == ~dialog /\ accepted \subseteq {Other} /\ ~concluded

(* Once the packets are handled, the window's list has every clause of the  *)
(* treaty, over meetings that begin again, removals it does not see and new *)
(* seats, but for those in a message that an exception cut short.           *)
Recorded == net = <<>> => treaty \subseteq ToSet(Listed) \cup missed

TreatySound == Unanswered /\ Recorded
=============================================================================
