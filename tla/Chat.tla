-------------------------------- MODULE Chat --------------------------------
(***************************************************************************)
(* The chat line of the web client (core/control.ts, chat_context_change   *)
(* to check_text_input): whom it writes to, the dialog that chooses, and   *)
(* what Enter sends.  chat_send_to is a seat: a player who leaves takes    *)
(* the seat's entry along, and another may come to sit there.              *)
(***************************************************************************)
EXTENDS Naturals, Sequences, FiniteSets, SequencesExt, Functions

CONSTANTS
  Seats,        \* the numbers of the players
  Names,        \* the names of those who may come to sit at one
  Own,          \* what the client's own seat may be: NoOne for an observer
  First,        \* who sits there at the start
  Texts,        \* what may be typed: [prefixed, upper, long]
  Everybody,    \* chat_send_to when it is null
  Unset,        \* chat_send_to at the start, -1
  NoOne

VARIABLES
  me,           \* the client's own seat, NoOne for an observer
  players,      \* who sits at a seat: a human who is alive, or NoOne
  allied,       \* the seats in alliance with the player
  chat_send_to,
  icon,         \* whom chat_direction shows
  choices,      \* the rows of the dialog, {} without one
  reseated,     \* the seats given to another since they were chosen (history)
  sent          \* what the last step sent: [to, shown], or NoOne (history)

vars == <<me, players, allied, chat_send_to, icon, choices, reseated, sent>>

Init ==
  /\ me \in Own
  /\ players = First
  /\ allied = {}
  /\ chat_send_to = Unset /\ icon = "everybody" /\ choices = {}
  /\ reseated = {} /\ sent = NoOne

(* The server: an alliance, and who comes and goes. *)
Allies(s) ==
  /\ me # NoOne /\ s # me
  /\ allied' = IF s \in allied THEN allied \ {s} ELSE allied \cup {s}
  /\ sent' = NoOne
  /\ UNCHANGED <<me, players, chat_send_to, icon, choices, reseated>>

Leaves(s) ==
  /\ players[s] # NoOne /\ s # me
  /\ players' = [players EXCEPT ![s] = NoOne]
  /\ allied' = allied \ {s}
  /\ sent' = NoOne
  /\ UNCHANGED <<me, chat_send_to, icon, choices, reseated>>

Comes(s, name) ==
  /\ players[s] = NoOne /\ \A t \in Seats : players[t] # name
  /\ players' = [players EXCEPT ![s] = name]
  /\ reseated' = reseated \cup {s}
  /\ sent' = NoOne
  /\ UNCHANGED <<me, allied, chat_send_to, icon, choices>>

-----------------------------------------------------------------------------
Direction == <<chat_send_to, icon, reseated>>
Turns(id, shown) == chat_send_to' = id /\ icon' = shown /\ reseated' = reseated \ {id}

(* set_chat_direction *)
SetChatDirection(id) ==
  IF id = chat_send_to THEN UNCHANGED Direction
  ELSE IF id = Everybody THEN Turns(Everybody, "everybody")
  ELSE IF me # NoOne /\ id = me THEN Turns(me, "allies")
  ELSE IF id \in Seats /\ players[id] # NoOne THEN Turns(id, players[id])
  ELSE UNCHANGED Direction

(* chat_context_get_recipients: everybody, the allies if there are, and the *)
(* others; by description in the code, by seat here.                        *)
Humans == {s \in Seats \ {me} : players[s] # NoOne}
Recipients ==
  <<Everybody>> \o (IF Humans \cap allied # {} THEN <<me>> ELSE <<>>) \o SetToSortSeq(Humans, <)

(* chat_context_set_next: from whom is not listed to the first. *)
NextOf(list) ==
  IF \E k \in DOMAIN list : list[k] = chat_send_to
  THEN LET i == CHOOSE k \in DOMAIN list : list[k] = chat_send_to
       IN list[(i % Len(list)) + 1]
  ELSE list[1]

(* chat_context_change, chat_context_dialog_show *)
ChatContextChange ==
  /\ IF Len(Recipients) < 4
     THEN SetChatDirection(NextOf(Recipients)) /\ UNCHANGED choices
     ELSE /\ choices' = ToSet(Recipients) \ {chat_send_to}
          /\ UNCHANGED Direction
  /\ sent' = NoOne
  /\ UNCHANGED <<me, players, allied>>

(* handle_chat_direction_chosen *)
ChatDirectionChosen(id) ==
  /\ id \in choices
  /\ choices' = {}
  /\ SetChatDirection(id)
  /\ sent' = NoOne
  /\ UNCHANGED <<me, players, allied>>

-----------------------------------------------------------------------------
Directed(text) == chat_send_to \in Seats /\ ~text.prefixed

(* What a message of capitals is taken for does not count the lower case    *)
(* of the name before it.                                                   *)
Refused(text, to) == text.long \/ (text.upper /\ to \in {"everybody", "allies", "as_typed"})

Sends(text, to) ==
  sent' = IF Refused(text, to) THEN NoOne
          ELSE [to |-> to, shown |-> IF text.prefixed THEN "as_typed" ELSE icon]

(* check_text_input: a message to who left is kept, and the line turns to   *)
(* everybody.                                                               *)
CheckTextInput(text) ==
  /\ CASE Directed(text) /\ chat_send_to = me ->
            Sends(text, "allies") /\ UNCHANGED Direction
       [] Directed(text) /\ chat_send_to # me /\ players[chat_send_to] = NoOne ->
            sent' = NoOne /\ SetChatDirection(Everybody)
       [] Directed(text) /\ chat_send_to # me /\ players[chat_send_to] # NoOne ->
            Sends(text, players[chat_send_to]) /\ UNCHANGED Direction
       [] OTHER ->
            /\ Sends(text, IF text.prefixed THEN "as_typed" ELSE "everybody")
            /\ UNCHANGED Direction
  /\ UNCHANGED <<me, players, allied, choices>>

Next ==
  \/ \E s \in Seats : Allies(s) \/ Leaves(s) \/ \E name \in Names : Comes(s, name)
  \/ ChatContextChange
  \/ \E id \in choices : ChatDirectionChosen(id)
  \/ \E text \in Texts : CheckTextInput(text)

Spec == Init /\ [][Next]_vars

-----------------------------------------------------------------------------
(* A message goes to whom the line shows; to another only if the seat was   *)
(* given to the other since.                                                *)
SentAsShown == sent # NoOne => sent.to = sent.shown \/ chat_send_to \in reseated

(* The line writes to a seat, and shows somebody, together. *)
LineAgrees ==
  CASE chat_send_to \in {Unset, Everybody} -> icon = "everybody"
    [] chat_send_to = me -> icon = "allies"
    [] OTHER -> icon \in Names \cup Range(First)

ChatSound == SentAsShown /\ LineAgrees
=============================================================================
