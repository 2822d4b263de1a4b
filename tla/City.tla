--------------------------------- MODULE City ---------------------------------
(***************************************************************************)
(* The city dialog (ui/cityDialog.ts, ui/cma.ts, data/city.ts) and the     *)
(* packets about cities: which city is open, its worklist as the dialog    *)
(* drew it and as the mirror has it, what is selected in it, and the       *)
(* commands on both.                                                       *)
(*                                                                         *)
(* Nothing draws the worklist again but show_city_dialog: a packet         *)
(* replaces the worklist, a command changes it, and the rows, with the     *)
(* positions they stand for, stay.  Positions count from 1.                *)
(*                                                                         *)
(* Hypothesis: FC_INFINITY, O_* and MAX_LEN_*, which cityDialog.ts only    *)
(* declares, are the constants of these names in fcTypes.ts.  Nothing      *)
(* binds them in the deployed page, where the dialog throws on the first   *)
(* it reads (cityDialog.ts:222, 297, 797).                                 *)
(***************************************************************************)
EXTENDS Naturals, Sequences, FiniteSets, SequencesExt, Lists

CONSTANTS
  Cities,
  Improvements, UnitTypes,  \* what can be built
  Able,       \* what the cities can build now
  MaxLen,     \* MAX_LEN_WORKLIST
  Packets,    \* bound: what packets say of cities
  MaxPicked,  \* bound: choices that are picked at a time
  MaxEdits    \* bound: changes of worklists

Items == Improvements \cup UnitTypes
NoCity == 0
Hole == "undefined"   \* what a look-up after the end of an array returns

CityRec == [list: Seq(Items \cup {Hole}), making: Items, mine: BOOLEAN, here: BOOLEAN]
Buttons == {"up", "down", "remove", "exchange", "add", "insert", "change"}

VARIABLES
  touch,     \* is_touch_device
  city,      \* cities; the dialog keeps its city when it is removed (~here)
  shown,     \* active_city
  rows,      \* positions with a row in the dialog
  fresh,     \* the worklist is as it was when the dialog was drawn
  chosen,    \* worklist_selection
  picked,    \* production_selection
  all,       \* opt_show_unreachable_items
  clicks,    \* city_prod_clicks, as far as it matters: was there any?
  enabled,   \* buttons
  question,  \* the modal dialog: none, buy or rename
  edits,
  sent       \* requests of the last callback

selection == <<chosen, picked>>
page == <<touch, all, clicks, question>>
vars == <<touch, city, shown, rows, fresh, chosen, picked, all, clicks, enabled,
          question, edits, sent>>

Own == {c \in Cities : city[c].here /\ city[c].mine}
List == city[shown].list

-----------------------------------------------------------------------------
(* Arrays: reading after the end gives Hole, writing there extends.        *)

At(l, i) == IF i \in DOMAIN l THEN l[i] ELSE Hole

Put(l, i, x) ==
  [j \in 1..(IF i > Len(l) THEN i ELSE Len(l)) |-> IF j = i THEN x ELSE At(l, j)]

Swap(l, i, j) == Put(Put(l, i, At(l, j)), j, At(l, i))

\* splice(i, n, new...)
Splice(l, i, n, new) ==
  SubSeq(l, 1, IF i > Len(l) THEN Len(l) ELSE i - 1) \o new \o SubSeq(l, i + n, Len(l))

\* Loops over positions: each task changes places with the one before it, from
\* the first position on, or with the one after it, from the last on; each gets
\* a new task; each is taken out, from the last on.
MovedUp(l, ps) ==
  LET Moved[k \in 0..Len(ps)] ==
        IF k = 0 THEN l ELSE Swap(Moved[k - 1], ps[k] - 1, ps[k])
  IN  Moved[Len(ps)]

MovedDown(l, ps) ==
  LET Moved[k \in 0..Len(ps)] ==
        IF k = 0 THEN l ELSE LET i == ps[Len(ps) - k + 1] IN Swap(Moved[k - 1], i, i + 1)
  IN  Moved[Len(ps)]

Exchanged(l, ps, xs) ==
  LET Done[k \in 0..Len(ps)] == IF k = 0 THEN l ELSE Put(Done[k - 1], ps[k], xs[k])
  IN  Done[Len(ps)]

Without(l, ps) ==
  LET Left[k \in 0..Len(ps)] ==
        IF k = 0 THEN l ELSE Splice(Left[k - 1], ps[Len(ps) - k + 1], 1, <<>>)
  IN  Left[Len(ps)]

Lowest(m, n) == IF m < n THEN m ELSE n
Ascending(s) == \A i, j \in DOMAIN s : i < j => s[i] < s[j]

-----------------------------------------------------------------------------
(* Drawing.                                                                *)

\* city_worklist_dialog: units have no image here, and no row
RowsOf(l) == {j \in DOMAIN l : l[j] \in Improvements}

\* update_worklist_actions
Enabled(wl, ch, pk) ==
  (IF ch = <<>> THEN {} ELSE {"up", "remove"})
    \cup (IF ch # <<>> /\ ch[Len(ch)] # Len(wl) THEN {"down"} ELSE {})
    \cup (IF pk = <<>> THEN {} ELSE {"add", "insert"})
    \cup (IF pk # <<>> /\ (Len(pk) = Len(ch) \/ Len(ch) = 1) THEN {"exchange"} ELSE {})
    \cup (IF Len(pk) = 1 THEN {"change"} ELSE {})


\* A worklist with an undefined entry breaks city_worklist_dialog off.  The
\* selection is cut at the first position beyond the number of rows.
CityWorklistDialog(c, ch) ==
  LET l == city'[c].list IN
  IF Hole \in Range(l)
  THEN /\ rows' = {} /\ fresh' = FALSE /\ chosen' = ch /\ enabled' = Buttons
  ELSE LET most == Lowest(MaxLen, Cardinality(RowsOf(l)))
           kept == Keep(ch, {i \in DOMAIN ch : \A j \in 1..i : ch[j] <= most})
       IN  /\ rows' = RowsOf(l) /\ fresh' = TRUE
           /\ chosen' = kept /\ enabled' = Enabled(l, kept, picked')

\* show_city_dialog: an open dialog is closed first; the same city keeps
\* what is selected.
ShowCityDialog(c) ==
  /\ shown' = c
  /\ IF shown = c THEN UNCHANGED <<picked, clicks>> ELSE picked' = <<>> /\ clicks' = FALSE
  /\ CityWorklistDialog(c, IF shown = c THEN chosen ELSE <<>>)

ShowCity(c) ==
  /\ question = "none" /\ c \in Own
  /\ UNCHANGED city
  /\ ShowCityDialog(c)
  /\ sent' = <<>> /\ UNCHANGED <<touch, all, question, edits>>

\* city_dialog_close_handler; the selections stay
CloseCityDialog ==
  /\ shown # NoCity /\ question = "none"
  /\ shown' = NoCity /\ fresh' = FALSE /\ rows' = {}
  /\ sent' = <<>> /\ UNCHANGED <<city, selection, page, enabled, edits>>

\* next_city and previous_city: the table of cities is written anew first;
\* from a city that is not in it to its first or last row
NextOf(c, s) == LET later == {d \in s : d > c}
                IN  CHOOSE d \in IF later = {} THEN s ELSE later :
                      \A e \in IF later = {} THEN s ELSE later : d <= e
PreviousOf(c, s) == LET earlier == {d \in s : d < c}
                    IN  CHOOSE d \in IF earlier = {} THEN s ELSE earlier :
                          \A e \in IF earlier = {} THEN s ELSE earlier : d >= e

NextCity ==
  /\ shown # NoCity /\ question = "none" /\ Own # {}
  /\ UNCHANGED city
  /\ \/ ShowCityDialog(IF shown \in Own THEN NextOf(shown, Own)
                       ELSE CHOOSE d \in Own : \A e \in Own : d <= e)
     \/ ShowCityDialog(IF shown \in Own THEN PreviousOf(shown, Own)
                       ELSE CHOOSE d \in Own : \A e \in Own : d >= e)
  /\ sent' = <<>> /\ UNCHANGED <<touch, all, question, edits>>

-----------------------------------------------------------------------------
(* Requests about the city that is open.                                   *)

Req(k, x) == <<k, shown, x>>

\* Bound: what follows does not depend on what is selected.
Unselected == chosen = <<>> /\ picked = <<>>

\* request_city_buy asks, if the treasury has the price; send_city_buy buys
\* for the city that is open when the answer comes.
RequestCityBuy ==
  /\ shown # NoCity /\ question = "none" /\ Unselected
  /\ question' \in {"none", "buy"}
  /\ sent' = <<>> /\ UNCHANGED <<touch, city, shown, rows, fresh, selection, all, clicks, enabled, edits>>

RenameCity ==
  /\ shown # NoCity /\ question = "none" /\ Unselected
  /\ question' = "rename"
  /\ sent' = <<>> /\ UNCHANGED <<touch, city, shown, rows, fresh, selection, all, clicks, enabled, edits>>

\* "Yes", "Ok" or Enter, which does not look at the length of the name; "No"
\* or "Cancel"; an answer with no city open is a TypeError for the name
Answer ==
  /\ question # "none"
  /\ \/ question' = "none" /\ sent' = IF shown = NoCity THEN <<>> ELSE <<Req(question, "")>>
     \/ question' = "none" /\ sent' = <<>>
  /\ UNCHANGED <<touch, city, shown, rows, fresh, selection, all, clicks, enabled, edits>>

\* request_new_cma: the governor is set when one of its boxes is ticked
Governor(boxes) == IF boxes = {} THEN "cma_clear" ELSE "cma_set"

\* city_change_specialist: to the next of three
Specialist(from) == (from + 1) % 3

OtherRequests ==
  /\ shown # NoCity /\ question = "none"
  /\ Unselected
  /\ \/ sent' = <<Req("sell", "")>>
     \/ \E from \in 0..2 : sent' = <<Req("specialist", Specialist(from))>>
     \/ \E boxes \in SUBSET {"food", "shield", "trade"} : sent' = <<Req(Governor(boxes), "")>>
  /\ UNCHANGED <<touch, city, shown, rows, fresh, selection, page, enabled, edits>>

-----------------------------------------------------------------------------
(* Selecting.                                                              *)

\* the rows of the production choices
Offered == IF all THEN Items ELSE Able

Select(ch, pk) ==
  /\ shown # NoCity /\ question = "none"
  /\ chosen' = ch /\ picked' = pk /\ enabled' = Enabled(List, ch, pk)
  /\ sent' = <<>> /\ UNCHANGED <<touch, city, shown, rows, fresh, question, clicks, edits>>

\* handle_worklist_select and handle_worklist_unselect
Pick(x) ==
  /\ ~touch
  /\ IF x \in Range(picked) THEN Select(chosen, Keep(picked, {i \in DOMAIN picked : picked[i] # x}))
     ELSE Len(picked) < MaxPicked /\ Select(chosen, Append(picked, x))
  /\ UNCHANGED all

\* The positions before and behind one.
Below(i) == Keep(chosen, {k \in DOMAIN chosen : chosen[k] < i})
Above(i) == Keep(chosen, {k \in DOMAIN chosen : chosen[k] > i})

\* handle_current_worklist_select and handle_current_worklist_unselect keep
\* the positions in order
Choose(i) ==
  /\ ~touch
  /\ Select(Below(i) \o (IF i \in Range(chosen) THEN <<>> ELSE <<i>>) \o Above(i), picked)
  /\ UNCHANGED all

\* handle_current_worklist_click
Click(i) ==
  /\ touch
  /\ Select(IF chosen = <<i>> THEN <<>> ELSE <<i>>, picked)
  /\ UNCHANGED all

\* show_unreachable_items empties what is picked; the buttons are looked at
\* only if there was something
ShowUnreachableItems ==
  /\ shown # NoCity /\ question = "none"
  /\ all' = ~all /\ picked' = <<>>
  /\ enabled' = IF picked = <<>> THEN enabled ELSE Enabled(List, chosen, <<>>)
  /\ sent' = <<>> /\ UNCHANGED <<touch, city, shown, rows, fresh, chosen, clicks, question, edits>>

-----------------------------------------------------------------------------
(* Commands on the worklist.                                               *)

\* send_city_worklist: what is too long is cut off, in the mirror too; the
\* request fails for a city that was removed
Cut(l) == IF city[shown].here THEN SubSeq(l, 1, Lowest(Len(l), MaxLen)) ELSE l

Send(l, before) ==
  /\ city' = [city EXCEPT ![shown].list = Cut(l)]
  /\ sent' = IF city[shown].here THEN before \o <<Req("worklist", "")>> ELSE before

NothingSent == UNCHANGED city /\ sent' = <<>>

Command(button) ==
  /\ shown # NoCity /\ question = "none" /\ button \in enabled
  /\ edits < MaxEdits /\ edits' = edits + 1
  /\ fresh' = FALSE
  /\ UNCHANGED <<touch, shown, rows, picked, all, question, enabled, clicks>>

\* send_city_change: the mirror waits for the server
CityChangeProduction ==
  /\ Command("change")
  /\ Len(picked) = 1
  /\ UNCHANGED <<city, chosen>> /\ sent' = <<Req("change", Head(picked))>>

CityAddToWorklist ==
  /\ Command("add") /\ picked # <<>>
  /\ Send(List \o picked, <<>>) /\ UNCHANGED chosen

\* send_city_worklist_add: a double click on a choice, or on a touch device
\* every click but the first, which changes the production
CityWorklistAdd(x) ==
  /\ shown # NoCity /\ question = "none" /\ edits < MaxEdits /\ edits' = edits + 1
  /\ clicks' = IF touch THEN TRUE ELSE clicks
  /\ fresh' = FALSE
  /\ IF touch /\ ~clicks THEN UNCHANGED city /\ sent' = <<Req("change", x)>>
     ELSE IF ~city[shown].here \/ Len(List) >= MaxLen THEN NothingSent
     ELSE Send(Append(List, x), <<>>)
  /\ UNCHANGED <<touch, shown, rows, selection, all, question, enabled>>

\* city_insert_in_worklist: before the first one chosen; with none chosen,
\* what is inserted becomes chosen
CityInsertInWorklist ==
  /\ Command("insert") /\ picked # <<>>
  /\ LET count == Lowest(Len(picked), MaxLen) IN
     IF chosen = <<>>
     THEN /\ chosen' = [i \in 1..count |-> i] /\ Send(picked \o List, <<>>)
     ELSE /\ chosen' = [i \in DOMAIN chosen |-> chosen[i] + count]
          /\ Send(Splice(List, Head(chosen), 0, picked), <<>>)

\* city_worklist_task_up: the first task changes places with what the city
\* makes, according to the mirror
CityWorklistTaskUp ==
  /\ Command("up") /\ chosen # <<>>
  /\ LET first == Head(chosen) = 1
         rest == IF first THEN Tail(chosen) ELSE chosen
         making == city[shown].making
         swaps == first /\ At(List, 1) # making
         top == IF swaps THEN Put(List, 1, making) ELSE List
         l == MovedUp(top, rest)
     IN  IF first /\ At(List, 1) = Hole THEN chosen' = rest /\ NothingSent
         ELSE /\ chosen' = [i \in DOMAIN rest |-> rest[i] - 1]
              /\ Send(l, IF swaps THEN <<Req("change", List[1])>> ELSE <<>>)

CityWorklistTaskDown ==
  /\ Command("down") /\ chosen # <<>>
  /\ IF Last(chosen) = Len(List) THEN UNCHANGED chosen /\ NothingSent
     ELSE /\ Send(MovedDown(List, chosen), <<>>)
          /\ chosen' = [i \in DOMAIN chosen |-> chosen[i] + 1]

\* city_exchange_worklist_task: one for one, unless nothing would change; or
\* one task for all that are picked
CityExchangeWorklistTask ==
  /\ Command("exchange") /\ picked # <<>>
  /\ LET differ == {i \in DOMAIN chosen : At(List, chosen[i]) # picked[i]}
         first == CHOOSE i \in differ : \A j \in differ : i <= j
     IN  IF Len(picked) = Len(chosen)
         THEN /\ UNCHANGED chosen
              /\ IF differ = {} THEN NothingSent
                 ELSE IF At(List, chosen[first]) = Hole THEN NothingSent
                 ELSE Send(Exchanged(List, chosen, picked), <<>>)
         ELSE IF Len(chosen) # 1 THEN UNCHANGED chosen /\ NothingSent
         ELSE /\ chosen' = [i \in DOMAIN picked |-> chosen[1] + i - 1]
              /\ Send(Splice(List, chosen[1], 1, picked), <<>>)

CityWorklistTaskRemove ==
  /\ Command("remove") /\ chosen # <<>>
  /\ chosen' = <<>>
  /\ Send(Without(List, chosen), <<>>)

\* handle_current_worklist_direct_remove: a double click on a row
DirectRemove(i) ==
  /\ shown # NoCity /\ question = "none" /\ edits < MaxEdits /\ edits' = edits + 1
  /\ fresh' = FALSE
  /\ chosen' = Below(i) \o [k \in DOMAIN Above(i) |-> Above(i)[k] - 1]
  /\ Send(Splice(List, i, 1, <<>>), <<>>)
  /\ UNCHANGED <<touch, shown, rows, picked, all, clicks, question, enabled>>

-----------------------------------------------------------------------------
(* Packets.                                                                *)

\* handle_city_info, and handle_web_city_info_addition, whose
\* update_city_info_dialog exists nowhere; a new city of one's own opens.
HandleCityInfo(c, info) ==
  /\ edits < MaxEdits /\ edits' = edits + 1
  /\ city[c].here \/ shown # c
  /\ city' = [city EXCEPT ![c] = info]
  /\ sent' = <<>>
  /\ IF ~city[c].here /\ info.mine THEN ShowCityDialog(c)
     ELSE /\ fresh' = (fresh /\ shown # c)
          /\ UNCHANGED <<shown, rows, selection, enabled, clicks>>
  /\ UNCHANGED <<touch, all, question>>

\* removeCity: the dialog of the city stays
RemoveCity(c) ==
  /\ city[c].here
  /\ city' = [city EXCEPT ![c].here = FALSE]
  /\ sent' = <<>> /\ UNCHANGED <<touch, shown, rows, fresh, selection, all, clicks, enabled, question, edits>>

-----------------------------------------------------------------------------
Init ==
  \E info \in Packets :
  /\ info.mine
  /\ touch \in BOOLEAN
  /\ city = [c \in Cities |-> [info EXCEPT !.here = c = 1]]
  /\ shown = NoCity /\ rows = {} /\ fresh = FALSE /\ chosen = <<>> /\ picked = <<>>
  /\ all = FALSE /\ clicks = FALSE /\ enabled = {} /\ question = "none"
  /\ edits = 0 /\ sent = <<>>

Selecting ==
  /\ shown # NoCity
  /\ \/ \E x \in Offered : Pick(x)
     \/ \E i \in rows : Choose(i) \/ Click(i)

Commands ==
  \/ CityChangeProduction \/ CityAddToWorklist \/ CityInsertInWorklist
  \/ CityWorklistTaskUp \/ CityWorklistTaskDown \/ CityExchangeWorklistTask
  \/ CityWorklistTaskRemove \/ (\E i \in rows : DirectRemove(i))
  \/ \E x \in Offered : CityWorklistAdd(x)

Next ==
  \/ \E c \in Cities : ShowCity(c) \/ RemoveCity(c)
  \/ CloseCityDialog \/ NextCity
  \/ RequestCityBuy \/ RenameCity \/ Answer \/ OtherRequests
  \/ Selecting \/ ShowUnreachableItems \/ Commands
  \/ \E c \in Cities, info \in Packets : HandleCityInfo(c, info)

Spec == Init /\ [][Next]_vars

-----------------------------------------------------------------------------
(* Properties.                                                             *)

TypeOK ==
  /\ city \in [Cities -> CityRec]
  /\ shown \in Cities \cup {NoCity} /\ rows \subseteq Nat /\ enabled \subseteq Buttons
  /\ picked \in Seq(Items) /\ chosen \in Seq(Nat)
  /\ {touch, fresh, all, clicks} \subseteq BOOLEAN
  /\ question \in {"none", "buy", "rename"} /\ edits \in 0..MaxEdits

\* The commands rely on the order of worklist_selection: whatever is selected,
\* moved, inserted and removed, it ascends (handle_current_worklist_select).
ChosenAscends == Ascending(chosen)

\* Until the worklist changes under the dialog, what is chosen is in it, even
\* though rows and positions are numbered apart (city_worklist_dialog).
ChosenExists == fresh => Range(chosen) \subseteq DOMAIN List

\* No worklist in the mirror is longer than the server takes
\* (send_city_worklist cuts, send_city_worklist_add refuses).  All of this under
\* the hypothesis above: the names that the dialog reads are bound.
NeverTooLong == \A c \in Cities : city[c].here => Len(city[c].list) <= MaxLen

CitySound == TypeOK /\ ChosenAscends /\ ChosenExists /\ NeverTooLong

\* Moving tasks up or down loses and doubles none: what the city makes and its
\* worklist, as they are asked for, are what they were, and the tasks that
\* stay chosen are the same ones (city_worklist_task_up, _task_down).
Asked == IF sent' # <<>> /\ sent'[1][1] = "change" THEN sent'[1][3] ELSE city[shown].making
Count(x, l) == Cardinality({i \in DOMAIN l : l[i] = x})
MovesOnly ==
  (fresh /\ city[shown].here /\ Hole \notin Range(List) /\ (CityWorklistTaskUp \/ CityWorklistTaskDown)) =>
    LET after == city'[shown].list
        kept == Len(chosen')
        old(i) == List[chosen[i + Len(chosen) - kept]]
    IN  /\ \A x \in Items \cup {Hole} :
             Count(x, <<Asked>> \o after) = Count(x, <<city[shown].making>> \o List)
        /\ \A i \in 1..kept : after[chosen'[i]] = old(i)
=============================================================================
