-------------------------------- MODULE Rates --------------------------------
(***************************************************************************)
(* The rates dialog and the choice of a government (ui/rates.ts,           *)
(* ui/governmentDialog.ts, data/government.ts, data/requirements.ts).      *)
(* Three sliders (libs/range.js) are moved one at a time; the other two    *)
(* give way unless they are locked, and rates that add up are sent.        *)
(***************************************************************************)
EXTENDS Naturals, Integers, FiniteSets

CONSTANTS
  Governments,  \* the governments of the ruleset
  Reqs,         \* what each of them requires: a set of requirements
  Techs,        \* the technologies that may be known
  Legal,        \* the rates the server may set by itself
  Stops         \* where a slider may be dragged to

VARIABLES
  player,       \* the player as the server and the mirror have him
  slider,       \* the sliders' values, while the dialog is open
  maxrate, label, lock,
  sent,         \* the rates that are on their way to the server
  offered,      \* the governments whose buttons are enabled, Closed without a dialog
  requested_gov,
  revolution    \* the government asked of the server

vars == <<player, slider, maxrate, label, lock, sent, offered, requested_gov, revolution>>

Kinds == {"tax", "lux", "sci"}
Sum(r) == r.tax + r.lux + r.sci
Rates(tax, lux, sci) == [tax |-> tax, lux |-> lux, sci |-> sci]

None == -1
Closed == {None}
NoRates == Rates(None, None, None)

Least(a, b) == IF a < b THEN a ELSE b
Most(a, b) == IF a > b THEN a ELSE b

(* governmentMaxRate *)
MaxRate(g) ==
  CASE g = 1 -> 60 [] g = 2 -> 70 [] g \in {3, 4} -> 80 [] OTHER -> 100

(* Range.setValue and setMaximum: a slider keeps to its range. *)
Clamp(value, max) == Least(Most(value, 0), max)

-----------------------------------------------------------------------------
(* isReqActive, isTechInRange: what is not implemented is never met, and a  *)
(* range that is not is not known to be.                                    *)
ReqResult(req) ==
  CASE req.kind = "none" -> "yes"
    [] req.kind = "advance" /\ req.range = "player" ->
         IF req.value \in player.known THEN "yes" ELSE "no"
    [] req.kind = "advance" /\ req.range # "player" -> "maybe"
    [] req.kind = "government" -> IF req.value = player.government THEN "yes" ELSE "no"
    [] OTHER -> "no"

IsReqActive(req) ==
  /\ ReqResult(req) # "maybe"
  /\ IF req.present THEN ReqResult(req) = "yes" ELSE ReqResult(req) = "no"

(* canPlayerGetGov.  player_has_wonder compares a bit vector's element with *)
(* TRUE and never finds one.                                                *)
CanPlayerGetGov(g) == \A req \in Reqs[g] : IsReqActive(req)

-----------------------------------------------------------------------------
Init ==
  /\ player \in {[government |-> g, rates |-> r, known |-> {}] : g \in Governments, r \in Legal}
  /\ slider = NoRates /\ maxrate = 80 /\ label = NoRates
  /\ lock = {} /\ sent = NoRates
  /\ offered = Closed /\ requested_gov = None /\ revolution = None

Dialog == <<slider, maxrate, label, lock>>
Govt == <<offered, requested_gov, revolution>>

(* update_rates_dialog: sliders that begin with the player's rates.  One is *)
(* set before its maximum is.  Either dialog is modal.                      *)
ShowTaxRatesDialog ==
  /\ slider = NoRates /\ offered = Closed
  /\ maxrate' = MaxRate(player.government)
  /\ slider' = [k \in Kinds |-> Clamp(player.rates[k], maxrate')]
  /\ label' = slider'
  /\ lock' = {}
  /\ UNCHANGED <<player, sent, Govt>>

CloseRates ==
  /\ slider # NoRates
  /\ slider' = NoRates /\ label' = NoRates /\ lock' = {}
  /\ UNCHANGED <<player, maxrate, sent, Govt>>

Lock(k) ==
  /\ slider # NoRates
  /\ lock' = IF k \in lock THEN lock \ {k} ELSE lock \cup {k}
  /\ UNCHANGED <<player, slider, maxrate, label, sent, Govt>>

Tens(value) == value - (value % 10)

(* The rate that makes up the sum, as far as the government allows. *)
MakesUp(r, k) == [r EXCEPT ![k] = Least(Most(100 - (Sum(r) - @), 0), maxrate)]
GivesWay(r, k) == IF Sum(r) # 100 /\ k \notin lock THEN MakesUp(r, k) ELSE r

(* The order in which the other two give way. *)
First(k) == IF k = "lux" THEN "tax" ELSE "lux"
Second(k) == IF k = "sci" THEN "tax" ELSE "sci"

(* update_tax_rates, update_lux_rates, update_sci_rates, after the slider   *)
(* was moved: rates that cannot add up put it back to where they would, and *)
(* leave the others and the labels.  The server has answered the last move. *)
UpdateRates(k, value) ==
  /\ sent = NoRates
  /\ slider # NoRates /\ value <= maxrate /\ value # slider[k]
  /\ LET moved == [kind \in Kinds |-> Tens(IF kind = k THEN value ELSE slider[kind])]
         rates == GivesWay(GivesWay(moved, First(k)), Second(k))
     IN IF Sum(rates) # 100
        THEN /\ slider' = [moved EXCEPT ![k] = Clamp(100 - (Sum(rates) - rates[k]), maxrate)]
             /\ UNCHANGED <<label, sent>>
        ELSE /\ slider' = [kind \in Kinds |-> Clamp(rates[kind], maxrate)]
             /\ label' = rates
             /\ sent' = rates
  /\ UNCHANGED <<player, maxrate, lock, Govt>>

-----------------------------------------------------------------------------
(* update_govt_dialog: which buttons can be pressed. *)
Offered == {g \in Governments : CanPlayerGetGov(g)}

(* show_revolution_dialog: the government requested before is remembered. *)
ShowRevolutionDialog ==
  /\ slider = NoRates /\ offered = Closed
  /\ offered' = Offered
  /\ UNCHANGED <<player, Dialog, sent, requested_gov, revolution>>

CloseRevolutionDialog ==
  /\ offered # Closed
  /\ offered' = Closed
  /\ UNCHANGED <<player, Dialog, sent, requested_gov, revolution>>

(* set_req_government: the buttons are drawn anew. *)
SetReqGovernment(g) ==
  /\ offered # Closed /\ g \in offered
  /\ requested_gov' = g
  /\ offered' = Offered
  /\ UNCHANGED <<player, Dialog, sent, revolution>>

(* start_revolution *)
StartRevolution ==
  /\ offered # Closed
  /\ IF requested_gov # None
     THEN revolution' = requested_gov /\ requested_gov' = None
     ELSE UNCHANGED <<revolution, requested_gov>>
  /\ offered' = Closed
  /\ UNCHANGED <<player, Dialog, sent>>

-----------------------------------------------------------------------------
(* The server takes rates its government allows; a revolution brings rates  *)
(* of its own, and technologies are learnt.                                 *)
ServerTakesRates ==
  /\ sent # NoRates
  /\ player' = IF \A k \in Kinds : sent[k] <= MaxRate(player.government)
               THEN [player EXCEPT !.rates = sent] ELSE player
  /\ sent' = NoRates
  /\ UNCHANGED <<Dialog, Govt>>

ServerChangesGovernment(g, r) ==
  /\ g = revolution
  /\ player' = [player EXCEPT !.government = g, !.rates = r]
  /\ revolution' = None
  /\ UNCHANGED <<Dialog, sent, offered, requested_gov>>

ServerTeaches(t) ==
  /\ t \notin player.known
  /\ player' = [player EXCEPT !.known = @ \cup {t}]
  /\ UNCHANGED <<Dialog, sent, Govt>>

Next ==
  \/ ShowTaxRatesDialog \/ CloseRates
  \/ \E k \in Kinds : Lock(k) \/ \E value \in Stops : UpdateRates(k, value)
  \/ ShowRevolutionDialog \/ CloseRevolutionDialog \/ StartRevolution
  \/ \E g \in Governments : SetReqGovernment(g) \/ \E r \in Legal : ServerChangesGovernment(g, r)
  \/ ServerTakesRates
  \/ \E t \in Techs : ServerTeaches(t)

Spec == Init /\ [][Next]_vars

-----------------------------------------------------------------------------
(* Rates are sent that add up, are multiples of ten and keep to the rate    *)
(* the dialog was drawn with; what was sent is what the labels say.         *)
SentAddsUp ==
  sent # NoRates =>
    /\ Sum(sent) = 100
    /\ \A k \in Kinds : sent[k] \in 0..100 /\ sent[k] % 10 = 0

LabelsAddUp ==
  slider # NoRates =>
    /\ \A k \in Kinds : slider[k] \in 0..maxrate
    /\ \A k \in Kinds : label[k] \in 0..maxrate

(* What is asked for has every requirement the client can judge, and no     *)
(* requirement it cannot (canPlayerGetGov with RPT_CERTAIN).                *)
GovernmentIsCertain ==
  \A g \in {revolution, requested_gov} \ {None} :
    \A req \in Reqs[g] :
      req.kind = "advance" => req.range = "player" /\ (req.present => req.value \in player.known)

RatesSound == SentAddsUp /\ LabelsAddUp /\ GovernmentIsCertain

(* Moving a rate leaves the slider of another that is locked, though not    *)
(* its label: what a move that did not add up has left on a slider is sent  *)
(* with the next (update_tax_rates, update_lux_rates, update_sci_rates).    *)
KeepsLocked ==
  \A k \in Kinds, v \in Stops :
    UpdateRates(k, v) => \A l \in lock \ {k} : slider'[l] = slider[l]
=============================================================================
