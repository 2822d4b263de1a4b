-------------------------------- MODULE Pipe --------------------------------
(***************************************************************************)
(* What one direction of a proxied connection promises: what comes out is  *)
(* what went in, in order, once each.  A pipe may stop delivering at any   *)
(* point (a connection is lost), so there is no fairness.                  *)
(***************************************************************************)
EXTENDS Naturals, Sequences

VARIABLES in, out     \* everything put in so far, and everything taken out

pipeVars == <<in, out>>

Init == in = << >> /\ out = << >>

\* The sender writes one item.
Put ==
  /\ in' = Append(in, Len(in) + 1)
  /\ UNCHANGED out

\* The oldest item not yet delivered reaches the receiver.
Deliver ==
  /\ Len(out) < Len(in)
  /\ out' = Append(out, in[Len(out) + 1])
  /\ UNCHANGED in

Next == Put \/ Deliver

Spec == Init /\ [][Next]_pipeVars
=============================================================================
