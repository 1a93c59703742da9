---------------------------- MODULE MCBackground ----------------------------
(***************************************************************************)
(* Instances of Background: two queries at most; sets without roles, with  *)
(* both, with half of the pair, and with a role the build does not know    *)
(* behind one it does; backgrounds of no, one and two frames.              *)
(***************************************************************************)
EXTENDS Background

Offer(r, t, h) == [roles |-> r, tau |-> t, hold |-> h]

AllOffers ==
  {Offer(<<"plain", "plain">>, 2, TRUE), Offer(<<"gate", "class">>, 1, FALSE),
   Offer(<<"plain">>, 0, FALSE), Offer(<<"class", "class">>, 2, FALSE),
   Offer(<<"plain", "unknown">>, 1, FALSE)}

=============================================================================
