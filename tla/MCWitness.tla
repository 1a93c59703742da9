----------------------------- MODULE MCWitness -----------------------------
(***************************************************************************)
(* Two of the three loops: white balance is to every operator what gain    *)
(* is, so a mask of CAM_LOCK_STEPS is given by these two.  The check's     *)
(* second exposure, 0x0400, has a low byte of zero and is one that the     *)
(* room may ask for.                                                       *)
(***************************************************************************)
EXTENDS Witness

MCLoops  == {"exposure", "gain"}
MCOrder  == <<"exposure", "gain">>
MCSteps  == <<MCLoops, {"exposure"}, {}, {"exposure"}, {}>>
MCTry    == <<3, 4>>
MCLit    == [l \in MCLoops |-> IF l = "exposure" THEN {1, 4} ELSE {1, 2}]
MCBursts == {<<"L">>, <<"K">>, <<"P", "V">>, <<"V", "P", "L">>}
=============================================================================
