------------------------------ MODULE MCScores ------------------------------
(***************************************************************************)
(* The two halves of a score: the encoder that makes an embedding of an    *)
(* image, and what m9.c compares an embedding with.  They share no state,  *)
(* so a behaviour of the run is one of the first or of the second; while   *)
(* the second moves, the first has a blob that is taken and has not begun.        *)
(***************************************************************************)
EXTENDS MCBackground, MCEncoder

ScoresInit == Init /\ EncoderInit
ScoresNext ==
  \/ EncoderInit /\ blob = Small /\ Next /\ UNCHANGED encoderVars
  \/ Init /\ EncoderNext /\ UNCHANGED vars

ScoresSpec == ScoresInit /\ [][ScoresNext]_<<vars, encoderVars>>
=============================================================================
