------------------------------ MODULE MCCapture ------------------------------
(***************************************************************************)
(* Instances of Capture.  With two layers the boundaries are after each    *)
(* layer and after the head; the two paces put the long part first or last *)
(* and the rooms are one the schedule hides and one it only just can.      *)
(***************************************************************************)
EXTENDS Capture

\* Layer 0, layer 1 and the head.
ThePaces == {[k \in 0 .. 2 |-> p[k + 1]] : p \in {<<2, 3, 1>>, <<5, 1, 2>>}}

=============================================================================
