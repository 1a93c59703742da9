------------------------------- MODULE MCTile -------------------------------
(***************************************************************************)
(* Small layers on a tile of two lanes: a stride 1 layer of nibbles, rows  *)
(* of four; a stride 2 layer of bytes, rows of three outputs; one whose    *)
(* rows are one output long.  OddRows is the one kind the sums are wrong   *)
(* for with packed taps: no layer of the encoder is of it.                 *)
(***************************************************************************)
EXTENDS Tile

Nibbles == [h |-> 4, w |-> 4, oh |-> 4, ow |-> 4, cin |-> 2, cout |-> 4, wbits |-> 4]
Strided == [h |-> 4, w |-> 6, oh |-> 2, ow |-> 3, cin |-> 1, cout |-> 4, wbits |-> 8]
Point   == [h |-> 2, w |-> 2, oh |-> 1, ow |-> 1, cin |-> 2, cout |-> 2, wbits |-> 8]
OddRows == [h |-> 3, w |-> 3, oh |-> 3, ow |-> 3, cin |-> 1, cout |-> 2, wbits |-> 8]

MCLayers == {Nibbles, Strided, Point}
MCOddRows == {OddRows}
=============================================================================
