----------------------------- MODULE MCEncoder -----------------------------
(***************************************************************************)
(* A first layer of bytes, signed, of stride 1; a second of nibbles, of    *)
(* stride 2; a head of nibbles or bytes.  Nine points in tiles of three    *)
(* leave an odd column to each tile, four a tile of one; 9 and 18 taps     *)
(* leave one and two to the scalar tail.  One scale rounds up to 2^MBITS,  *)
(* one is clamped at SMAX.  The blobs that are to be refused differ from   *)
(* these in one respect each.                                              *)
(***************************************************************************)
EXTENDS Encoder

Conv0 == [relu |-> TRUE, unsigned_in |-> FALSE, ksize |-> 3, cin |-> 1, cout |-> 2,
          h |-> 3, w |-> 3, oh |-> 3, ow |-> 3, w_off |-> 0, wbits |-> 8,
          bias |-> <<900, 4000>>, mult |-> <<<<2047, 65536>>, <<5, 2048>>>>]
Conv1 == [relu |-> TRUE, unsigned_in |-> TRUE, ksize |-> 3, cin |-> 2, cout |-> 2,
          h |-> 3, w |-> 3, oh |-> 2, ow |-> 2, w_off |-> 18, wbits |-> 4,
          bias |-> <<100, -70>>, mult |-> <<<<3, 16>>, <<5, 8>>>>]
Linear == [relu |-> FALSE, unsigned_in |-> TRUE, ksize |-> 1, cin |-> 2, cout |-> 2,
           h |-> 1, w |-> 1, oh |-> 1, ow |-> 1, w_off |-> 36, wbits |-> 4,
           bias |-> <<3, -5>>, mult |-> <<<<1, 4>>, <<1, 2>>>>]

Small == [magic |-> TRUE, version |-> TRUE, desc_size |-> TRUE, missing |-> 0,
         in_ch |-> 1, in_size |-> 3, inv |-> <<3, 2>>,
         desc |-> <<Conv0, Conv1, Linear>>,
         wts |-> [i \in 1 .. 60 |-> (i * 37 + 11) % 256]]

\* Three convolutions, the last two of one width: the third reads what the second
\* wrote and writes where the first did.
Deep == [Small EXCEPT !.desc = <<Conv0, [Conv1 EXCEPT !.cout = 2, !.oh = 3, !.ow = 3],
                                [Conv1 EXCEPT !.w_off = 7], [Linear EXCEPT !.wbits = 8]>>]

Refused ==
  {[Small EXCEPT !.magic = FALSE], [Small EXCEPT !.version = FALSE],
   [Small EXCEPT !.desc_size = FALSE], [Small EXCEPT !.missing = 1],
   [Small EXCEPT !.desc = <<Linear>>], [Small EXCEPT !.desc[1].wbits = 2],
   [Small EXCEPT !.desc[1].wbits = 4],
   [Small EXCEPT !.desc[2].cin = 3],
   [Small EXCEPT !.desc[2].cout = 4, !.desc[2].bias = <<1, 2, 3, 4>>,
                !.desc[2].mult = <<<<3, 16>>, <<5, 8>>, <<3, 16>>, <<5, 8>>>>],
   [Small EXCEPT !.desc[2].oh = 3]}

\* A head of one output more than the embedding has room for, which nothing refuses.
WideHead == [Small EXCEPT !.desc[3].cout = 3, !.desc[3].bias = <<3, -5, 1>>,
                         !.desc[3].mult = <<<<1, 4>>, <<1, 2>>, <<1, 4>>>>]

\* The same with weights at the ends of their range, nibbles and bytes.
Ends(b) == [b EXCEPT !.wts = [i \in 1 .. 60 |-> IF i % 3 = 0 THEN 128 ELSE 127 + (i % 2)]]

MCBlobs == {Small, Deep, Ends(Small), Ends(Deep), WideHead} \cup Refused
MCVectors == <<[x \in 0 .. 8 |-> (x * 53 + 7) % 256],
               [x \in 0 .. 8 |-> IF x % 2 = 0 THEN 129 ELSE 127]>>
=============================================================================
