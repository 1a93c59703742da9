------------------------------- MODULE TxStage -------------------------------
(***************************************************************************)
(* gw_stage() of firmware/gemm_wire.c and the dirty mark it keeps over     *)
(* txb, the one buffer every frame is built in.  What follows a frame on   *)
(* the wire, its idle tail, must be zeros: a byte left over from a longer  *)
(* frame is read by the FPGA as the beginning of another.  The tail is not *)
(* cleared every time; the mark says how far the buffer may be dirty.      *)
(*                                                                         *)
(* A frame's bytes (header, payload) are all the same ink, which tells one *)
(* frame's bytes from another's, and from the blank of an idle byte.  At   *)
(* width 3 a word of txb carries three wire bytes; the fourth is dropped   *)
(* by the PIO.                                                             *)
(***************************************************************************)
EXTENDS Integers

CONSTANTS
  TxbWords,     \* GH_TXB_MAX / 4, the size of txb in words
  WireMax,      \* bound: the longest transaction, in wire bytes
  Inks          \* what the bytes of one frame are told by

Blank  == 0
TxbMax == 4 * TxbWords

ASSUME TxStageAssumption ==
  /\ TxbWords \in Nat
  /\ WireMax \in Nat /\ Blank \notin Inks

VARIABLES
  txb,          \* the buffer
  dirty,        \* txb_dirty: everything from here on is blank
  width,        \* link_w, 1 or 3
  frame,        \* the last transaction: its ink, the wire bytes of its header and
                \* payload, and all of them with its tail
  wire          \* what the PIO put on the lanes for it, byte by byte

stageVars == <<txb, dirty, width, frame, wire>>

Buffer == 0 .. (TxbMax - 1)

\* GW_BUFB: the bytes of txb that n wire bytes take.
BufB(w, n) == IF w = 1 THEN n ELSE 4 * ((n + 2) \div 3)

\* Where the k-th wire byte of a transaction is, and whether byte i of txb is one.
Place(w, k)  == IF w = 1 THEN k ELSE 4 * (k \div 3) + (k % 3)
IsWire(w, i) == w = 1 \/ i % 4 < 3
Which(w, i)  == IF w = 1 THEN i ELSE 3 * (i \div 4) + (i % 4)

\* gw_hdr(): five bytes, and at width 3 one of padding, so that the payload
\* starts on a word.
Hdr(w) == IF w = 1 THEN 5 ELSE 6

\* Mutant: bytes past the frame in its last word are left as they were.
Packed_Part(w, i, sent, ink, old) ==
  IF IsWire(w, i) /\ Which(w, i) < sent THEN ink ELSE old

\* memcpy, or gw_pack3(): whole words, so that every byte below body is defined.
Packed(w, i, sent, ink, old) ==
  IF IsWire(w, i) /\ Which(w, i) < sent THEN ink ELSE Blank

\* What is past nbuf was not cleared and is still dirty.
Mark(body, nbuf) == IF dirty <= nbuf THEN body ELSE dirty

StageInit ==
  /\ txb = [i \in Buffer |-> Blank]
  /\ dirty = 0 /\ width = 1
  /\ frame = [ink |-> Blank, sent |-> 0, n |-> 0]
  /\ wire = [k \in {} |-> Blank]

\* gw_stage() of a payload of len bytes in a transaction of n wire bytes, and
\* gh_xfer_arm(): the DMA reads txb, and one zero word for what is past it.
\* gh_frame() refuses what does not fit.
Stage(len, n, ink) ==
  LET w    == width
      sent == Hdr(w) + len
      nbuf == BufB(w, n)
      body == BufB(w, Hdr(w)) + BufB(w, len)
      tx   == [i \in Buffer |->
                 IF i < body THEN Packed(w, i, sent, ink, txb[i])
                 ELSE IF i < dirty /\ i < nbuf THEN Blank
                 ELSE txb[i]]
  IN /\ body <= TxbMax
     /\ sent <= n /\ n % (4 * w) = 0
     /\ txb' = tx
     /\ dirty' = Mark(body, nbuf)
     /\ frame' = [ink |-> ink, sent |-> sent, n |-> n]
     /\ wire' = [k \in 0 .. (n - 1) |->
                   IF Place(w, k) < TxbMax THEN tx[Place(w, k)] ELSE Blank]
     /\ UNCHANGED width

\* gh_set_width(): repacking moves every byte, so the buffer starts again.
SetWidth(w) ==
  /\ w # width
  /\ width' = w
  /\ txb' = [i \in Buffer |-> Blank]
  /\ dirty' = 0
  /\ UNCHANGED <<frame, wire>>

StageNext ==
  \/ \E n \in 0 .. WireMax : \E len \in 0 .. n : \E ink \in Inks : Stage(len, n, ink)
  \/ \E w \in {1, 3} : SetWidth(w)

StageSpec == StageInit /\ [][StageNext]_stageVars

-----------------------------------------------------------------------------
\* Every frame goes out as its own bytes and then nothing but blanks, whatever the
\* lengths and the width of the ones before it.
WireIsFrame ==
  \A k \in 0 .. (frame.n - 1) :
    wire[k] = IF k < frame.sent THEN frame.ink ELSE Blank

\* The mark is never below a byte that is not blank, and never outside the buffer.
MarkCovers ==
  /\ dirty \in 0 .. TxbMax
  /\ \A i \in Buffer : i >= dirty => txb[i] = Blank

StageTypeOK ==
  /\ txb \in [Buffer -> Inks \cup {Blank}]
  /\ dirty \in Nat /\ width \in {1, 3}
  /\ frame \in [ink : Inks \cup {Blank}, sent : Nat, n : Nat]
  /\ wire \in [0 .. (frame.n - 1) -> Inks \cup {Blank}]

StageInv == StageTypeOK /\ MarkCovers /\ WireIsFrame

=============================================================================
