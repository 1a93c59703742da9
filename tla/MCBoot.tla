-------------------------------- MODULE MCBoot --------------------------------
(***************************************************************************)
(* An instance of Boot.  The times are those of the code in seconds, the   *)
(* ramp's sleep of 50 ms rounded up; the window is four frames, and of the *)
(* three lumas one is under the floor, one within the margin of it and one *)
(* clear of both.                                                          *)
(***************************************************************************)
EXTENDS Boot
=============================================================================
