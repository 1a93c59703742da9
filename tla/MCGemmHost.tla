----------------------------- MODULE MCGemmHost -----------------------------
(***************************************************************************)
(* The two models of gemm_host.c: its transactions, and the staging of     *)
(* each in the transmit buffer.  They share no state, so a behaviour of    *)
(* the run is one of the first or of the second.                           *)
(***************************************************************************)
EXTENDS GemmHost, TxStage

MCPayloads == {<<1>>, <<6, 4>>}
MCCalls == {CFG, WGT, RUN, DRAIN, NOP}

DriverInit == Init /\ StageInit
DriverNext ==
  \/ StageInit /\ Next /\ UNCHANGED stageVars
  \/ Init /\ StageNext /\ UNCHANGED vars

DriverSpec == DriverInit /\ [][DriverNext]_<<vars, stageVars>>
=============================================================================
