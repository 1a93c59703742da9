------------------------------ MODULE MCOutage ------------------------------
(***************************************************************************)
(* The watch, and the flash sector its records are left in.  Outage takes  *)
(* of the sector what LastWords promises, so that the two need not be      *)
(* interleaved: a behaviour of the run is one of the first or the second.  *)
(***************************************************************************)
EXTENDS Outage, LastWords

WatchInit == Init /\ SectorInit
WatchNext ==
  \/ SectorInit /\ Next /\ UNCHANGED sectorVars
  \/ Init /\ SectorNext /\ UNCHANGED vars

WatchSpec ==
  /\ WatchInit /\ [][WatchNext]_<<vars, sectorVars>>
  /\ WF_vars(Tick) /\ WF_vars(Watch)
=============================================================================
