------------------------------ MODULE MCSensor ------------------------------
(***************************************************************************)
(* Two models of m9.c's loop over cam.c: the overlapped capture, and the   *)
(* keys that ask the sensor of its loops.  They share no state, so a       *)
(* behaviour of the run is one of the first or of the second.  The one     *)
(* that does not move stands in one of its initial states.                 *)
(***************************************************************************)
EXTENDS MCCapture, MCWitness

Parked == sensor = [mask |-> MCLoops, running |-> MCLoops, stuck |-> FALSE,
                    die |-> [l \in MCLoops |-> 1]]
Lights == pace[0] = 2 /\ room = 1

SensorInit == Init /\ WitnessInit /\ (Parked \/ Lights)
SensorNext ==
  \/ WitnessInit /\ Parked /\ Next /\ UNCHANGED witnessVars
  \/ Init /\ Lights /\ WitnessNext /\ UNCHANGED vars

SensorSpec == SensorInit /\ [][SensorNext]_<<vars, witnessVars>>
=============================================================================
