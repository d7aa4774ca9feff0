--------------------------- MODULE SensorsProofs ----------------------------
(***************************************************************************)
(* The composition of the sensors keeps what each of them keeps: in a      *)
(* behaviour of one the others stand still.                                *)
(***************************************************************************)
EXTENDS Sensors, LocalizerProofs, LidarProofs

SensorsInv == LocalizerInv /\ LidarInv

\* Whichever sensor takes the step, both invariants survive it.
THEOREM SensorsInvariance == SensorsSpec => []SensorsInv
<1>1. SensorsInit => SensorsInv
  BY InitLocalizerInv, InitLidarInv DEF SensorsInit, SensorsInv
<1>2. SensorsInv /\ [SensorsNext]_sensors => SensorsInv'
  <2> SUFFICES ASSUME SensorsInv, [SensorsNext]_sensors PROVE SensorsInv'
    OBVIOUS
  <2>1. [LocalizerNext]_localizerVars /\ [LidarNext]_lidarVars
    BY DEF SensorsNext, sensors
  <2> QED  BY <2>1, StepLocalizerInv, StepLidarInv DEF SensorsInv
<1> QED  BY <1>1, <1>2, PTL DEF SensorsSpec

\* Every variable of the sensors' threads has its type (uwb_localizer.py,
\* perception.py, streaming.py).
THEOREM SensorsTypeCorrect == SensorsSpec => []SensorsTypeOK
<1>1. SensorsInv => SensorsTypeOK
  BY LocalizerTyped, LidarTyped DEF SensorsInv, SensorsTypeOK
<1> QED  BY <1>1, SensorsInvariance, PTL
=============================================================================
