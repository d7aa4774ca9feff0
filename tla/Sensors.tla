------------------------------ MODULE Sensors -------------------------------
(***************************************************************************)
(* The robot's sensors for TLC: the localizer's geometry, its thread with  *)
(* the dashboard's, and the lidar.  They share no state: in a behaviour    *)
(* one of them runs and the others stay as they are.                       *)
(***************************************************************************)
EXTENDS Trilateration, Localizer, Lidar

VARIABLE on      \* the sensor whose behaviour this is
sensors == <<on, vars, localizerVars, lidarVars>>

\* The places, in units of 6 cm: tags 0.6 m and anchors 2.8 m apart, as on the
\* robot, the tag to the right off by up to one unit.

\* Half of the way from the left to the right tag.
MCHalves == {<<5, 0>>, <<-5, 0>>, <<0, 5>>, <<0, -5>>, <<3, 4>>, <<4, -3>>}
\* The second makes some separations fit no longer.
MCErrors == {<<0, 0>>, <<1, 0>>}
\* On both sides of the line, near it and away from it.
MCMiddles == {30} \X {-12, -2, 0, 1, 3, 12, 20}
MCPlaces ==
  {[left  |-> <<m[1] - v[1], m[2] - v[2]>>,
    right |-> <<m[1] + v[1] + e[1], m[2] + v[2] + e[2]>>]
     : m \in MCMiddles, v \in MCHalves, e \in MCErrors}

----------------------------------------------------------------------------
\* The types of the two that have any to mistake.
SensorsTypeOK == LocalizerTypeOK /\ LidarTypeOK

SensorsInit ==
  /\ on \in {"geometry", "localizer", "lidar"}
  /\ Init /\ (on # "geometry" => tags = CHOOSE t \in Places : TRUE)
  /\ LocalizerInit
  /\ LidarInit /\ (on # "lidar" => mode = "none")

SensorsNext ==
  /\ UNCHANGED on
  /\ \/ on = "geometry" /\ Next /\ UNCHANGED <<localizerVars, lidarVars>>
     \/ on = "localizer" /\ LocalizerNext /\ UNCHANGED <<vars, lidarVars>>
     \/ on = "lidar" /\ LidarNext /\ UNCHANGED <<vars, localizerVars>>

\* The fairness of LocalizerSpec and LidarSpec.
SensorsSpec ==
  /\ SensorsInit /\ [][SensorsNext]_sensors
  /\ WF_sensors(on = "localizer" /\ Thread /\ UNCHANGED <<on, vars, lidarVars>>)
  /\ WF_sensors(on = "localizer" /\ Sender /\ UNCHANGED <<on, vars, lidarVars>>)
  /\ WF_sensors(on = "lidar" /\ Main /\ UNCHANGED <<on, vars, localizerVars>>)
  /\ WF_sensors(on = "lidar" /\ Scan /\ UNCHANGED <<on, vars, localizerVars>>)
=============================================================================
