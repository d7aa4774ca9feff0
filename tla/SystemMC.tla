------------------------------ MODULE SystemMC ------------------------------
(***************************************************************************)
(* System on small instances.  Two operators: one holds a drive button     *)
(* that means nothing in AUTO, one the D-pad with a diagonal.              *)
(*                                                                         *)
(* They keep to what mission control can send, to a robot without a PID    *)
(* drive.  The robot is checked alone as well, mission control being gone, *)
(* with whatever commands reach it: its safety with the PID drive, its     *)
(* liveness without, which is small enough for that.  There two drive      *)
(* buttons are enough to press one while another is held; they are the two *)
(* that also toggle tasks in AUTO.                                         *)
(***************************************************************************)
EXTENDS System

MCDriveButtons ==
  {"LB", "RB", "X", "DPAD_UP", "DPAD_DOWN", "DPAD_LEFT", "DPAD_RIGHT"}
Centre == {<<0, 0>>}
FoldsOut == [buttons |-> {"X"}, hats |-> Centre]
UsesDpad == [buttons |-> {}, hats |-> {<<0, 0>>, <<0, 1>>, <<1, 1>>}]
MCOperators == {FoldsOut, UsesDpad}
MCFoldsOut == {FoldsOut}

VARIABLE alone      \* what is checked is the robot alone

rest == <<control, link, up, missed, silent>>

WithPID == INSTANCE Robot WITH DriveButtons <- {"LB", "RB"}, HasPID <- TRUE
Plain == INSTANCE Robot WITH DriveButtons <- {"LB", "RB"}, HasPID <- FALSE

\* Mission control after its end, with the connection closed.
ControlIsGone ==
  /\ uses = FoldsOut /\ at = "stopped" /\ chosen = "none"
  /\ held = {} /\ hat = <<0, 0>>
  /\ sticks = "centred" /\ read = "centred" /\ last = "none"
  /\ link = <<>> /\ up = FALSE
  /\ missed = {} /\ silent = TRUE

MCInit ==
  \/ alone = TRUE /\ WithPID!Init /\ ControlIsGone
  \/ alone = FALSE /\ SystemInit

Together == ~alone /\ SystemNext /\ UNCHANGED alone
RobotAlone == alone /\ WithPID!Next /\ UNCHANGED <<alone, rest>>
PlainAlone == alone /\ Plain!Next /\ UNCHANGED <<alone, rest>>

MCSpec == MCInit /\ [][Together \/ RobotAlone]_<<alone, system>>

\* Mission control and the robot under the fairness of System.
MCFairSystem ==
  SystemInit /\ alone = FALSE /\ [][Together]_<<alone, system>> /\ SystemFairness

\* The robot alone, without the PID drive, under the fairness of Robot.
PlainInit == Plain!Init /\ ControlIsGone /\ alone = TRUE
MCFairRobot == PlainInit /\ [][PlainAlone]_<<alone, system>> /\ Plain!Fairness
=============================================================================
