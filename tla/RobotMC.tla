------------------------------ MODULE RobotMC ------------------------------
(***************************************************************************)
(* Robot on small instances.  Two drive buttons are enough to press one    *)
(* while another is held; they are the two that also toggle tasks in AUTO. *)
(***************************************************************************)
EXTENDS Robot

MCDriveButtons == {"LB", "RB"}
=============================================================================
