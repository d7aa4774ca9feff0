------------------------------- MODULE System -------------------------------
(***************************************************************************)
(* Mission control, the connection and the robot together.  The connection *)
(* is what Connection is shown to promise (ReliableLink): the commands     *)
(* arrive in order, each once, until it ends, and then the last of them    *)
(* are lost.  The robot is Robot without a PID drive, its commands now     *)
(* being those that mission control sent.                                  *)
(***************************************************************************)
EXTENDS Robot, MissionControl

\* TeleOp maps X and the four directions of the D-pad to the drivetrain, as it
\* does the two bumpers.
ASSUME SystemAssumption ==
  {"X"} \cup {Dpad[d][2] : d \in 1 .. 4} \subseteq DriveButtons

VARIABLES
  missed,    \* the drive buttons whose last release was told in AUTO
  silent     \* nothing has been sent since the mode was chosen or toggled

robot == <<ctrl, owner, tasks, pad, duty, sent, drv, pose>>
system == <<robot, control, link, up, missed, silent>>

SystemInit ==
  /\ Init /\ ControlInit
  /\ missed = {} /\ silent = TRUE

----------------------------------------------------------------------------
(* Mission control                                                         *)

Quietly == UNCHANGED <<robot, missed, silent>>

\* The connection is over and with it what was told.
Forgets == missed' = {} /\ silent' = TRUE /\ UNCHANGED robot

\* The robot looks at the connection when it polls and nowhere else, and
\* mission control never looks at the robot: what mission control does while
\* an iteration or stop() is under way can as well happen before or after.
BetweenPolls == pc \in {"starting", "poll"} \cup Ended

\* What a command leaves behind: releases told in AUTO, and the mode told.
Told(cmds) ==
  LET labelled(m, p) == {cmds[i].button : i \in {j \in DOMAIN cmds :
        cmds[j].kind = "button" /\ cmds[j].mode = m /\ cmds[j].pressed = p}}
  IN /\ missed' = (missed \cup (labelled("AUTO", FALSE) \cap DriveButtons))
                     \ (labelled("TELEOP", FALSE) \cup labelled("TELEOP", TRUE))
     /\ silent' = (silent /\ cmds = <<>>)
     /\ UNCHANGED robot

Sent == SubSeq(link', Len(link) + 1, Len(link'))

ControlStep ==
  /\ BetweenPolls
  /\ \/ Ready /\ Quietly
     \/ \E b \in {"A", "B"} : Select(b) /\ Quietly
     \/ \E b \in uses.buttons \cup {"A", "B"} : Unheard(b) /\ Quietly
     \/ EndDrain /\ Quietly
     \/ BeginTurn /\ Quietly
     \/ \E b \in uses.buttons \cup {"A", "B"} : (Press(b) \/ ReleaseButton(b)) /\ Told(Sent)
     \/ \E h \in uses.hats : MoveHat(h) /\ Told(Sent)
     \/ Toggle /\ silent' = TRUE /\ UNCHANGED <<robot, missed>>
     \/ EndTurn /\ Told(Sent)
     \/ (Start \/ LostConnection) /\ Forgets

Operator == BetweenPolls /\ MoveSticks /\ Quietly

----------------------------------------------------------------------------
(* The robot                                                               *)

\* get_command finds the next command ...
Takes ==
  /\ link # <<>> /\ link' = Tail(link)
  /\ \/ Startup(Head(link))
     \/ Head(link) # ShutdownCmd /\ Poll(Head(link))
     \/ Head(link) = ShutdownCmd /\ PollShutdown
  /\ UNCHANGED <<control, up, missed, silent>>

\* ... or none has arrived.
TakesNone ==
  /\ Poll(NoCmd)
  /\ UNCHANGED <<control, link, up, missed, silent>>

\* What needs no command.
Goes ==
  /\ Iterate
  /\ UNCHANGED <<control, link, up, missed, silent>>

GivesUp ==
  /\ StartupTimeout
  /\ UNCHANGED <<control, link, up, missed, silent>>

\* Robot.stop; between the PID drive and the drivetrain it stops the server.
Stops ==
  /\ Shutdown
  /\ IF pc = "stopPid" /\ up
       THEN Hangup(link) /\ missed' = {} /\ silent' = TRUE
       ELSE UNCHANGED <<link, up, missed, silent>>
  /\ UNCHANGED control

\* The connection breaks.
Breaks ==
  /\ up /\ BetweenPolls
  /\ Hangup(link)
  /\ Forgets
  /\ UNCHANGED control

SystemTerminated == at = "stopped" /\ pc \in Ended /\ UNCHANGED system

RobotStep == Takes \/ TakesNone \/ Goes \/ GivesUp \/ Stops

SystemNext == ControlStep \/ Operator \/ RobotStep \/ Breaks \/ SystemTerminated

SystemSpec == SystemInit /\ [][SystemNext]_system

\* Both loops turn, pygame hands over a finite list of events in each turn
\* of the one, the 50 Hz period elapses in the other (as in Robot), and what
\* the connection carries arrives.
SystemFairness ==
  /\ WF_system(BeginTurn /\ Quietly) /\ SF_system(EndTurn /\ Told(Sent))
  /\ WF_system(LostConnection /\ Forgets)
  /\ SF_system(Takes) /\ WF_system(TakesNone) /\ WF_system(Goes) /\ WF_system(Stops)
  /\ SF_system(BeginStep /\ UNCHANGED <<control, link, up, missed, silent>>)

FairSystem == SystemSpec /\ SystemFairness

----------------------------------------------------------------------------
(* Properties                                                              *)

SystemTypeOK ==
  /\ TypeOK
  /\ at \in {"connect", "select", "drain", "turn", "events", "stopped"}
  /\ chosen \in {"none", "TELEOP", "AUTO"}
  /\ held \subseteq uses.buttons \cup {"A", "B"} /\ hat \in uses.hats \cup {<<0, 0>>}
  /\ \A i \in DOMAIN link :
       link[i] \in Commands /\ (link[i] = ShutdownCmd => i = Len(link))
  /\ missed \subseteq DriveButtons /\ silent \in BOOLEAN /\ up \in BOOLEAN

\* The drive buttons that are down, the D-pad's directions among them.
Down == held \cup {Dpad[d][2] : d \in {e \in 1 .. 4 : Active(Dpad[e][1], hat)}}

\* TeleOp gives the sticks no say while it believes a drive button held.  It
\* believes so of a button that is up only while the release is on its way,
\* or for good when the release was told in AUTO, where nobody looks at it.
StuckButtons ==
  up => \A b \in active :
          \/ b \in Down \cup missed
          \/ \E i \in DOMAIN link : link[i].kind = "button" /\ link[i].button = b

\* Once the robot has everything, its mode is mission control's, unless the
\* operator toggled it and nothing was sent since.
ModesAgree ==
  up /\ link = <<>> /\ mode # chosen => silent

\* last_command is what the robot has, or has under way: an axes command
\* that is not repeated is never one the robot would still need, whatever was
\* sent or not sent in the modes before.
LastIsKnown ==
  up /\ last # "none" =>
    LET axes == {i \in DOMAIN link : link[i].kind = "axes"}
        known == last = "deflected"
    IN IF axes = {} THEN stick = known
       ELSE \E i \in axes : link[i].deflected = known /\ \A j \in axes : j <= i

----------------------------------------------------------------------------
(* What the documentation says and the code does not do                    *)

\* teleOp.py: TeleOp "maps gamepad buttons and sticks to subsystem commands",
\* and control.py says "Switching to" the mode it toggles to: an operator in
\* TELEOP whose sticks are centred does not keep driving on a stick.
CentredSticksStop ==
  (at \in {"turn", "events"} /\ chosen = "TELEOP" /\ sticks = "centred") ~>
    (at = "stopped" \/ chosen # "TELEOP" \/ sticks # "centred" \/ ~up
       \/ duty["drive"] # "stick" \/ pc \notin Running)
=============================================================================
