--------------------------- MODULE MissionControl ---------------------------
(***************************************************************************)
(* Control.run of mission control: READY, the choice of a mode with A or   *)
(* B, and the 20 Hz loop that turns the gamepad into commands labelled     *)
(* with the mode, until Start or the loss of the connection.               *)
(*                                                                         *)
(* A button goes down or up when the loop takes its event from pygame's    *)
(* queue; the sticks are centred or deflected and move at any time.        *)
(***************************************************************************)
EXTENDS Integers, Sequences

CONSTANTS Operators,   \* what they use: [buttons, hats], Options and Start aside
          Cap          \* bound: with so many commands under way nothing more is sent

Positions == {-1, 0, 1} \X {-1, 0, 1}    \* of the D-pad
ASSUME MissionControlAssumption ==
  /\ \A o \in Operators : /\ o.buttons \subseteq {"A", "B", "X", "Y", "LB", "RB"}
                         /\ o.hats \subseteq Positions
  /\ Cap \in Nat

VARIABLES
  uses,      \* the operator at the gamepad
  at,        \* where run is
  chosen,    \* Control.mode
  held,      \* the buttons that are down
  hat,       \* prev_hat
  sticks,    \* "centred" or "deflected"
  read,      \* what this turn of the loop has read of them
  last,      \* last_command
  link,      \* commands on their way to the robot
  up         \* client.is_connected

control == <<uses, at, chosen, held, hat, sticks, read, last>>

ControlInit ==
  /\ uses \in Operators
  /\ at = "connect" /\ chosen = "none"
  /\ held = {} /\ hat = <<0, 0>>
  /\ sticks = "centred" /\ read = "centred" /\ last = "none"
  /\ link = <<>> /\ up = TRUE

----------------------------------------------------------------------------
(* Commands                                                                *)

ButtonCommand(b, pressed) ==
  [kind |-> "button", mode |-> chosen, button |-> b, pressed |-> pressed]

AxesCommand == [kind |-> "axes", deflected |-> read = "deflected"]

\* send_command: on a closed connection it stays in a queue nobody empties.
SendCommands(cmds) ==
  /\ cmds # <<>> => Len(link) < Cap
  /\ link' = IF up THEN link \o cmds ELSE link

\* The connection ends, for any reason: what the robot has not received is
\* gone, here any number of the last commands.
Hangup(commands) ==
  /\ up' = FALSE
  /\ \E k \in 0 .. Len(commands) : link' = SubSeq(commands, 1, k)

\* Faulty variant: the last command is sent twice.
StopTwice(cmds) ==
  /\ at' = "stopped"
  /\ IF up THEN Hangup(link \o cmds \o cmds) ELSE UNCHANGED <<link, up>>
  /\ chosen' = "none" /\ held' = {} /\ hat' = <<0, 0>>
  /\ sticks' = "centred" /\ read' = "centred" /\ last' = "none"
  /\ UNCHANGED uses

\* Control.stop, after the last command if there is one: client.stop closes
\* the connection without waiting for it to be sent.  The process ends and
\* takes its state along.
Stop(cmds) ==
  /\ at' = "stopped"
  /\ IF up THEN Hangup(link \o cmds) ELSE UNCHANGED <<link, up>>
  /\ chosen' = "none" /\ held' = {} /\ hat' = <<0, 0>>
  /\ sticks' = "centred" /\ read' = "centred" /\ last' = "none"
  /\ UNCHANGED uses

----------------------------------------------------------------------------
(* Before the loop                                                         *)

\* Connected within 5 s: READY; else run returns.
Ready ==
  /\ at = "connect"
  /\ \/ /\ up /\ at' = "select"
        /\ SendCommands(<<[kind |-> "READY"]>>)
     \/ /\ at' = "stopped" /\ UNCHANGED link
  /\ UNCHANGED <<uses, chosen, held, hat, sticks, read, last, up>>

\* A is TELEOP and B is AUTO.
Select(b) ==
  /\ at = "select" /\ up
  /\ chosen' = IF b = "A" THEN "TELEOP" ELSE "AUTO"
  /\ held' = held \cup {b}
  /\ at' = "drain"
  /\ UNCHANGED <<uses, hat, sticks, read, last, link, up>>

\* What the operator does meanwhile is not sent.
Unheard(b) ==
  /\ \/ at = "select" /\ b \in uses.buttons \ {"A", "B"}
     \/ at = "drain" /\ b \in uses.buttons \cup held
  /\ held' = IF b \in held THEN held \ {b} ELSE held \cup {b}
  /\ UNCHANGED <<uses, at, chosen, hat, sticks, read, last, link, up>>

\* A and B are up, or 2 s have passed: the events until then are cleared.
EndDrain ==
  /\ at = "drain"
  /\ at' = "turn"
  /\ UNCHANGED <<uses, chosen, held, hat, sticks, read, last, link, up>>

----------------------------------------------------------------------------
(* The loop                                                                *)

\* A turn reads the axes before it looks at the events ...
BeginTurn ==
  /\ at = "turn" /\ up
  /\ read' = sticks
  /\ at' = "events"
  /\ UNCHANGED <<uses, chosen, held, hat, sticks, last, link, up>>

\* ... a button goes down or up: its command bears the mode of the moment ...
Press(b) ==
  /\ at = "events" /\ b \in uses.buttons \ held
  /\ held' = held \cup {b}
  /\ SendCommands(<<ButtonCommand(b, TRUE)>>)
  /\ UNCHANGED <<uses, at, chosen, hat, sticks, read, last, up>>

ReleaseButton(b) ==
  /\ at = "events" /\ b \in held
  /\ held' = held \ {b}
  /\ SendCommands(<<ButtonCommand(b, FALSE)>>)
  /\ UNCHANGED <<uses, at, chosen, hat, sticks, read, last, up>>

\* ... the D-pad moves: each of its four directions is looked at by itself ...
Dpad == <<<<<<0, 1>>, "DPAD_UP">>, <<<<0, -1>>, "DPAD_DOWN">>,
          <<<<-1, 0>>, "DPAD_LEFT">>, <<<<1, 0>>, "DPAD_RIGHT">>>>

Active(o, h) == \E i \in 1 .. 2 : o[i] # 0 /\ h[i] = o[i]

\* Faulty variant: a direction is told only when the D-pad leaves the centre
\* or comes back.
HatCommandsCentre(new) ==
  LET was(d) == Active(Dpad[d][1], hat)
      is(d)  == Active(Dpad[d][1], new)
      of(d) == IF was(d) = is(d) \/ <<0, 0>> \notin {hat, new} THEN <<>>
               ELSE <<ButtonCommand(Dpad[d][2], is(d))>>
  IN of(1) \o of(2) \o of(3) \o of(4)

HatCommands(new) ==
  LET was(d) == Active(Dpad[d][1], hat)
      is(d)  == Active(Dpad[d][1], new)
      of(d) == IF was(d) = is(d) THEN <<>> ELSE <<ButtonCommand(Dpad[d][2], is(d))>>
  IN of(1) \o of(2) \o of(3) \o of(4)

MoveHat(new) ==
  /\ at = "events" /\ new \in uses.hats \ {hat}
  /\ SendCommands(HatCommands(new))
  /\ hat' = new
  /\ UNCHANGED <<uses, at, chosen, held, sticks, read, last, up>>

\* ... Options toggles the mode and tells nobody ...
Toggle ==
  /\ at = "events"
  /\ chosen' = IF chosen = "TELEOP" THEN "AUTO" ELSE "TELEOP"
  /\ UNCHANGED <<uses, at, held, hat, sticks, read, last, link, up>>

\* Faulty variant: last_command is assigned in AUTO too.
EndTurnRemembers ==
  /\ at = "events"
  /\ IF chosen = "TELEOP" /\ read # last
       THEN SendCommands(<<AxesCommand>>)
       ELSE UNCHANGED link
  /\ last' = read
  /\ at' = "turn"
  /\ UNCHANGED <<uses, chosen, held, hat, sticks, read, up>>

\* Faulty variant: the axes are sent in every mode.
EndTurnAnyMode ==
  /\ at = "events"
  /\ IF read # last
       THEN SendCommands(<<AxesCommand>>) /\ last' = read
       ELSE UNCHANGED <<link, last>>
  /\ at' = "turn"
  /\ UNCHANGED <<uses, chosen, held, hat, sticks, read, up>>

\* ... and the axes follow, in TELEOP and when they are not what was sent last.
EndTurn ==
  /\ at = "events"
  /\ IF chosen = "TELEOP" /\ read # last
       THEN SendCommands(<<AxesCommand>>) /\ last' = read
       ELSE UNCHANGED <<link, last>>
  /\ at' = "turn"
  /\ UNCHANGED <<uses, chosen, held, hat, sticks, read, up>>

\* Start, at the choice of a mode and in the loop: SHUTDOWN, then stop.
Start ==
  /\ at \in {"select", "events"}
  /\ Stop(<<[kind |-> "SHUTDOWN"]>>)

LostConnection ==
  /\ at \in {"select", "turn"} /\ ~up
  /\ Stop(<<>>)

\* The operator's hands.
MoveSticks ==
  /\ at # "stopped"
  /\ sticks' = IF sticks = "centred" THEN "deflected" ELSE "centred"
  /\ UNCHANGED <<uses, at, chosen, held, hat, read, last, link, up>>
=============================================================================
