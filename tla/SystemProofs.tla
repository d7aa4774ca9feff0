---------------------------- MODULE SystemProofs ----------------------------
(***************************************************************************)
(* The robot and mission control together, for every set of operators and  *)
(* every bound on what is under way.  The robot keeps the promises it      *)
(* makes alone (RobotInSystem), and what it believes of the gamepad is     *)
(* what mission control told it last, here or still on the way.            *)
(***************************************************************************)
EXTENDS System, RobotProofs, SequenceTheorems

----------------------------------------------------------------------------
(* What the last of some kind of command says                              *)

\* No command of K is among s ...
Without(s, K) == \A i \in DOMAIN s : s[i] \notin K

\* ... or some are, and the last of them is in G.
EndsIn(s, K, G) ==
  \E i \in DOMAIN s : s[i] \in G /\ \A j \in DOMAIN s : j > i => s[j] \notin K

\* Taking the first command away.
LEMMA TakeWithout ==
  ASSUME NEW S, NEW s \in Seq(S), s # <<>>, NEW K, Without(s, K)
  PROVE  Head(s) \notin K /\ Without(Tail(s), K)
<1>1. /\ Tail(s) \in Seq(S) /\ Len(Tail(s)) = Len(s) - 1 /\ Len(s) \in Nat \ {0}
      /\ \A i \in 1 .. Len(Tail(s)) : Tail(s)[i] = s[i + 1]
  BY HeadTailProperties, EmptySeq
<1>2. DOMAIN s = 1 .. Len(s) /\ DOMAIN Tail(s) = 1 .. Len(Tail(s))
  BY <1>1, LenProperties
<1>3. Head(s) = s[1] /\ 1 \in DOMAIN s
  BY <1>1, <1>2
<1>4. ASSUME NEW i \in DOMAIN Tail(s) PROVE Tail(s)[i] = s[i + 1] /\ i + 1 \in DOMAIN s
  BY <1>1, <1>2
<1> QED
  BY <1>3, <1>4 DEF Without

LEMMA TakeEndsIn ==
  ASSUME NEW S, NEW s \in Seq(S), s # <<>>, NEW K, NEW G, EndsIn(s, K, G)
  PROVE  EndsIn(Tail(s), K, G) \/ (Head(s) \in G /\ Without(Tail(s), K))
<1>1. /\ Tail(s) \in Seq(S) /\ Len(Tail(s)) = Len(s) - 1 /\ Len(s) \in Nat \ {0}
      /\ \A i \in 1 .. Len(Tail(s)) : Tail(s)[i] = s[i + 1]
  BY HeadTailProperties, EmptySeq
<1>2. DOMAIN s = 1 .. Len(s) /\ DOMAIN Tail(s) = 1 .. Len(Tail(s))
  BY <1>1, LenProperties
<1>3. PICK i \in DOMAIN s : s[i] \in G /\ \A j \in DOMAIN s : j > i => s[j] \notin K
  BY DEF EndsIn
<1>4. ASSUME NEW j \in DOMAIN Tail(s) PROVE Tail(s)[j] = s[j + 1] /\ j + 1 \in DOMAIN s
  BY <1>1, <1>2
<1>5. CASE i = 1
  <2>1. Head(s) \in G
    BY <1>3, <1>5
  <2>2. Without(Tail(s), K)
    BY <1>2, <1>3, <1>4, <1>5 DEF Without
  <2> QED
    BY <2>1, <2>2
<1>6. CASE i # 1
  <2>1. i - 1 \in DOMAIN Tail(s) /\ Tail(s)[i - 1] = s[i]
    BY <1>1, <1>2, <1>6
  <2>2. ASSUME NEW j \in DOMAIN Tail(s), j > i - 1 PROVE Tail(s)[j] \notin K
    BY <1>2, <1>3, <1>4, <2>2
  <2> QED
    BY <1>3, <2>1, <2>2 DEF EndsIn
<1> QED
  BY <1>5, <1>6

\* Sending more.
LEMMA SendWithout ==
  ASSUME NEW S, NEW s \in Seq(S), NEW t \in Seq(S), NEW K, Without(s, K), Without(t, K)
  PROVE  Without(s \o t, K)
<1>1. /\ s \o t \in Seq(S) /\ Len(s \o t) = Len(s) + Len(t)
      /\ \A i \in 1 .. Len(s) + Len(t) :
           (s \o t)[i] = IF i <= Len(s) THEN s[i] ELSE t[i - Len(s)]
  BY ConcatProperties
<1>2. /\ DOMAIN s = 1 .. Len(s) /\ DOMAIN t = 1 .. Len(t)
      /\ DOMAIN (s \o t) = 1 .. Len(s \o t) /\ Len(s) \in Nat /\ Len(t) \in Nat
  BY <1>1, LenProperties
<1>3. ASSUME NEW i \in DOMAIN (s \o t) PROVE (s \o t)[i] \notin K
  <2>1. CASE i <= Len(s)
    BY <1>1, <1>2, <2>1 DEF Without
  <2>2. CASE i > Len(s)
    <3>1. i - Len(s) \in DOMAIN t /\ (s \o t)[i] = t[i - Len(s)]
      BY <1>1, <1>2, <2>2
    <3> QED
      BY <3>1 DEF Without
  <2> QED
    BY <1>1, <1>2, <2>1, <2>2
<1> QED
  BY <1>3 DEF Without

LEMMA SendEndsIn ==
  ASSUME NEW S, NEW s \in Seq(S), NEW t \in Seq(S), NEW K, NEW G,
         EndsIn(t, K, G) \/ (EndsIn(s, K, G) /\ Without(t, K))
  PROVE  EndsIn(s \o t, K, G)
<1>1. /\ s \o t \in Seq(S) /\ Len(s \o t) = Len(s) + Len(t)
      /\ \A i \in 1 .. Len(s) + Len(t) :
           (s \o t)[i] = IF i <= Len(s) THEN s[i] ELSE t[i - Len(s)]
  BY ConcatProperties
<1>2. /\ DOMAIN s = 1 .. Len(s) /\ DOMAIN t = 1 .. Len(t)
      /\ DOMAIN (s \o t) = 1 .. Len(s \o t) /\ Len(s) \in Nat /\ Len(t) \in Nat
  BY <1>1, LenProperties
<1>3. CASE EndsIn(t, K, G)
  <2>1. PICK i \in DOMAIN t : t[i] \in G /\ \A j \in DOMAIN t : j > i => t[j] \notin K
    BY <1>3 DEF EndsIn
  <2>2. i + Len(s) \in DOMAIN (s \o t) /\ (s \o t)[i + Len(s)] = t[i]
    BY <1>1, <1>2
  <2>3. ASSUME NEW j \in DOMAIN (s \o t), j > i + Len(s) PROVE (s \o t)[j] \notin K
    <3>1. j - Len(s) \in DOMAIN t /\ j - Len(s) > i /\ (s \o t)[j] = t[j - Len(s)]
      BY <1>1, <1>2, <2>3
    <3> QED
      BY <2>1, <3>1
  <2> QED
    BY <2>1, <2>2, <2>3 DEF EndsIn
<1>4. CASE EndsIn(s, K, G) /\ Without(t, K)
  <2>1. PICK i \in DOMAIN s : s[i] \in G /\ \A j \in DOMAIN s : j > i => s[j] \notin K
    BY <1>4 DEF EndsIn
  <2>2. i \in DOMAIN (s \o t) /\ (s \o t)[i] = s[i]
    BY <1>1, <1>2
  <2>3. ASSUME NEW j \in DOMAIN (s \o t), j > i PROVE (s \o t)[j] \notin K
    <3>1. CASE j <= Len(s)
      BY <1>1, <1>2, <2>1, <2>3, <3>1
    <3>2. CASE j > Len(s)
      <4>1. j - Len(s) \in DOMAIN t /\ (s \o t)[j] = t[j - Len(s)]
        BY <1>1, <1>2, <3>2
      <4> QED
        BY <1>4, <4>1 DEF Without
    <3> QED
      BY <1>1, <1>2, <3>1, <3>2
  <2> QED
    BY <2>1, <2>2, <2>3 DEF EndsIn
<1> QED
  BY <1>3, <1>4

\* A single command, and none.
LEMMA OneCommand ==
  ASSUME NEW c, NEW K, NEW G
  PROVE  /\ c \notin K => Without(<<c>>, K)
         /\ c \in G => EndsIn(<<c>>, K, G)
         /\ Without(<<>>, K)
  BY DEF Without, EndsIn

----------------------------------------------------------------------------
(* The inductive invariant                                                 *)

\* What is on its way are commands; SHUTDOWN ends the connection.
LinkShape ==
  /\ link \in Seq(Commands)
  /\ \A i \in DOMAIN link : link[i] = ShutdownCmd => i = Len(link) /\ ~up

ControlShape ==
  /\ uses \in Operators
  /\ at \in {"connect", "select", "drain", "turn", "events", "stopped"}
  /\ chosen \in {"none", "TELEOP", "AUTO"}
  /\ at \in {"drain", "turn", "events"} => chosen # "none"
  /\ sticks \in {"centred", "deflected"} /\ read \in {"centred", "deflected"}
  /\ last \in {"none", "centred", "deflected"}
  /\ held \subseteq uses.buttons \cup {"A", "B"} /\ hat \in uses.hats \cup {<<0, 0>>}
  /\ missed \subseteq DriveButtons /\ silent \in BOOLEAN /\ up \in BOOLEAN

\* Before the loop, what the operator does is not sent, and need not be: the
\* robot has not heard of any button.
BeforeTheLoop ==
  at \in {"connect", "select", "drain"} /\ up =>
    /\ silent /\ last = "none" /\ active = {}
    /\ \A i \in DOMAIN link : link[i] = ReadyCmd

\* READY is the first command, so Robot.__init__ drops no other.
ReadyComesFirst ==
  /\ at = "connect" => link = <<>>
  /\ pc = "starting" /\ up =>
       IF link = <<>> THEN at \in {"connect", "stopped"} ELSE Head(link) = ReadyCmd

Axes(deflected) == [kind |-> "axes", deflected |-> deflected]

\* The commands on the drive button b that TeleOp looks at.
On(b) == {cmd \in ButtonCmds : cmd.mode = "TELEOP" /\ cmd.button = b}
Off(b) == {cmd \in On(b) : ~cmd.pressed}

\* The commands that carry a mode.
Moded == AxesCmds \cup ButtonCmds
ModeOf(cmd) == IF cmd \in AxesCmds THEN "TELEOP" ELSE cmd.mode
In(m) == {cmd \in Moded : ModeOf(cmd) = m}

\* The last axes command, on the way or handled, says what last_command says ...
SticksTold ==
  up /\ last # "none" =>
    LET known == last = "deflected"
    IN \/ EndsIn(link, AxesCmds, {Axes(known)})
       \/ Without(link, AxesCmds) /\ stick = known

\* ... the last command the mode, unless nothing was sent since it was chosen ...
ModeTold ==
  up /\ ~silent =>
    EndsIn(link, Moded, In(chosen)) \/ (Without(link, Moded) /\ mode = chosen)

\* ... and the last command on a button that is up that it was released.
ReleasesTold ==
  up => \A b \in DriveButtons \ (Down \cup missed) :
          EndsIn(link, On(b), Off(b)) \/ (Without(link, On(b)) /\ b \notin active)

SystemInv ==
  /\ IInv
  /\ LinkShape /\ ControlShape
  /\ BeforeTheLoop /\ ReadyComesFirst
  /\ SticksTold /\ ModeTold /\ ReleasesTold

\* It holds when both programs start.
LEMMA InitSystemInv == SystemInit => SystemInv
<1> SUFFICES ASSUME SystemInit PROVE SystemInv
  OBVIOUS
<1>1. IInv
  BY InitIInv DEF SystemInit
<1>2. LinkShape /\ BeforeTheLoop /\ ReadyComesFirst
  BY DEF SystemInit, Init, ControlInit, LinkShape, BeforeTheLoop, ReadyComesFirst
<1>3. ControlShape
  BY DEF SystemInit, ControlInit, ControlShape
<1>4. SticksTold /\ ModeTold
  BY DEF SystemInit, ControlInit, SticksTold, ModeTold
<1>5. ReleasesTold
  BY DEF SystemInit, Init, ControlInit, ReleasesTold, Without
<1> QED
  BY <1>1, <1>2, <1>3, <1>4, <1>5 DEF SystemInv

----------------------------------------------------------------------------
(* The robot is the robot                                                  *)

\* Whatever mission control and the network do, the robot takes one of the
\* steps that Robot gives it or none.
LEMMA RobotSteps ==
  ASSUME LinkShape, [SystemNext]_system
  PROVE  [Next]_vars
<1>1. CASE ControlStep \/ Operator \/ Breaks \/ SystemTerminated \/ UNCHANGED system
  <2>1. UNCHANGED robot
    BY <1>1 DEF ControlStep, Operator, Breaks, SystemTerminated, Quietly, Forgets, Told, system
  <2> QED
    BY <2>1 DEF robot, vars
<1>2. CASE Takes
  <2>1. Head(link) \in Commands
    BY <1>2, HeadTailProperties DEF Takes, LinkShape
  <2> QED
    BY <1>2, <2>1 DEF Takes, Next, AwaitReady, PollAny
<1>3. CASE TakesNone
  BY <1>3 DEF TakesNone, Next, PollAny
<1>4. CASE Goes \/ GivesUp \/ Stops
  BY <1>4 DEF Goes, GivesUp, Stops, Next
<1> QED
  BY <1>1, <1>2, <1>3, <1>4 DEF SystemNext, RobotStep

\* What a command changes of what TeleOp and the controller believe.
Hears(cmd) ==
  /\ stick' = IF cmd \in AxesCmds THEN cmd.deflected ELSE stick
  /\ mode' = IF cmd \in Moded THEN ModeOf(cmd) ELSE mode
  /\ \A b \in DriveButtons :
       b \in active' <=> IF cmd \in On(b) THEN cmd.pressed ELSE b \in active

LEMMA PollEffect ==
  ASSUME NEW cmd \in Commands \cup {NoCmd}, Poll(cmd)
  PROVE  Hears(cmd)
<1> USE DEF Hears, Commands, AxesCmds, ButtonCmds, ReadyCmd, ShutdownCmd, NoCmd
<1>1. CASE AxesInput(cmd)
  <2>1. cmd \in AxesCmds /\ cmd \notin ButtonCmds
    BY <1>1 DEF AxesInput
  <2> QED
    BY <1>1, <2>1 DEF AxesInput, Moded, ModeOf, On
<1>2. CASE ButtonInput(cmd)
  <2>1. cmd \in ButtonCmds /\ cmd \notin AxesCmds /\ cmd.pressed \in BOOLEAN
        /\ cmd.mode \in {"TELEOP", "AUTO"}
    BY <1>2 DEF ButtonInput
  <2>2. stick' = stick /\ mode' = cmd.mode
    BY <1>2 DEF ButtonInput, TeleopButton, AutoButton, pad
  <2>3. CASE cmd.mode = "TELEOP"
    <3>1. DriveButton(cmd.button, cmd.pressed) \/ AugerButton(cmd.button, cmd.pressed)
      BY <1>2, <2>3 DEF ButtonInput, TeleopButton
    <3> QED
      BY <2>1, <2>2, <2>3, <3>1, RobotAssumption
      DEF Moded, ModeOf, On, DriveButton, AugerButton
  <2>4. CASE cmd.mode = "AUTO"
    BY <1>2, <2>1, <2>2, <2>4 DEF ButtonInput, AutoButton, pad, Moded, ModeOf, On
  <2> QED
    BY <2>1, <2>3, <2>4
<1>3. CASE cmd \in {NoCmd, ReadyCmd} /\ UNCHANGED <<mode, owner, tasks, pad, duty, drv>>
  BY <1>3 DEF Moded, ModeOf, On, pad
<1> QED
  BY <1>1, <1>2, <1>3 DEF Poll

\* The rest of an iteration, and stop(), leave the robot's beliefs alone.
LEMMA BeliefsStay ==
  ASSUME Iterate \/ StartupTimeout \/ Shutdown \/ PollShutdown
         \/ \E cmd \in Commands : Startup(cmd)
  PROVE  UNCHANGED <<mode, stick, active>>
<1>1. CASE StartupTimeout \/ Shutdown \/ PollShutdown \/ \E cmd \in Commands : Startup(cmd)
  BY <1>1 DEF StartupTimeout, Shutdown, StopPid, StopDrive, StopAuger, PollShutdown, Startup, pad
<1>2. CASE \E t \in Tasks : RunTaskStates(t)
  BY <1>2 DEF RunTaskStates, pad
<1>3. CASE SkipStep \/ BeginStep \/ TeleopDrive \/ Update \/ UpdateFails
           \/ PidDrives \/ PidIdle \/ PidFails
  BY <1>3 DEF SkipStep, BeginStep, ModeSwitch, TeleopDrive, Update, UpdateFails,
              PidDrives, PidIdle, PidFails, pad
<1> QED
  BY <1>1, <1>2, <1>3 DEF Iterate

\* READY and silence say nothing of the gamepad.
LEMMA NothingHeard ==
  ASSUME NEW cmd \in {ReadyCmd, NoCmd}
  PROVE  Hears(cmd) <=> /\ stick' = stick /\ mode' = mode
                        /\ \A b \in DriveButtons : b \in active' <=> b \in active
<1>1. cmd \notin AxesCmds /\ cmd \notin Moded
  BY DEF ReadyCmd, NoCmd, AxesCmds, ButtonCmds, Moded
<1>2. \A b : cmd \notin On(b)
  BY DEF ReadyCmd, NoCmd, ButtonCmds, On
<1> QED
  BY <1>1, <1>2 DEF Hears

ToldInv == SticksTold /\ ModeTold /\ ReleasesTold

\* Nothing is heard, and nothing said.
LEMMA StayKeepsTold ==
  ASSUME ToldInv, UNCHANGED <<mode, stick, active>>,
         UNCHANGED <<chosen, held, hat, last, link, up, missed, silent>>
  PROVE  ToldInv'
  BY DEF ToldInv, SticksTold, ModeTold, ReleasesTold, Down

\* A command that is taken leaves in the robot's state what it said on the way.
LEMMA TakeKeepsTold ==
  ASSUME ToldInv, link \in Seq(Commands), link # <<>>, link' = Tail(link),
         Hears(Head(link)), UNCHANGED <<control, up, missed, silent>>
  PROVE  ToldInv'
<1> DEFINE h == Head(link)
<1> HIDE DEF h
<1>1. ASSUME NEW K, Without(link, K)
      PROVE  h \notin K /\ Without(link', K)
  BY <1>1, TakeWithout DEF h
<1>2. ASSUME NEW K, NEW G, EndsIn(link, K, G)
      PROVE  EndsIn(link', K, G) \/ (h \in G /\ Without(link', K))
  BY <1>2, TakeEndsIn DEF h
<1>3. Hears(h) /\ up' = up /\ silent' = silent /\ missed' = missed
      /\ last' = last /\ chosen' = chosen /\ Down' = Down
  BY DEF h, control, Down
<1>4. SticksTold'
  <2> DEFINE known == last = "deflected"
  <2> HIDE DEF known
  <2>1. h \in {Axes(known)} => stick' = known
    <3>1. known \in BOOLEAN
      BY DEF known
    <3>2. Axes(known).deflected = known /\ Axes(known) \in AxesCmds
      BY <3>1 DEF Axes, AxesCmds
    <3> QED
      BY <1>3, <3>2 DEF Hears
  <2>2. h \notin AxesCmds => stick' = stick
    BY <1>3 DEF Hears
  <2>3. EndsIn(link, AxesCmds, {Axes(known)}) =>
          \/ EndsIn(link', AxesCmds, {Axes(known)})
          \/ stick' = known /\ Without(link', AxesCmds)
    BY <1>2, <2>1
  <2>4. Without(link, AxesCmds) /\ stick = known =>
          Without(link', AxesCmds) /\ stick' = known
    BY <1>1, <2>2
  <2> QED
    BY <1>3, <2>3, <2>4 DEF ToldInv, SticksTold, known
<1>5. ModeTold'
  <2>1. h \in In(chosen) => mode' = chosen
    BY <1>3 DEF Hears, In
  <2>2. h \notin Moded => mode' = mode
    BY <1>3 DEF Hears
  <2> QED
    BY <1>1, <1>2, <1>3, <2>1, <2>2 DEF ToldInv, ModeTold
<1>6. ReleasesTold'
  <2> SUFFICES ASSUME up, NEW b \in DriveButtons \ (Down \cup missed)
               PROVE  EndsIn(link', On(b), Off(b)) \/ (Without(link', On(b)) /\ b \notin active')
    BY <1>3 DEF ReleasesTold
  <2>1. h \in Off(b) => b \notin active'
    BY <1>3 DEF Hears, Off
  <2>2. h \notin On(b) /\ b \notin active => b \notin active'
    BY <1>3 DEF Hears
  <2> QED
    BY <1>1, <1>2, <2>1, <2>2 DEF ToldInv, ReleasesTold
<1> QED
  BY <1>4, <1>5, <1>6 DEF ToldInv

----------------------------------------------------------------------------
(* The robot's steps                                                       *)

LEMMA TakesInv ==
  ASSUME SystemInv, Takes
  PROVE  LinkShape' /\ ControlShape' /\ BeforeTheLoop' /\ ReadyComesFirst' /\ ToldInv'
<1>1. /\ link \in Seq(Commands) /\ link # <<>> /\ link' = Tail(link)
      /\ UNCHANGED <<control, up, missed, silent>>
  BY DEF SystemInv, LinkShape, Takes
<1>2. /\ Head(link) \in Commands /\ link' \in Seq(Commands)
      /\ Len(link') = Len(link) - 1 /\ Len(link) \in Nat \ {0}
      /\ \A i \in 1 .. Len(link') : link'[i] = link[i + 1]
      /\ DOMAIN link = 1 .. Len(link) /\ DOMAIN link' = 1 .. Len(link')
      /\ Head(link) = link[1]
  BY <1>1, HeadTailProperties, EmptySeq, LenProperties
<1>3. ASSUME NEW i \in DOMAIN link' PROVE link'[i] = link[i + 1] /\ i + 1 \in DOMAIN link
  BY <1>2
<1>4. LinkShape'
  <2>1. ASSUME NEW i \in DOMAIN link', link'[i] = ShutdownCmd PROVE i = Len(link') /\ ~up'
    <3>1. i + 1 = Len(link) /\ ~up
      BY <1>3, <2>1 DEF SystemInv, LinkShape
    <3> QED
      BY <1>1, <1>2, <3>1
  <2> QED
    BY <1>2, <2>1 DEF LinkShape
<1>5. ControlShape'
  BY <1>1 DEF SystemInv, ControlShape, control
<1>6. up => Hears(Head(link)) /\ pc' # "starting"
  <2> SUFFICES ASSUME up PROVE Hears(Head(link)) /\ pc' # "starting"
    OBVIOUS
  <2>1. CASE Startup(Head(link))
    <3>1. Head(link) = ReadyCmd
      BY <1>1, <2>1 DEF SystemInv, ReadyComesFirst, Startup
    <3>2. pc' = "poll" /\ mode' = mode /\ stick' = stick /\ active' = active
      BY <2>1, <3>1 DEF Startup, pad
    <3> QED
      BY <3>1, <3>2, NothingHeard
  <2>2. CASE Poll(Head(link))
    BY <1>2, <2>2, PollEffect DEF Poll
  <2>3. CASE Head(link) = ShutdownCmd
    BY <1>2, <2>3 DEF SystemInv, LinkShape
  <2> QED
    BY <2>1, <2>2, <2>3 DEF Takes
<1>7. BeforeTheLoop'
  <2> SUFFICES ASSUME at \in {"connect", "select", "drain"}, up
               PROVE  /\ silent /\ last = "none" /\ active' = {}
                      /\ \A i \in DOMAIN link' : link'[i] = ReadyCmd
    BY <1>1 DEF BeforeTheLoop, control
  <2>1. silent /\ last = "none" /\ active = {} /\ \A i \in DOMAIN link : link[i] = ReadyCmd
    BY DEF SystemInv, BeforeTheLoop
  <2>2. \A b \in DriveButtons : b \in active' <=> b \in active
    BY <1>2, <1>6, <2>1, NothingHeard
  <2>3. active' \subseteq DriveButtons
    BY RobotSteps, NextIInv DEF SystemInv, IInv, TypeOK, SystemNext, RobotStep
  <2> QED
    BY <1>3, <2>1, <2>2, <2>3
<1>8. ReadyComesFirst'
  <2>1. at # "connect"
    BY <1>1 DEF SystemInv, ReadyComesFirst
  <2> QED
    BY <1>1, <1>6, <2>1 DEF ReadyComesFirst, control
<1>9. ToldInv'
  <2>1. CASE up
    BY <1>1, <1>6, <2>1, TakeKeepsTold DEF SystemInv, ToldInv
  <2>2. CASE ~up
    BY <1>1, <2>2 DEF ToldInv, SticksTold, ModeTold, ReleasesTold
  <2> QED
    BY <2>1, <2>2
<1> QED
  BY <1>4, <1>5, <1>7, <1>8, <1>9

\* A prefix of what was on its way remains, and no promise about it.
LEMMA HangupInv ==
  ASSUME NEW cmds \in Seq(Commands), Hangup(cmds),
         \A i \in DOMAIN cmds : cmds[i] = ShutdownCmd => i = Len(cmds)
  PROVE  /\ up' = FALSE /\ LinkShape' /\ (cmds = <<>> => link' = <<>>)
         /\ BeforeTheLoop' /\ ToldInv'
<1>1. PICK k \in 0 .. Len(cmds) : up' = FALSE /\ link' = SubSeq(cmds, 1, k)
  BY DEF Hangup
<1>2. Len(cmds) \in Nat /\ DOMAIN cmds = 1 .. Len(cmds)
      /\ \A i \in 1 .. k : cmds[i] \in Commands
  BY LenProperties, ElementOfSeq
<1>3. link' \in Seq(Commands) /\ Len(link') = k /\ \A i \in 1 .. k : link'[i] = cmds[i]
  BY <1>1, <1>2, SubSeqProperties
<1>4. LinkShape'
  BY <1>1, <1>2, <1>3, LenProperties DEF LinkShape
<1>5. cmds = <<>> => link' = <<>>
  BY <1>1, <1>3, EmptySeq
<1>6. BeforeTheLoop' /\ ToldInv'
  BY <1>1 DEF BeforeTheLoop, ToldInv, SticksTold, ModeTold, ReleasesTold
<1> QED
  BY <1>1, <1>4, <1>5, <1>6

\* The robot looks and finds nothing, or is not looking.
LEMMA NoCommandInv ==
  ASSUME SystemInv, TakesNone \/ Goes \/ GivesUp \/ Stops
  PROVE  LinkShape' /\ ControlShape' /\ BeforeTheLoop' /\ ReadyComesFirst' /\ ToldInv'
<1>1. CASE UNCHANGED <<control, link, up, missed, silent>>
  <2>1. LinkShape' /\ ControlShape'
    BY <1>1 DEF SystemInv, LinkShape, ControlShape, control
  <2>2. mode' = mode /\ stick' = stick /\ (\A b \in DriveButtons : b \in active' <=> b \in active)
    BY BeliefsStay, PollEffect, NothingHeard DEF TakesNone, Goes, GivesUp, Stops
  <2>3. active \subseteq DriveButtons /\ active' \subseteq DriveButtons
    BY RobotSteps, NextIInv DEF SystemInv, IInv, TypeOK, SystemNext, RobotStep
  <2>4. active' = active
    BY <2>2, <2>3
  <2>5. BeforeTheLoop' /\ ToldInv'
    BY <1>1, <2>2, <2>4, StayKeepsTold DEF SystemInv, ToldInv, BeforeTheLoop, control
  <2>6. pc' # "starting"
    BY DEF TakesNone, Poll, Goes, Iterate, SkipStep, BeginStep, TeleopDrive, Update,
           UpdateFails, AfterPid, PidDrives, PidIdle, PidFails, RunTaskStates, GivesUp,
           StartupTimeout, Stops, Shutdown, StopPid, StopDrive, StopAuger, Tasks, Exc, Dump
  <2> QED
    BY <1>1, <2>1, <2>5, <2>6 DEF SystemInv, ReadyComesFirst, control
<1>2. CASE Stops /\ up /\ Hangup(link) /\ missed' = {} /\ silent' = TRUE
  <2>1. LinkShape' /\ BeforeTheLoop' /\ ToldInv' /\ up' = FALSE /\ (link = <<>> => link' = <<>>)
    BY <1>2, HangupInv DEF SystemInv, LinkShape
  <2>2. ControlShape'
    BY <1>2, <2>1 DEF SystemInv, ControlShape, Stops, control
  <2>3. ReadyComesFirst'
    BY <1>2, <2>1 DEF SystemInv, ReadyComesFirst, Stops, control
  <2> QED
    BY <2>1, <2>2, <2>3
<1> QED
  BY <1>1, <1>2 DEF TakesNone, Goes, GivesUp, Stops

LEMMA BreaksInv ==
  ASSUME SystemInv, Breaks
  PROVE  LinkShape' /\ ControlShape' /\ BeforeTheLoop' /\ ReadyComesFirst' /\ ToldInv'
<1>1. LinkShape' /\ BeforeTheLoop' /\ ToldInv' /\ up' = FALSE /\ (link = <<>> => link' = <<>>)
  BY HangupInv DEF SystemInv, LinkShape, Breaks
<1>2. ControlShape'
  BY <1>1 DEF SystemInv, ControlShape, Breaks, Forgets, control
<1>3. ReadyComesFirst'
  BY <1>1 DEF SystemInv, ReadyComesFirst, Breaks, Forgets, control
<1> QED
  BY <1>1, <1>2, <1>3

----------------------------------------------------------------------------
(* What mission control sends                                              *)

\* send_command puts the commands at the end, or nowhere.
LEMMA SendInv ==
  ASSUME SystemInv, NEW cmds \in Seq(Commands), Without(cmds, {ShutdownCmd}),
         SendCommands(cmds), up' = up
  PROVE  /\ LinkShape'
         /\ link' = (IF up THEN link \o cmds ELSE link)
         /\ Sent = (IF up THEN cmds ELSE <<>>)
         /\ link # <<>> => link' # <<>> /\ Head(link') = Head(link)
<1>1. link \in Seq(Commands) /\ Len(link) \in Nat /\ DOMAIN link = 1 .. Len(link)
  BY LenProperties DEF SystemInv, LinkShape
<1>2. /\ Len(cmds) \in Nat /\ DOMAIN cmds = 1 .. Len(cmds)
      /\ link \o cmds \in Seq(Commands) /\ Len(link \o cmds) = Len(link) + Len(cmds)
      /\ DOMAIN (link \o cmds) = 1 .. Len(link \o cmds)
      /\ \A i \in 1 .. Len(link) + Len(cmds) : (link \o cmds)[i] =
           IF i <= Len(link) THEN link[i] ELSE cmds[i - Len(link)]
  BY <1>1, LenProperties, ConcatProperties
<1>3. CASE ~up
  <2>1. link' = link
    BY <1>3 DEF SendCommands
  <2>2. Sent = <<>>
    BY <1>1, <2>1, SubSeqEmpty DEF Sent
  <2> QED
    BY <1>3, <2>1, <2>2 DEF SystemInv, LinkShape
<1>4. CASE up
  <2>1. link' = link \o cmds
    BY <1>4 DEF SendCommands
  <2>2. Without(link, {ShutdownCmd})
    BY <1>4 DEF SystemInv, LinkShape, Without
  <2>3. Without(link', {ShutdownCmd})
    BY <1>1, <2>1, <2>2, SendWithout
  <2>4. LinkShape'
    BY <1>2, <2>1, <2>3 DEF LinkShape, Without
  <2>5. Sent = cmds
    <3>1. ASSUME NEW i \in Len(link) + 1 .. Len(link) + Len(cmds)
          PROVE  (link \o cmds)[i] \in Commands
      BY <1>1, <1>2, ElementOfSeq
    <3>2. /\ Sent \in Seq(Commands)
          /\ Len(Sent) = IF Len(link) + 1 <= Len(link) + Len(cmds)
                           THEN Len(link) + Len(cmds) - (Len(link) + 1) + 1 ELSE 0
          /\ \A i \in 1 .. Len(link) + Len(cmds) - (Len(link) + 1) + 1 :
               Sent[i] = (link \o cmds)[Len(link) + 1 + i - 1]
      BY <1>1, <1>2, <2>1, <3>1, SubSeqProperties DEF Sent
    <3>3. Len(Sent) = Len(cmds)
      BY <1>1, <1>2, <3>2
    <3>4. ASSUME NEW i \in 1 .. Len(cmds) PROVE Sent[i] = cmds[i]
      BY <1>1, <1>2, <3>2, SMTT(30)
    <3> QED
      BY <3>2, <3>3, <3>4, SeqEqual
  <2>6. link # <<>> => link' # <<>> /\ Head(link') = Head(link)
    <3> SUFFICES ASSUME link # <<>> PROVE link' # <<>> /\ Head(link') = Head(link)
      OBVIOUS
    <3>1. Len(link) >= 1
      BY <1>1, EmptySeq
    <3>2. link' # <<>> /\ link'[1] = link[1]
      BY <1>1, <1>2, <2>1, <3>1
    <3> QED
      BY <1>1, <1>2, <2>1, <3>2
  <2> QED
    BY <1>4, <2>1, <2>4, <2>5, <2>6
<1> QED
  BY <1>3, <1>4

\* The commands on b, whatever their mode, and the releases among them.
About(b) == {cmd \in ButtonCmds : cmd.button = b}
ReleaseOf(b) == {cmd \in About(b) : ~cmd.pressed}

\* The commands say of every drive button that is up after the step whether
\* it was down before.
Truthful(cmds) ==
  /\ cmds \in Seq(ButtonCmds)
  /\ Without(cmds, {cmd \in ButtonCmds : cmd.mode # chosen})
  /\ \A b \in DriveButtons \ Down' :
       IF b \in Down THEN EndsIn(cmds, About(b), ReleaseOf(b)) ELSE Without(cmds, About(b))

\* The releases that nobody will look at are remembered as missed ...
LEMMA ToldEffect ==
  ASSUME NEW cmds \in Seq(ButtonCmds), Told(cmds), NEW b \in DriveButtons, b \notin missed'
  PROVE  /\ (\A i \in DOMAIN cmds : cmds[i].mode = "AUTO") => Without(cmds, ReleaseOf(b))
         /\ Without(cmds, On(b)) => b \notin missed
<1> DEFINE labelled(m, p) == {cmds[i].button : i \in {j \in DOMAIN cmds :
             cmds[j].kind = "button" /\ cmds[j].mode = m /\ cmds[j].pressed = p}}
<1>1. missed' = (missed \cup (labelled("AUTO", FALSE) \cap DriveButtons))
                  \ (labelled("TELEOP", FALSE) \cup labelled("TELEOP", TRUE))
  BY DEF Told
<1>2. \A i \in DOMAIN cmds : cmds[i] \in ButtonCmds
  BY ElementOfSeq, LenProperties
<1>3. ASSUME \A i \in DOMAIN cmds : cmds[i].mode = "AUTO",
             NEW i \in DOMAIN cmds, cmds[i] \in ReleaseOf(b)
      PROVE  FALSE
  <2>1. cmds[i].kind = "button" /\ cmds[i].pressed = FALSE /\ cmds[i].button = b
    BY <1>2, <1>3 DEF ReleaseOf, About, ButtonCmds
  <2>2. b \in labelled("AUTO", FALSE)
    BY <1>3, <2>1
  <2>3. b \notin labelled("TELEOP", FALSE) \cup labelled("TELEOP", TRUE)
    BY <1>3
  <2> QED
    BY <1>1, <2>2, <2>3
<1>4. ASSUME Without(cmds, On(b)) PROVE b \notin missed
  <2>1. b \notin labelled("TELEOP", FALSE) \cup labelled("TELEOP", TRUE)
    BY <1>2, <1>4 DEF Without, On
  <2> QED
    BY <1>1, <2>1
<1> QED
  BY <1>3, <1>4 DEF Without

\* ... so whoever tells the truth keeps the promises.
LEMMA TellKeepsTold ==
  ASSUME SystemInv, ToldInv, at = "events", NEW cmds, Truthful(cmds), SendCommands(cmds),
         Told(Sent), UNCHANGED <<chosen, last, up>>
  PROVE  ToldInv' /\ LinkShape' /\ (link # <<>> => link' # <<>> /\ Head(link') = Head(link))
<1>1. /\ link \in Seq(Commands) /\ cmds \in Seq(Commands) /\ cmds \in Seq(ButtonCmds)
      /\ \A i \in DOMAIN cmds : cmds[i] \in ButtonCmds
  BY SeqMonotonic, ElementOfSeq, LenProperties DEF SystemInv, LinkShape, Truthful, Commands
<1>2. Without(cmds, {ShutdownCmd}) /\ Without(cmds, AxesCmds)
  BY <1>1 DEF Without, ShutdownCmd, AxesCmds, ButtonCmds
<1>3. /\ LinkShape' /\ (link # <<>> => link' # <<>> /\ Head(link') = Head(link))
      /\ up => link' = link \o cmds /\ Sent = cmds
  BY <1>1, <1>2, SendInv
<1>4. mode' = mode /\ stick' = stick /\ active' = active
  BY DEF Told, robot, ctrl, pad
<1>5. chosen \in {"TELEOP", "AUTO"}
  BY DEF SystemInv, ControlShape
<1>6. \A i \in DOMAIN cmds : cmds[i].mode = chosen
  BY <1>1 DEF Truthful, Without
<1>7. SticksTold'
  <2>1. up => \A G : EndsIn(link, AxesCmds, G) => EndsIn(link', AxesCmds, G)
    BY <1>1, <1>2, <1>3, SendEndsIn
  <2>2. up => (Without(link, AxesCmds) => Without(link', AxesCmds))
    BY <1>1, <1>2, <1>3, SendWithout, ZenonT(60)
  <2> QED
    BY <1>4, <2>1, <2>2 DEF ToldInv, SticksTold
<1>8. ModeTold'
  <2> SUFFICES ASSUME up, ~silent'
               PROVE  EndsIn(link', Moded, In(chosen)) \/ (Without(link', Moded) /\ mode = chosen)
    BY <1>4 DEF ModeTold
  <2>1. CASE cmds = <<>>
    <3>1. link' = link
      BY <1>1, <1>3, <2>1, ConcatEmptySeq
    <3>2. ~silent
      BY <1>3, <2>1 DEF Told
    <3> QED
      BY <3>1, <3>2 DEF ToldInv, ModeTold
  <2>2. CASE cmds # <<>>
    <3>1. Len(cmds) \in DOMAIN cmds /\ \A j \in DOMAIN cmds : ~(j > Len(cmds))
      BY <1>1, <2>2, EmptySeq, LenProperties
    <3>2. cmds[Len(cmds)] \in In(chosen)
      BY <1>1, <1>6, <3>1 DEF In, Moded, ModeOf, AxesCmds, ButtonCmds
    <3>3. EndsIn(cmds, Moded, In(chosen))
      BY <3>1, <3>2 DEF EndsIn
    <3> QED
      BY <1>1, <1>3, <3>3, SendEndsIn
  <2> QED
    BY <2>1, <2>2
<1>9. ReleasesTold'
  <2> SUFFICES ASSUME up, NEW b \in DriveButtons, b \notin Down', b \notin missed'
               PROVE  EndsIn(link', On(b), Off(b)) \/ (Without(link', On(b)) /\ b \notin active)
    BY <1>4 DEF ReleasesTold
  <2>1. CASE b \in Down
    <3>1. EndsIn(cmds, About(b), ReleaseOf(b))
      BY <2>1 DEF Truthful
    <3>2. ~Without(cmds, ReleaseOf(b))
      BY <3>1 DEF EndsIn, Without
    <3>3. chosen = "TELEOP"
      BY <1>1, <1>3, <1>5, <1>6, <3>2, ToldEffect
    <3>4. EndsIn(cmds, On(b), Off(b))
      BY <1>6, <3>1, <3>3 DEF EndsIn, About, ReleaseOf, On, Off
    <3> QED
      BY <1>1, <1>3, <3>4, SendEndsIn
  <2>2. CASE b \notin Down
    <3>1. Without(cmds, On(b))
      BY <2>2 DEF Truthful, Without, About, On
    <3>2. b \notin missed
      BY <1>1, <1>3, <3>1, ToldEffect
    <3>3. EndsIn(link, On(b), Off(b)) \/ (Without(link, On(b)) /\ b \notin active)
      BY <2>2, <3>2 DEF ToldInv, ReleasesTold
    <3>4. EndsIn(link, On(b), Off(b)) => EndsIn(link', On(b), Off(b))
      BY <1>1, <1>3, <3>1, SendEndsIn
    <3>5. Without(link, On(b)) => Without(link', On(b))
      BY <1>1, <1>3, <3>1, SendWithout
    <3> QED
      BY <3>3, <3>4, <3>5
  <2> QED
    BY <2>1, <2>2
<1> QED
  BY <1>3, <1>7, <1>8, <1>9 DEF ToldInv

\* A button's own command is the truth.
LEMMA PadButtons ==
  ASSUME ControlShape, NEW b \in uses.buttons \cup {"A", "B"}
  PROVE  b \in Buttons /\ \A d \in 1 .. 4 : Dpad[d][2] # b
<1>1. b \in {"A", "B", "X", "Y", "LB", "RB"}
  BY MissionControlAssumption DEF ControlShape
<1>2. b \in Buttons
  BY <1>1, RobotAssumption, SystemAssumption DEF Buttons
<1> QED
  BY <1>1, <1>2 DEF Dpad

LEMMA ButtonTruth ==
  ASSUME SystemInv, at = "events", NEW b \in uses.buttons \cup {"A", "B"}, NEW pressed \in BOOLEAN,
         IF pressed THEN held' = held \cup {b} ELSE b \in held /\ held' = held \ {b},
         hat' = hat
  PROVE  Truthful(<<ButtonCommand(b, pressed)>>)
<1> DEFINE c == ButtonCommand(b, pressed)
<1>1. b \in Buttons /\ \A d \in 1 .. 4 : Dpad[d][2] # b
  BY PadButtons DEF SystemInv
<1>2. c \in ButtonCmds /\ c.mode = chosen /\ c.button = b /\ c.pressed = pressed
  BY <1>1 DEF ButtonCommand, ButtonCmds, SystemInv, ControlShape
<1> HIDE DEF c
<1>3. <<c>> \in Seq(ButtonCmds) /\ Without(<<c>>, {cmd \in ButtonCmds : cmd.mode # chosen})
  BY <1>2, OneCommand
<1>4. ASSUME NEW n \in DriveButtons, n \notin Down'
      PROVE  IF n \in Down THEN EndsIn(<<c>>, About(n), ReleaseOf(n)) ELSE Without(<<c>>, About(n))
  <2>1. CASE n = b
    <3>1. ~pressed /\ b \in held
      BY <1>4, <2>1 DEF Down
    <3>2. c \in ReleaseOf(n) /\ n \in Down
      BY <1>2, <2>1, <3>1 DEF ReleaseOf, About, Down
    <3> QED
      BY <3>2, OneCommand
  <2>2. CASE n # b
    <3>1. n \notin Down
      BY <1>4, <2>2 DEF Down
    <3>2. c \notin About(n)
      BY <1>2, <2>2 DEF About
    <3> QED
      BY <3>1, <3>2, OneCommand
  <2> QED
    BY <2>1, <2>2
<1> QED
  BY <1>3, <1>4 DEF Truthful, c

\* What holds of one of four parts in a row, and of what follows it.
LEMMA FourWithout ==
  ASSUME NEW S, NEW f \in [1 .. 4 -> Seq(S)], NEW K, \A e \in 1 .. 4 : Without(f[e], K)
  PROVE  Without(f[1] \o f[2] \o f[3] \o f[4], K)
<1>1. f[1] \in Seq(S) /\ f[2] \in Seq(S) /\ f[3] \in Seq(S) /\ f[4] \in Seq(S)
  OBVIOUS
<1>2. f[1] \o f[2] \in Seq(S) /\ Without(f[1] \o f[2], K)
  BY <1>1, ConcatProperties, SendWithout
<1> DEFINE two == f[1] \o f[2]
           three == two \o f[3]
<1> HIDE DEF two
<1>3. three \in Seq(S) /\ Without(three, K)
  <2>1. two \in Seq(S) /\ Without(two, K)
    BY <1>2 DEF two
  <2> QED
    BY <1>1, <2>1, ConcatProperties, SendWithout
<1> HIDE DEF three
<1>4. Without(three \o f[4], K)
  BY <1>1, <1>3, SendWithout
<1> QED
  BY <1>4 DEF two, three

LEMMA FourEndsIn ==
  ASSUME NEW S, NEW f \in [1 .. 4 -> Seq(S)], NEW K, NEW G, NEW d \in 1 .. 4,
         EndsIn(f[d], K, G), \A e \in 1 .. 4 \ {d} : Without(f[e], K)
  PROVE  EndsIn(f[1] \o f[2] \o f[3] \o f[4], K, G)
<1>1. f[1] \in Seq(S) /\ f[2] \in Seq(S) /\ f[3] \in Seq(S) /\ f[4] \in Seq(S)
  OBVIOUS
<1>2. f[1] \o f[2] \in Seq(S) /\ (d \in {1, 2} => EndsIn(f[1] \o f[2], K, G))
  <2>1. CASE d = 1
    BY <1>1, <2>1, ConcatProperties, SendEndsIn
  <2>2. CASE d = 2
    BY <1>1, <2>2, ConcatProperties, SendEndsIn
  <2> QED
    BY <1>1, <2>1, <2>2, ConcatProperties
<1> DEFINE two == f[1] \o f[2]
           three == two \o f[3]
<1> HIDE DEF two
<1>3. three \in Seq(S) /\ (d \in {1, 2, 3} => EndsIn(three, K, G))
  <2>1. two \in Seq(S) /\ (d \in {1, 2} => EndsIn(two, K, G))
    BY <1>2 DEF two
  <2>2. CASE d \in {1, 2}
    BY <1>1, <2>1, <2>2, ConcatProperties, SendEndsIn
  <2>3. CASE d = 3
    BY <1>1, <2>1, <2>3, ConcatProperties, SendEndsIn
  <2> QED
    BY <1>1, <2>1, <2>2, <2>3, ConcatProperties
<1> HIDE DEF three
<1>4. EndsIn(three \o f[4], K, G)
  <2>1. CASE d \in {1, 2, 3}
    BY <1>1, <1>3, <2>1, SendEndsIn
  <2>2. CASE d = 4
    BY <1>1, <1>3, <2>2, SendEndsIn
  <2> QED
    BY <2>1, <2>2
<1> QED
  BY <1>4 DEF two, three

\* A move of the D-pad: every direction that changes is told by itself.
LEMMA HatTruth ==
  ASSUME SystemInv, at = "events", NEW new, hat' = new, held' = held
  PROVE  Truthful(HatCommands(new))
<1> DEFINE was(d) == Active(Dpad[d][1], hat)
           is(d)  == Active(Dpad[d][1], new)
           c(d)   == ButtonCommand(Dpad[d][2], is(d))
           of == [d \in 1 .. 4 |-> IF was(d) = is(d) THEN <<>> ELSE <<c(d)>>]
           cmds == of[1] \o of[2] \o of[3] \o of[4]
<1>1. HatCommands(new) = cmds
  BY SMTT(30) DEF HatCommands
<1>2. \A d \in 1 .. 4 : is(d) \in BOOLEAN /\ was(d) \in BOOLEAN
  BY DEF Active
<1>3. \A d, e \in 1 .. 4 : Dpad[d][2] = Dpad[e][2] => d = e
  BY DEF Dpad
<1>4. ASSUME NEW d \in 1 .. 4
      PROVE  /\ c(d) \in ButtonCmds /\ c(d).mode = chosen
             /\ c(d).button = Dpad[d][2] /\ c(d).pressed = is(d)
             /\ Dpad[d][2] \notin held
  <2>1. Dpad[d][2] \in Buttons
    BY SystemAssumption DEF Buttons
  <2>2. Dpad[d][2] \notin held
    BY PadButtons DEF SystemInv, ControlShape
  <2> HIDE DEF is
  <2> QED
    BY <1>2, <2>1, <2>2 DEF ButtonCommand, ButtonCmds, SystemInv, ControlShape
<1> HIDE DEF c
<1>5. \A d \in 1 .. 4 : of[d] = IF was(d) = is(d) THEN <<>> ELSE <<c(d)>>
  OBVIOUS
<1>6. \A b : b \in Down <=> b \in held \/ \E d \in 1 .. 4 : was(d) /\ Dpad[d][2] = b
  BY DEF Down
<1>7. \A b : b \in Down' <=> b \in held \/ \E d \in 1 .. 4 : is(d) /\ Dpad[d][2] = b
  BY DEF Down
<1> HIDE DEF was, is
<1>8. of \in [1 .. 4 -> Seq(ButtonCmds)]
  BY <1>4
<1> HIDE DEF of
<1>9. cmds \in Seq(ButtonCmds)
  BY <1>8, ConcatProperties
<1>10. ASSUME NEW d \in 1 .. 4, NEW K, c(d) \notin K PROVE Without(of[d], K)
  BY <1>5, <1>10, OneCommand
<1>11. Without(cmds, {cmd \in ButtonCmds : cmd.mode # chosen})
  <2>1. \A d \in 1 .. 4 : Without(of[d], {cmd \in ButtonCmds : cmd.mode # chosen})
    BY <1>4, <1>10
  <2> QED
    BY <1>8, <2>1, FourWithout
<1>12. ASSUME NEW b \in DriveButtons, b \notin Down', b \in Down
       PROVE  EndsIn(cmds, About(b), ReleaseOf(b))
  <2>1. PICK d \in 1 .. 4 : was(d) /\ Dpad[d][2] = b
    BY <1>6, <1>7, <1>12
  <2>2. ~is(d)
    BY <1>7, <1>12, <2>1
  <2>3. of[d] = <<c(d)>>
    BY <1>2, <1>5, <2>1, <2>2
  <2>4. c(d) \in ReleaseOf(b)
    BY <1>4, <2>1, <2>2 DEF ReleaseOf, About
  <2>5. EndsIn(of[d], About(b), ReleaseOf(b))
    BY <2>3, <2>4, OneCommand
  <2>6. \A e \in 1 .. 4 \ {d} : Without(of[e], About(b))
    BY <1>3, <1>4, <1>10, <2>1 DEF About
  <2> QED
    BY <1>8, <2>5, <2>6, FourEndsIn
<1>13. ASSUME NEW b \in DriveButtons, b \notin Down', b \notin Down
       PROVE  Without(cmds, About(b))
  <2>1. ASSUME NEW d \in 1 .. 4 PROVE Without(of[d], About(b))
    <3>1. CASE Dpad[d][2] = b
      <4>1. ~was(d) /\ ~is(d)
        BY <1>6, <1>7, <1>13, <3>1
      <4>2. of[d] = <<>>
        BY <1>2, <1>5, <4>1
      <4> QED
        BY <4>2, OneCommand
    <3>2. CASE Dpad[d][2] # b
      BY <1>4, <1>10, <3>2 DEF About
    <3> QED
      BY <3>1, <3>2
  <2> QED
    BY <1>8, <2>1, FourWithout
<1> QED
  BY <1>1, <1>9, <1>11, <1>12, <1>13 DEF Truthful

----------------------------------------------------------------------------
(* Mission control's steps                                                 *)

\* Before the loop: READY, the choice of a mode, what is not sent.
LEMMA BeforeTheLoopInv ==
  ASSUME SystemInv, Quietly,
         Ready \/ (\E b \in {"A", "B"} : Select(b)) \/ EndDrain
         \/ (\E b \in uses.buttons \cup {"A", "B"} : Unheard(b))
  PROVE  LinkShape' /\ ControlShape' /\ BeforeTheLoop' /\ ReadyComesFirst' /\ ToldInv'
<1>1. /\ at \in {"connect", "select", "drain"} /\ up' = up /\ last' = last
      /\ UNCHANGED <<mode, stick, active, pc, missed, silent>>
  BY DEF Ready, Select, EndDrain, Unheard, Quietly, robot, ctrl, pad
<1>2. up => /\ silent /\ last = "none" /\ active = {}
            /\ \A i \in DOMAIN link : link[i] = ReadyCmd
  BY <1>1 DEF SystemInv, BeforeTheLoop
<1>3. link' = link \/ (at = "connect" /\ up /\ link' = <<ReadyCmd>>)
  <2>1. CASE Ready
    <3>1. link = <<>> /\ <<>> \o <<ReadyCmd>> = <<ReadyCmd>>
      BY <2>1, ConcatEmptySeq DEF SystemInv, ReadyComesFirst, Ready
    <3> QED
      BY <2>1, <3>1 DEF Ready, SendCommands, ReadyCmd
  <2> QED
    BY <2>1 DEF Select, EndDrain, Unheard
<1>4. up => \A i \in DOMAIN link' : link'[i] = ReadyCmd
  BY <1>2, <1>3
<1>5. LinkShape'
  <2>1. CASE link' = link
    BY <1>1, <2>1 DEF SystemInv, LinkShape
  <2>2. CASE link' = <<ReadyCmd>>
    BY <2>2 DEF LinkShape, Commands, ReadyCmd, ShutdownCmd
  <2> QED
    BY <1>3, <2>1, <2>2
<1>6. ControlShape'
  <2> USE DEF SystemInv, ControlShape
  <2>1. CASE Ready
    BY <1>1, <2>1 DEF Ready
  <2>2. CASE \E b \in {"A", "B"} : Select(b)
    BY <1>1, <2>2 DEF Select
  <2>3. CASE EndDrain
    BY <1>1, <2>3 DEF EndDrain
  <2>4. CASE \E b \in uses.buttons \cup {"A", "B"} : Unheard(b)
    BY <1>1, <2>4 DEF Unheard
  <2> QED
    BY <2>1, <2>2, <2>3, <2>4
<1>7. BeforeTheLoop'
  BY <1>1, <1>2, <1>4 DEF BeforeTheLoop
<1>8. ReadyComesFirst'
  <2>1. at' # "connect" /\ (at = "connect" => at' = "stopped" \/ link' # link)
    BY DEF Ready, Select, EndDrain, Unheard, SystemInv, ReadyComesFirst, SendCommands
  <2>2. CASE link' = link
    BY <1>1, <2>1, <2>2 DEF SystemInv, ReadyComesFirst
  <2>3. CASE link' = <<ReadyCmd>>
    BY <2>1, <2>3 DEF ReadyComesFirst
  <2> QED
    BY <1>3, <2>2, <2>3
<1>9. ToldInv'
  <2>1. ASSUME up, NEW b PROVE Without(link', On(b))
    <3>1. ReadyCmd \notin On(b)
      BY DEF ReadyCmd, On, ButtonCmds
    <3> QED
      BY <1>4, <2>1, <3>1 DEF Without
  <2> QED
    BY <1>1, <1>2, <2>1 DEF ToldInv, SticksTold, ModeTold, ReleasesTold
<1> QED
  BY <1>5, <1>6, <1>7, <1>8, <1>9

\* A turn begins, Options is pressed, the sticks move: nothing is sent.
LEMMA UnsentInv ==
  ASSUME SystemInv, ((BeginTurn \/ MoveSticks) /\ Quietly)
                    \/ (Toggle /\ silent' = TRUE /\ UNCHANGED <<robot, missed>>)
  PROVE  LinkShape' /\ ControlShape' /\ BeforeTheLoop' /\ ReadyComesFirst' /\ ToldInv'
<1>1. /\ UNCHANGED <<uses, held, hat, last, link, up, missed>>
      /\ UNCHANGED <<mode, stick, active, pc>>
      /\ at' = at \/ (at' = "events" /\ at = "turn")
  BY DEF BeginTurn, MoveSticks, Toggle, Quietly, robot, ctrl, pad
<1>2. (chosen' = chosen /\ silent' = silent) \/ (at = "events" /\ at' = at /\ silent' = TRUE)
  BY DEF BeginTurn, MoveSticks, Toggle, Quietly
<1>3. LinkShape'
  BY <1>1 DEF SystemInv, LinkShape
<1>4. ControlShape'
  <2> USE DEF SystemInv, ControlShape
  <2>1. CASE BeginTurn /\ Quietly
    BY <1>1, <2>1 DEF BeginTurn, Quietly
  <2>2. CASE MoveSticks /\ Quietly
    BY <1>1, <2>2 DEF MoveSticks, Quietly
  <2>3. CASE Toggle /\ silent' = TRUE
    BY <1>1, <2>3 DEF Toggle
  <2> QED
    BY <2>1, <2>2, <2>3
<1>5. BeforeTheLoop'
  BY <1>1, <1>2 DEF SystemInv, BeforeTheLoop
<1>6. ReadyComesFirst'
  BY <1>1 DEF SystemInv, ReadyComesFirst
<1>7. ToldInv'
  <2>1. CASE chosen' = chosen /\ silent' = silent
    BY <1>1, <2>1, StayKeepsTold DEF SystemInv, ToldInv
  <2>2. CASE silent' = TRUE
    BY <1>1, <2>2 DEF SystemInv, ToldInv, SticksTold, ModeTold, ReleasesTold, Down
  <2> QED
    BY <1>2, <2>1, <2>2
<1> QED
  BY <1>3, <1>4, <1>5, <1>6, <1>7

\* A button or the D-pad.
LEMMA TellInv ==
  ASSUME SystemInv, Told(Sent),
         \/ \E b \in uses.buttons \cup {"A", "B"} : Press(b) \/ ReleaseButton(b)
         \/ \E h \in uses.hats : MoveHat(h)
  PROVE  LinkShape' /\ ControlShape' /\ BeforeTheLoop' /\ ReadyComesFirst' /\ ToldInv'
<1>1. /\ at = "events" /\ at' = at /\ pc' = pc
      /\ UNCHANGED <<uses, chosen, sticks, read, last, up>>
  BY DEF Press, ReleaseButton, MoveHat, Told, robot, ctrl
<1>2. \E cmds : Truthful(cmds) /\ SendCommands(cmds)
  <2>1. ASSUME NEW b \in uses.buttons \cup {"A", "B"}, Press(b)
        PROVE  \E cmds : Truthful(cmds) /\ SendCommands(cmds)
    BY <1>1, <2>1, ButtonTruth DEF Press
  <2>2. ASSUME NEW b \in uses.buttons \cup {"A", "B"}, ReleaseButton(b)
        PROVE  \E cmds : Truthful(cmds) /\ SendCommands(cmds)
    BY <1>1, <2>2, ButtonTruth DEF ReleaseButton
  <2>3. ASSUME NEW h \in uses.hats, MoveHat(h)
        PROVE  \E cmds : Truthful(cmds) /\ SendCommands(cmds)
    BY <1>1, <2>3, HatTruth DEF MoveHat
  <2> QED
    BY <2>1, <2>2, <2>3
<1>3. ToldInv' /\ LinkShape' /\ (link # <<>> => link' # <<>> /\ Head(link') = Head(link))
  BY <1>1, <1>2, TellKeepsTold DEF SystemInv, ToldInv
<1>4. missed' \subseteq DriveButtons /\ silent' \in BOOLEAN
  BY DEF Told, SystemInv, ControlShape
<1>5. held' \subseteq uses.buttons \cup {"A", "B"} /\ hat' \in uses.hats \cup {<<0, 0>>}
  BY DEF Press, ReleaseButton, MoveHat, SystemInv, ControlShape
<1>6. ControlShape'
  BY <1>1, <1>4, <1>5 DEF SystemInv, ControlShape
<1>7. BeforeTheLoop' /\ ReadyComesFirst'
  BY <1>1, <1>3 DEF SystemInv, BeforeTheLoop, ReadyComesFirst
<1> QED
  BY <1>3, <1>6, <1>7

\* The end of a turn: the axes, in TELEOP and if they are news.
LEMMA EndTurnInv ==
  ASSUME SystemInv, EndTurn, Told(Sent)
  PROVE  LinkShape' /\ ControlShape' /\ BeforeTheLoop' /\ ReadyComesFirst' /\ ToldInv'
<1>1. /\ at = "events" /\ at' = "turn" /\ chosen \in {"TELEOP", "AUTO"}
      /\ UNCHANGED <<uses, chosen, held, hat, sticks, read, up>>
      /\ UNCHANGED <<mode, stick, active, pc>>
      /\ link \in Seq(Commands)
  BY DEF EndTurn, Told, robot, ctrl, pad, SystemInv, ControlShape, LinkShape
<1>2. CASE link' = link /\ last' = last
  <2>1. Sent = <<>>
    BY <1>1, <1>2, SubSeqEmpty, LenProperties DEF Sent
  <2>2. silent' = silent /\ missed' = missed
    <3>1. silent' = silent
      BY <2>1 DEF Told, SystemInv, ControlShape
    <3>2. DOMAIN Sent = {}
      BY <2>1
    <3> QED
      BY <3>1, <3>2 DEF Told
  <2>3. LinkShape' /\ ControlShape' /\ BeforeTheLoop' /\ ReadyComesFirst'
    BY <1>1, <1>2, <2>2
    DEF SystemInv, LinkShape, ControlShape, BeforeTheLoop, ReadyComesFirst
  <2>4. ToldInv'
    BY <1>1, <1>2, <2>2, StayKeepsTold DEF SystemInv, ToldInv
  <2> QED
    BY <2>3, <2>4
<1>3. CASE chosen = "TELEOP" /\ last' = read /\ SendCommands(<<AxesCommand>>)
  <2> DEFINE known == last' = "deflected"
  <2>1. /\ AxesCommand \in AxesCmds /\ AxesCommand = Axes(known)
        /\ AxesCommand.kind = "axes"
    BY <1>1, <1>3 DEF AxesCommand, AxesCmds, Axes
  <2> HIDE DEF known
  <2> DEFINE c == AxesCommand
  <2> HIDE DEF c
  <2>2. c \in AxesCmds /\ c = Axes(known) /\ c.kind = "axes" /\ SendCommands(<<c>>)
    BY <1>3, <2>1 DEF c
  <2>3. c \in Commands /\ c # ShutdownCmd /\ c \in In(chosen) /\ \A b : c \notin On(b)
    BY <1>3, <2>2 DEF AxesCmds, Commands, ShutdownCmd, In, Moded, ModeOf, On, ButtonCmds
  <2>4. <<c>> \in Seq(Commands) /\ Without(<<c>>, {ShutdownCmd})
    BY <2>3, OneCommand
  <2>5. /\ LinkShape' /\ (link # <<>> => link' # <<>> /\ Head(link') = Head(link))
        /\ up => link' = link \o <<c>> /\ Sent = <<c>>
        /\ ~up => Sent = <<>>
    BY <1>1, <2>2, <2>4, SendInv
  <2>6. missed' = missed /\ silent' \in BOOLEAN
    <3>1. \A i \in DOMAIN Sent : Sent[i].kind # "button"
      BY <2>2, <2>5
    <3> QED
      BY <3>1 DEF Told, SystemInv, ControlShape
  <2>7. ControlShape'
    BY <1>1, <1>3, <2>6 DEF SystemInv, ControlShape
  <2>8. BeforeTheLoop' /\ ReadyComesFirst'
    BY <1>1, <2>5 DEF SystemInv, BeforeTheLoop, ReadyComesFirst
  <2>9. CASE up
    <3>1. SticksTold'
      <4>1. EndsIn(<<c>>, AxesCmds, {Axes(known)})
        BY <2>2, OneCommand
      <4>2. EndsIn(link', AxesCmds, {Axes(known)})
        BY <1>1, <2>4, <2>5, <2>9, <4>1, SendEndsIn
      <4> QED
        BY <4>2 DEF SticksTold, known
    <3>2. ModeTold'
      <4>1. EndsIn(<<c>>, Moded, In(chosen))
        BY <2>3, OneCommand
      <4>2. EndsIn(link', Moded, In(chosen))
        BY <1>1, <2>4, <2>5, <2>9, <4>1, SendEndsIn
      <4> QED
        BY <1>1, <4>2 DEF ModeTold
    <3>3. ReleasesTold'
      <4> SUFFICES ASSUME NEW b \in DriveButtons \ (Down \cup missed)
                   PROVE  EndsIn(link', On(b), Off(b)) \/ (Without(link', On(b)) /\ b \notin active)
        BY <1>1, <2>6 DEF ReleasesTold, Down
      <4>1. Without(<<c>>, On(b))
        BY <2>3, OneCommand
      <4>2. ASSUME EndsIn(link, On(b), Off(b)) PROVE EndsIn(link', On(b), Off(b))
        BY <1>1, <2>4, <2>5, <2>9, <4>1, <4>2, SendEndsIn
      <4>3. ASSUME Without(link, On(b)) PROVE Without(link', On(b))
        <5>1. Without(link \o <<c>>, On(b))
          BY <1>1, <2>4, <4>1, <4>3, SendWithout
        <5> QED
          BY <2>5, <2>9, <5>1
      <4> QED
        BY <2>9, <4>2, <4>3 DEF SystemInv, ReleasesTold
    <3> QED
      BY <2>5, <2>7, <2>8, <3>1, <3>2, <3>3 DEF ToldInv
  <2>10. CASE ~up
    BY <1>1, <2>5, <2>7, <2>8, <2>10 DEF ToldInv, SticksTold, ModeTold, ReleasesTold
  <2> QED
    BY <2>9, <2>10
<1> QED
  BY <1>2, <1>3 DEF EndTurn

\* Start and a lost connection end mission control.
LEMMA StopInv ==
  ASSUME SystemInv, Start \/ LostConnection, Forgets
  PROVE  LinkShape' /\ ControlShape' /\ BeforeTheLoop' /\ ReadyComesFirst' /\ ToldInv'
<1>1. PICK cmds \in {<<>>, <<ShutdownCmd>>} : Stop(cmds)
  BY DEF Start, LostConnection, ShutdownCmd
<1>2. link \in Seq(Commands) /\ DOMAIN link = 1 .. Len(link) /\ Len(link) \in Nat
  BY LenProperties DEF SystemInv, LinkShape
<1>3. LinkShape' /\ up' = FALSE
  <2>1. CASE up
    <3>1. cmds \in Seq(Commands)
      <4>1. ShutdownCmd \in Commands
        BY DEF Commands
      <4>2. <<>> \in Seq(Commands) /\ <<ShutdownCmd>> \in Seq(Commands)
        BY <4>1, EmptySeq
      <4> QED
        BY <4>2
    <3>2. /\ link \o cmds \in Seq(Commands) /\ Len(link \o cmds) = Len(link) + Len(cmds)
          /\ DOMAIN (link \o cmds) = 1 .. Len(link) + Len(cmds)
          /\ \A i \in 1 .. Len(link) : (link \o cmds)[i] = link[i]
          /\ Len(cmds) \in Nat
      BY <1>2, <3>1, ConcatProperties, LenProperties
    <3>3. Len(cmds) <= 1
      <4>1. CASE cmds = <<>>
        BY <4>1
      <4>2. CASE cmds = <<ShutdownCmd>>
        BY <4>2
      <4> QED
        BY <4>1, <4>2
    <3>4. ASSUME NEW i \in DOMAIN (link \o cmds), (link \o cmds)[i] = ShutdownCmd
          PROVE  i = Len(link \o cmds)
      <4>1. i \notin 1 .. Len(link)
        BY <1>2, <2>1, <3>2, <3>4 DEF SystemInv, LinkShape
      <4>2. i \in 1 .. Len(link) + Len(cmds)
        BY <3>2, <3>4
      <4>3. i = Len(link) + Len(cmds)
        <5>1. Len(link) \in Nat /\ Len(cmds) \in Nat
          BY <1>2, <3>2
        <5> QED
          BY <3>3, <4>1, <4>2, <5>1
      <4> QED
        BY <3>2, <4>3
    <3>5. Hangup(link \o cmds)
      BY <1>1, <2>1 DEF Stop
    <3> QED
      BY <3>2, <3>4, <3>5, HangupInv
  <2>2. CASE ~up
    <3>1. link' = link /\ up' = up
      BY <1>1, <2>2 DEF Stop
    <3>2. up = FALSE
      BY <2>2 DEF SystemInv, ControlShape
    <3> QED
      BY <3>1, <3>2 DEF SystemInv, LinkShape
  <2> QED
    BY <2>1, <2>2
<1>4. ControlShape'
  BY <1>1, <1>3 DEF Stop, Forgets, SystemInv, ControlShape
<1>5. BeforeTheLoop' /\ ReadyComesFirst' /\ ToldInv'
  BY <1>1, <1>3 DEF Stop, BeforeTheLoop, ReadyComesFirst, ToldInv, SticksTold, ModeTold, ReleasesTold
<1> QED
  BY <1>3, <1>4, <1>5

\* Every step keeps the inductive invariant.
LEMMA NextSystemInv == SystemInv /\ [SystemNext]_system => SystemInv'
<1> SUFFICES ASSUME SystemInv, [SystemNext]_system PROVE SystemInv'
  OBVIOUS
<1>1. IInv'
  BY RobotSteps, NextIInv DEF SystemInv
<1> SUFFICES LinkShape' /\ ControlShape' /\ BeforeTheLoop' /\ ReadyComesFirst' /\ ToldInv'
  BY <1>1 DEF SystemInv, ToldInv
<1>2. CASE ControlStep
  BY <1>2, BeforeTheLoopInv, UnsentInv, TellInv, EndTurnInv, StopInv DEF ControlStep
<1>3. CASE Operator
  BY <1>3, UnsentInv DEF Operator
<1>4. CASE RobotStep
  BY <1>4, TakesInv, NoCommandInv DEF RobotStep
<1>5. CASE Breaks
  BY <1>5, BreaksInv
<1>6. CASE UNCHANGED system
  <2>1. /\ UNCHANGED <<control, link, up, missed, silent>>
        /\ UNCHANGED <<mode, stick, active, pc>>
    BY <1>6 DEF system, robot, ctrl, pad
  <2>2. LinkShape' /\ ControlShape' /\ BeforeTheLoop' /\ ReadyComesFirst'
    BY <2>1 DEF SystemInv, LinkShape, ControlShape, BeforeTheLoop, ReadyComesFirst, control
  <2>3. ToldInv'
    BY <2>1, StayKeepsTold DEF SystemInv, ToldInv, control
  <2> QED
    BY <2>2, <2>3
<1> QED
  BY <1>2, <1>3, <1>4, <1>5, <1>6 DEF SystemNext, SystemTerminated

----------------------------------------------------------------------------
(* The theorems                                                            *)

\* SystemInv holds in every reachable state of the two programs.
THEOREM SystemInvariance == SystemSpec => []SystemInv
  BY InitSystemInv, NextSystemInv, PTL DEF SystemSpec

\* The robot that mission control drives is the robot of Robot: whatever that
\* module promises of the main loop holds here too.
THEOREM RobotInSystem == SystemSpec => Spec
<1>1. SystemInit => Init
  BY DEF SystemInit
<1>2. SystemInv /\ [SystemNext]_system => [Next]_vars
  BY RobotSteps DEF SystemInv
<1> QED
  BY <1>1, <1>2, SystemInvariance, PTL DEF SystemSpec, Spec

\* Every variable of the two programs keeps its type, and SHUTDOWN is the
\* last command there is.
THEOREM SystemTypeCorrect == SystemSpec => []SystemTypeOK
<1>1. SystemInv => SystemTypeOK
  <2> SUFFICES ASSUME SystemInv PROVE SystemTypeOK
    OBVIOUS
  <2>1. \A i \in DOMAIN link : link[i] \in Commands
    BY LenProperties, ElementOfSeq DEF SystemInv, LinkShape
  <2> QED
    BY <2>1 DEF SystemInv, IInv, LinkShape, ControlShape, SystemTypeOK
<1> QED
  BY <1>1, SystemInvariance, PTL

\* A drive button that TeleOp believes held is down, or its release is on its
\* way, or was told in AUTO.
THEOREM ButtonsAreReleased == SystemSpec => []StuckButtons
<1>1. SystemInv => StuckButtons
  <2> SUFFICES ASSUME SystemInv, up, NEW b \in active, b \notin Down \cup missed
               PROVE  \E i \in DOMAIN link : link[i].kind = "button" /\ link[i].button = b
    BY DEF StuckButtons
  <2>1. b \in DriveButtons
    BY DEF SystemInv, IInv, TypeOK
  <2>2. EndsIn(link, On(b), Off(b))
    BY <2>1 DEF SystemInv, ReleasesTold
  <2>3. PICK i \in DOMAIN link : link[i] \in Off(b)
    BY <2>2 DEF EndsIn
  <2> QED
    BY <2>3 DEF Off, On, ButtonCmds
<1> QED
  BY <1>1, SystemInvariance, PTL

\* When nothing is under way the robot is in mission control's mode, unless
\* the operator has toggled it and sent nothing since.
THEOREM ModesMeet == SystemSpec => []ModesAgree
<1>1. SystemInv => ModesAgree
  BY DEF SystemInv, ModeTold, ModesAgree, EndsIn
<1> QED
  BY <1>1, SystemInvariance, PTL

\* What mission control takes for the last axes the robot has or will have.
THEOREM SticksAreKnown == SystemSpec => []LastIsKnown
<1>1. SystemInv => LastIsKnown
  <2> DEFINE known == last = "deflected"
             axes == {i \in DOMAIN link : link[i].kind = "axes"}
  <2> SUFFICES ASSUME SystemInv, up, last # "none"
               PROVE  IF axes = {} THEN stick = known
                      ELSE \E i \in axes : link[i].deflected = known /\ \A j \in axes : j <= i
    BY DEF LastIsKnown
  <2> HIDE DEF known
  <2>1. EndsIn(link, AxesCmds, {Axes(known)}) \/ (Without(link, AxesCmds) /\ stick = known)
    BY DEF SystemInv, SticksTold, known
  <2>2. DOMAIN link = 1 .. Len(link) /\ \A i \in DOMAIN link : link[i] \in Commands
    BY LenProperties, ElementOfSeq DEF SystemInv, LinkShape
  <2>3. \A i \in DOMAIN link : i \in axes <=> link[i] \in AxesCmds
    BY <2>2 DEF Commands, AxesCmds, ButtonCmds, ReadyCmd, ShutdownCmd
  <2>4. CASE EndsIn(link, AxesCmds, {Axes(known)})
    <3>1. PICK i \in DOMAIN link : /\ link[i] = Axes(known)
                                   /\ \A j \in DOMAIN link : j > i => link[j] \notin AxesCmds
      BY <2>4 DEF EndsIn
    <3>2. i \in axes /\ link[i].deflected = known
      BY <3>1 DEF Axes
    <3>3. \A j \in axes : j <= i
      BY <2>2, <2>3, <3>1
    <3> QED
      BY <3>2, <3>3
  <2>5. CASE Without(link, AxesCmds) /\ stick = known
    <3>1. axes = {}
      BY <2>3, <2>5 DEF Without
    <3> QED
      BY <2>5, <3>1
  <2> QED
    BY <2>1, <2>4, <2>5
<1> QED
  BY <1>1, SystemInvariance, PTL
=============================================================================
