------------------------------- MODULE Robot -------------------------------
(***************************************************************************)
(* The robot's main thread: Robot.run with everything it calls in one      *)
(* iteration -- the command handlers of TeleOp and Auto, the ownership     *)
(* locks of Drivetrain, Auger and PIDDrive, the two autonomous tasks, the  *)
(* desired duty cycles and what MotorController.Update last sent -- and    *)
(* Robot.stop.  Every label of pc is a place where a KeyboardInterrupt, an *)
(* exception or the localizer thread can come between two steps.           *)
(*                                                                         *)
(* Data is abstracted to what the properties tell apart: a motor's duty    *)
(* cycle is who last gave it power ("off" when that power is zero), the    *)
(* sticks are centred or deflected, a pose is known or not.                *)
(***************************************************************************)
EXTENDS Naturals, FiniteSets

CONSTANTS DriveButtons,   \* buttons TeleOp maps to the drivetrain
          HasPID          \* RobotConfig.usePIDDrive

ASSUME RobotAssumption ==
  /\ {"LB", "RB"} \subseteq DriveButtons
  /\ DriveButtons \cap {"Y", "A", "B"} = {}
  /\ HasPID \in BOOLEAN

None == "none"
Exc  == "exc"                       \* robot.excavation_task
Dump == "dump"                      \* robot.dump_task
Tasks == {Exc, Dump}
Motors == {"drive", "auger"}        \* the four wheels act as one
Subsystems == Motors \cup {"pid"}
Modes == {None, "TELEOP", "AUTO"}
Buttons == DriveButtons \cup {"Y", "A", "B"}
Phases == {"IDLE", "DRIVING", "WORKING", "DONE"}
Powers == {"off", "stick", "button", "pid"} \cup Tasks

Running  == {"poll", "switch", "drive", "update", "pid"} \cup Tasks
Stopping == {"stopPid", "stopDrive", "stopAuger"}
Ended    == {"exit", "killed"}

VARIABLES
  pc,        \* where the main thread is
  main,      \* what __main__ is in: Robot(), robot.run() or its finally clause
  mode,      \* Robot.current_mode
  prevMode,  \* run's previous_mode
  owner,     \* Subsystem._owner and PIDDrive._owner
  phase,     \* _state of each task
  running,   \* _is_running of each task
  active,    \* TeleOp._active_drive_buttons
  stick,     \* Controller.axis_values are off centre
  duty,      \* MotorController.dutyCycles
  sent,      \* the motors whose last frame on the CAN bus had power
  target,    \* PIDDrive._target: the task whose site it is
  onTarget,  \* PIDDrive._on_target
  pose       \* the localizer has produced a first fix

ctrl  == <<pc, main, mode, prevMode>>
tasks == <<phase, running>>
pad   == <<active, stick>>
drv   == <<target, onTarget>>
vars  == <<ctrl, owner, tasks, pad, duty, sent, drv, pose>>

TypeOK ==
  /\ pc \in {"starting"} \cup Running \cup Stopping \cup Ended
  /\ main \in {"Robot", "run", "finally"}
  /\ mode \in Modes /\ prevMode \in Modes
  /\ owner \in [Subsystems -> Tasks \cup {None}]
  /\ phase \in [Tasks -> Phases]
  /\ running \in [Tasks -> BOOLEAN]
  /\ active \in SUBSET DriveButtons
  /\ stick \in BOOLEAN
  /\ duty \in [Motors -> Powers] /\ sent \in SUBSET Motors
  /\ target \in Tasks \cup {None}
  /\ onTarget \in BOOLEAN /\ pose \in BOOLEAN

Init ==
  /\ pc = "starting" /\ main = "Robot"
  /\ mode = None /\ prevMode = None
  /\ owner = [s \in Subsystems |-> None]
  /\ phase = [t \in Tasks |-> "IDLE"]
  /\ running = [t \in Tasks |-> FALSE]
  /\ active = {} /\ stick = FALSE
  /\ duty = [m \in Motors |-> "off"] /\ sent = {}
  /\ target = None /\ onTarget = FALSE /\ pose = FALSE

----------------------------------------------------------------------------
(* Ownership and motor writes.  None stands for the owner of TeleOp's and  *)
(* PIDDrive.stop's calls.                                                  *)

\* Faulty variant: check_ownership forgets to compare the owner.
MayWriteAlways(s, who) == TRUE

\* check_ownership: a write passes when nobody or the caller holds the lock.
MayWrite(s, who) == owner[s] \in {None, who}

\* set_power of Drivetrain and Auger: a denied call changes nothing.
SetPower(d, m, who, power) ==
  IF MayWrite(m, who) THEN [d EXCEPT ![m] = power] ELSE d

\* claim_subsystem_ownership: what is free is taken; a denial is ignored.
Claim(t) ==
  owner' = [s \in Subsystems |->
              IF owner[s] = None /\ (s = "pid" => HasPID) THEN t ELSE owner[s]]

\* Faulty variant: the PID drive is not released.
ReleaseMotorsOnly(t) ==
  owner' = [s \in Subsystems |->
              IF owner[s] = t /\ s # "pid" THEN None ELSE owner[s]]

\* release_subsystem_ownership: only what the task itself holds.
Release(t) ==
  owner' = [s \in Subsystems |-> IF owner[s] = t THEN None ELSE owner[s]]

\* Faulty variant: the auger's force_release is forgotten.
ForceReleaseDrive(S) ==
  owner' = [s \in Subsystems |-> IF s \in S \ {"auger"} THEN None ELSE owner[s]]

\* force_release of the subsystems in S.
ForceRelease(S) == owner' = [s \in Subsystems |-> IF s \in S THEN None ELSE owner[s]]

\* PIDDrive.reset and shutdown: forget the target and stop the wheels.
ClearTarget ==
  IF HasPID THEN target' = None /\ onTarget' = FALSE ELSE UNCHANGED drv

----------------------------------------------------------------------------
(* The autonomous tasks                                                    *)

\* transition_to.  The state timer it restarts is not kept: whether the
\* timeout has passed when wait_for_event looks is a choice (see Fairness).
TransitionTo(t, p) == phase' = [phase EXCEPT ![t] = p]

\* Faulty variant: the timeout is ignored.
WaitForCondition(t, p, condition) ==
  IF condition THEN TransitionTo(t, p) ELSE UNCHANGED phase

\* wait_for_event: advance when the condition holds or the timeout passed.
WaitForEvent(t, p, condition) ==
  \E timeout \in BOOLEAN :
    IF condition \/ timeout THEN TransitionTo(t, p) ELSE UNCHANGED phase

StartAutoTask(t) ==
  /\ running' = [running EXCEPT ![t] = TRUE]
  /\ Claim(t)
  /\ TransitionTo(t, IF HasPID THEN "DRIVING" ELSE "WORKING")
  /\ UNCHANGED <<duty, drv>>

\* Faulty variant: the motors are stopped by stop(), a write by None.
StopAsNobody(t) ==
  /\ duty' = SetPower(SetPower(duty, "drive", None, "off"), "auger", None, "off")
  /\ ClearTarget
  /\ Release(t)
  /\ running' = [running EXCEPT ![t] = FALSE]
  /\ TransitionTo(t, "IDLE")

\* stop_auto_task: zero both subsystems in the task's own name, reset the
\* PID drive (whose stop is a write by None), release, return to IDLE.
StopAutoTask(t) ==
  /\ duty' = SetPower(SetPower(duty, "drive", t, "off"), "auger", t, "off")
  /\ ClearTarget
  /\ Release(t)
  /\ running' = [running EXCEPT ![t] = FALSE]
  /\ TransitionTo(t, "IDLE")

\* PIDDrive.set_target for t's site.
SetTarget(t) == target' = t /\ onTarget' = FALSE

\* DRIVING_TO_ZONE and DRIVING_TO_BERM: set the target, then wait_for_event
\* on PIDDrive.on_target or the timeout.
Driving(t) ==
  /\ phase[t] = "DRIVING"
  /\ SetTarget(t)
  /\ WaitForEvent(t, "WORKING", onTarget')
  /\ UNCHANGED <<owner, running, duty>>

\* EXCAVATING and DUMPING: run the auger and creep until the timeout.
Working(t) ==
  /\ phase[t] = "WORKING"
  /\ duty' = SetPower(SetPower(duty, "auger", t, t), "drive", t, t)
  /\ WaitForEvent(t, "DONE", FALSE)
  /\ UNCHANGED <<owner, running, drv>>

\* DONE: _is_finished, which nothing reads, is left out.
Finish(t) ==
  /\ phase[t] = "DONE"
  /\ StopAutoTask(t)

Idle(t) ==
  /\ phase[t] = "IDLE"
  /\ UNCHANGED <<owner, tasks, duty, drv>>

\* run_task_states of t, then on to the other task or the next iteration.
RunTaskStates(t) ==
  /\ pc = t
  /\ pc' = IF t = Exc THEN Dump ELSE "poll"
  /\ Idle(t) \/ Driving(t) \/ Working(t) \/ Finish(t)
  /\ UNCHANGED <<main, mode, prevMode, pad, sent, pose>>

----------------------------------------------------------------------------
(* One poll of the command queue, Robot.run up to the mode switch          *)

NoCmd       == [kind |-> "none"]
ReadyCmd    == [kind |-> "READY"]
ShutdownCmd == [kind |-> "SHUTDOWN"]
AxesCmds    == [kind : {"axes"}, deflected : BOOLEAN]
ButtonCmds  == [kind : {"button"}, mode : {"TELEOP", "AUTO"},
                button : Buttons, pressed : BOOLEAN]
Commands    == {ReadyCmd, ShutdownCmd} \cup AxesCmds \cup ButtonCmds

\* TeleOp.on_button_event for the drive buttons.
DriveButton(b, pressed) ==
  /\ b \in DriveButtons
  /\ active' = IF pressed THEN active \cup {b} ELSE active \ {b}
  /\ duty' = IF pressed THEN SetPower(duty, "drive", None, "button")
             ELSE IF active' = {} THEN SetPower(duty, "drive", None, "off")
             ELSE duty

\* Faulty variant: every button press is recorded as a drive button.
AugerButtonHeld(b, pressed) ==
  /\ b \in {"Y", "A", "B"}
  /\ active' = IF pressed THEN active \cup {b} ELSE active \ {b}
  /\ UNCHANGED duty

\* TeleOp.on_button_event for Y (intake), A (outtake) and B (stop).
AugerButton(b, pressed) ==
  /\ b \in {"Y", "A", "B"}
  /\ duty' = IF pressed
               THEN SetPower(duty, "auger", None, IF b = "B" THEN "off" ELSE "button")
               ELSE duty
  /\ UNCHANGED active

TeleopButton(b, pressed) ==
  /\ DriveButton(b, pressed) \/ AugerButton(b, pressed)
  /\ UNCHANGED <<owner, tasks, stick, drv>>

\* The task a bumper toggles in AUTO.
TaskOf(b) == IF b = "LB" THEN Exc ELSE Dump

\* Auto.on_button_event: a press of LB or RB toggles its task.
AutoButton(b, pressed) ==
  /\ IF pressed /\ b \in {"LB", "RB"}
       THEN IF running[TaskOf(b)]
              THEN StopAutoTask(TaskOf(b))
              ELSE StartAutoTask(TaskOf(b))
       ELSE UNCHANGED <<owner, tasks, duty, drv>>
  /\ UNCHANGED pad

\* Controller.process_controller_inputs for a list command.
AxesInput(cmd) ==
  /\ cmd.kind = "axes"
  /\ mode' = "TELEOP"
  /\ stick' = cmd.deflected
  /\ UNCHANGED <<owner, tasks, duty, drv, active>>

ButtonInput(cmd) ==
  /\ cmd.kind = "button"
  /\ mode' = cmd.mode
  /\ IF cmd.mode = "TELEOP" THEN TeleopButton(cmd.button, cmd.pressed)
                            ELSE AutoButton(cmd.button, cmd.pressed)

\* An iteration of run that takes cmd (NoCmd when the queue is empty).
Poll(cmd) ==
  /\ pc = "poll"
  /\ pc' = "switch"
  /\ \/ AxesInput(cmd)
     \/ ButtonInput(cmd)
     \/ /\ cmd \in {NoCmd, ReadyCmd}
        /\ UNCHANGED <<mode, owner, tasks, pad, duty, drv>>
  /\ UNCHANGED <<main, prevMode, sent, pose>>

\* SHUTDOWN: stop() and leave the loop.
PollShutdown ==
  /\ pc = "poll"
  /\ pc' = "stopPid"
  /\ UNCHANGED <<main, mode, prevMode, owner, tasks, pad, duty, sent, drv, pose>>

\* __init__ drops every command until READY ...
Startup(cmd) ==
  /\ pc = "starting"
  /\ IF cmd = ReadyCmd THEN pc' = "poll" /\ main' = "run" ELSE UNCHANGED <<pc, main>>
  /\ UNCHANGED <<mode, prevMode, owner, tasks, pad, duty, sent, drv, pose>>

\* ... and after 60 s calls stop(), so that run returns at once.
StartupTimeout ==
  /\ pc = "starting"
  /\ pc' = "stopPid"
  /\ UNCHANGED <<main, mode, prevMode, owner, tasks, pad, duty, sent, drv, pose>>
----------------------------------------------------------------------------
(* The rest of an iteration                                                *)

\* Faulty variant: a mode switch leaves the locks with their owners.
ModeSwitchKeepsLocks ==
  /\ prevMode' = mode
  /\ UNCHANGED <<main, mode, owner, tasks, pad, duty, sent, drv, pose>>

\* The mode switch: the drivetrain and the auger are taken from whoever has
\* them, after the command that changed the mode was handled.
ModeSwitch ==
  /\ IF mode # prevMode THEN ForceRelease(Motors) ELSE UNCHANGED owner
  /\ prevMode' = mode
  /\ UNCHANGED <<main, mode, tasks, pad, duty, sent, drv, pose>>

\* The 50 Hz period has not elapsed (or no mode was ever chosen).
SkipStep == pc = "switch" /\ ModeSwitch /\ pc' = "poll"

\* It has: run the periodic loop of the current mode.
BeginStep ==
  /\ pc = "switch"
  /\ mode # None
  /\ ModeSwitch
  /\ pc' = IF mode = "TELEOP" THEN "drive" ELSE "update"

\* TeleOp.periodic_loop: drive_task unless a drive button is held.
TeleopDrive ==
  /\ pc = "drive"
  /\ pc' = "update"
  /\ duty' = IF active = {}
               THEN SetPower(duty, "drive", None, IF stick THEN "stick" ELSE "off")
               ELSE duty
  /\ UNCHANGED <<main, mode, prevMode, owner, tasks, pad, sent, drv, pose>>

\* What follows PIDDrive.update in the periodic loop of the mode.
AfterPid == IF mode = "TELEOP" THEN "poll" ELSE Exc

Powered == {m \in Motors : duty[m] # "off"}

\* MotorController.Update: the desired duty cycles go on the bus.
Update ==
  /\ pc = "update"
  /\ sent' = Powered
  /\ pc' = IF HasPID THEN "pid" ELSE AfterPid
  /\ UNCHANGED <<main, mode, prevMode, owner, tasks, pad, duty, drv, pose>>

\* SendCanFrame gives up part-way through Update: the exception leaves run.
UpdateFails ==
  /\ pc = "update"
  /\ \E S \in SUBSET Motors : sent' = (sent \ S) \cup (Powered \cap S)
  /\ pc' = "stopPid" /\ main' = "finally"
  /\ UNCHANGED <<mode, prevMode, owner, tasks, pad, duty, drv, pose>>

\* PIDDrive.update with a target and a pose: write in the name of its owner.
PidDrives ==
  /\ pc = "pid" /\ target # None /\ pose
  /\ pc' = AfterPid
  /\ duty' = SetPower(duty, "drive", owner["pid"], "pid")
  /\ onTarget' \in BOOLEAN
  /\ UNCHANGED <<main, mode, prevMode, owner, tasks, pad, sent, target, pose>>

PidIdle ==
  /\ pc = "pid" /\ target = None
  /\ pc' = AfterPid
  /\ UNCHANGED <<main, mode, prevMode, owner, tasks, pad, duty, sent, drv, pose>>

\* get_pose() is still None: reading its heading raises out of run.
PidFails ==
  /\ pc = "pid" /\ target # None /\ ~pose
  /\ pc' = "stopPid" /\ main' = "finally"
  /\ UNCHANGED <<mode, prevMode, owner, tasks, pad, duty, sent, drv, pose>>
----------------------------------------------------------------------------
(* Robot.stop, run once by run or __init__ and again by __main__           *)

\* PIDDrive.shutdown; its write is denied while a task owns the drivetrain.
StopPid ==
  /\ pc = "stopPid"
  /\ pc' = "stopDrive"
  /\ ClearTarget
  /\ duty' = IF HasPID THEN SetPower(duty, "drive", None, "off") ELSE duty
  /\ UNCHANGED <<main, mode, prevMode, owner, tasks, pad, sent, pose>>

\* Faulty variant: shutdown stops without releasing first.
ShutdownOwned(m) ==
  /\ duty' = SetPower(duty, m, None, "off")
  /\ UNCHANGED owner

\* Subsystem.shutdown: force_release, then stop.
ShutdownMotor(m) ==
  /\ ForceRelease({m})
  /\ duty' = [duty EXCEPT ![m] = "off"]

StopDrive ==
  /\ pc = "stopDrive"
  /\ pc' = "stopAuger"
  /\ ShutdownMotor("drive")
  /\ UNCHANGED <<main, mode, prevMode, tasks, pad, sent, drv, pose>>

StopAuger ==
  /\ pc = "stopAuger"
  /\ pc' = IF main = "finally" THEN "exit" ELSE "stopPid"
  /\ main' = "finally"
  /\ ShutdownMotor("auger")
  /\ UNCHANGED <<mode, prevMode, tasks, pad, sent, drv, pose>>

\* KeyboardInterrupt: out of run it leads to the finally clause and stop()
\* from its start; in that stop(), or before Robot() has returned, it ends
\* the process.
Interrupt ==
  /\ pc \notin Ended
  /\ pc' = IF main = "run" THEN "stopPid" ELSE "killed"
  /\ main' = "finally"
  /\ UNCHANGED <<mode, prevMode, owner, tasks, pad, duty, sent, drv, pose>>

----------------------------------------------------------------------------
(* The environment                                                         *)

\* The localizer thread stores its first position.
FirstFix ==
  /\ HasPID /\ pc \notin Ended /\ ~pose
  /\ pose' = TRUE
  /\ UNCHANGED <<ctrl, owner, tasks, pad, duty, sent, drv>>

Terminated == pc \in Ended /\ UNCHANGED vars

\* An iteration after the poll, and the stop sequence.
Iterate ==
  \/ SkipStep \/ BeginStep \/ TeleopDrive \/ Update \/ UpdateFails
  \/ PidDrives \/ PidIdle \/ PidFails
  \/ \E t \in Tasks : RunTaskStates(t)
Shutdown == StopPid \/ StopDrive \/ StopAuger

PollAny == \E cmd \in Commands \cup {NoCmd} : Poll(cmd)
AwaitReady == \E cmd \in Commands \cup {NoCmd} : Startup(cmd)

Next ==
  \/ AwaitReady \/ StartupTimeout \/ PollAny \/ PollShutdown
  \/ Iterate \/ Shutdown \/ Interrupt \/ FirstFix \/ Terminated

Spec == Init /\ [][Next]_vars

\* The main thread keeps running, and time passes: the 50 Hz period elapses
\* and so does the timeout of a state that is looked at again and again.
\* Nothing obliges the operator, the localizer or a fault.
Fairness ==
  /\ WF_vars(PollAny) /\ WF_vars(Iterate) /\ WF_vars(Shutdown)
  /\ SF_vars(BeginStep)
  /\ \A t \in Tasks : SF_vars(RunTaskStates(t) /\ phase'[t] # phase[t])

FairSpec == Spec /\ Fairness

----------------------------------------------------------------------------
(* Properties                                                              *)

\* Only a running task holds a lock.  start_auto_task claims and only
\* stop_auto_task releases, so a task that ended while holding one would
\* lock everybody else out for good.
OwnerIsRunning ==
  \A s \in Subsystems, t \in Tasks : owner[s] = t => running[t]

\* The drivetrain and the auger always have the same owner: claimed one by
\* one with the answers ignored, they must not end up with different tasks,
\* or each would wait out its timeout driving half a robot.
LocksTogether == pc \notin Stopping \cup Ended => owner["drive"] = owner["auger"]

\* When no task runs, nothing of a task is left: no lock, no PID target to
\* chase in the next mode, no motor power but the operator's.
QuiescentWhenIdle ==
  (\A t \in Tasks : ~running[t]) =>
    /\ \A s \in Subsystems : owner[s] = None
    /\ target = None
    /\ \A m \in Motors : duty[m] \in {"off", "stick", "button"}

\* In TELEOP the frame that Update sends obeys the sticks whenever no drive
\* button is held, whatever the tasks left running or the PID drive wrote.
SticksDrive ==
  pc = "update" /\ mode = "TELEOP" /\ active = {} =>
    duty["drive"] = IF stick THEN "stick" ELSE "off"

\* When stop() has run to its end no lock is left that could deny its zero,
\* and the desired duty of every motor is zero.
ExitIsStopped ==
  pc = "exit" =>
    /\ \A m \in Motors : duty[m] = "off" /\ owner[m] = None
    /\ target = None

\* While t holds a motor's lock, the motor's power changes only in t's own
\* step or when PIDDrive writes in t's name: TeleOp, the other task, and the
\* PID drive of another owner are shut out.
LockProtects ==
  [][\A m \in Motors, t \in Tasks :
       owner[m] = t /\ owner'[m] = t /\ duty'[m] # duty[m] =>
         pc = t \/ (pc = "pid" /\ owner["pid"] = t)]_vars

\* In AUTO every task that was started comes to an end by itself: stopped,
\* finished, or cut short by the operator or a shutdown.
TaskEnds ==
  \A t \in Tasks :
    (running[t] /\ mode = "AUTO" /\ pc \in Running) ~>
      (~running[t] \/ mode # "AUTO" \/ pc \notin Running)

\* A stick deflected in TELEOP gets onto the CAN bus, even out of a mode in
\* which tasks held the locks.
StickIsSent ==
  (mode = "TELEOP" /\ stick /\ active = {} /\ pc \in Running) ~>
    ((pc = "update" /\ duty["drive"] = "stick") \/ mode # "TELEOP" \/ ~stick \/ active # {}
       \/ pc \notin Running)

----------------------------------------------------------------------------
(* The inductive invariant: what the properties above rest on              *)

\* A task is running exactly when it is out of IDLE.
RunningHasPhase == \A t \in Tasks : running[t] <=> phase[t] # "IDLE"

\* Without a PID drive nothing refers to one.
NoPidDrive ==
  ~HasPID =>
    /\ target = None /\ ~onTarget /\ owner["pid"] = None
    /\ \A t \in Tasks : phase[t] # "DRIVING"

\* Past the mode switch the locks belong to the current mode: in TELEOP they
\* are free, and only AUTO gets to the tasks.
ModeSettled ==
  /\ pc \in {"starting"} \cup (Running \ {"switch"}) => mode = prevMode
  /\ pc = "drive" => mode = "TELEOP"
  /\ pc \in {"update", "pid"} => mode # None
  /\ pc \in Tasks => mode = "AUTO"
  /\ mode = "TELEOP" /\ prevMode = "TELEOP" =>
       owner["drive"] = None /\ owner["auger"] = None

\* How far stop() has come.
StopProgress ==
  /\ pc \in {"stopDrive", "stopAuger", "exit"} => target = None
  /\ pc \in {"stopAuger", "exit"} => owner["drive"] = None /\ duty["drive"] = "off"
  /\ pc = "exit" => owner["auger"] = None /\ duty["auger"] = "off"

IInv ==
  /\ TypeOK
  /\ OwnerIsRunning
  /\ LocksTogether
  /\ QuiescentWhenIdle
  /\ SticksDrive
  /\ RunningHasPhase
  /\ NoPidDrive
  /\ ModeSettled
  /\ StopProgress

----------------------------------------------------------------------------
(* What the documentation says and the code does not do                    *)

\* subsystem.py: ownership "ensures only one caller (TeleOp, an AutoTask,
\* etc.) can drive a subsystem at a time".  Power given by a running task
\* would then not be replaced by the power of another.
OneCallerAtATime ==
  [][\A m \in Motors, t \in Tasks :
       duty[m] = t /\ running[t] => duty'[m] \notin Tasks \ {t}]_vars

\* subsystem.py: shutdown "Stop[s] all actuators and release[s] resources":
\* when the process exits, the last frame of every motor carries no power.
ExitSendsZero == pc = "exit" => sent = {}
=============================================================================
