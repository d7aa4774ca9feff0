---------------------------- MODULE RobotProofs ----------------------------
(***************************************************************************)
(* The safety of the robot's main loop, for every set of drive buttons and *)
(* with or without a PID drive: Robot's IInv is inductive.  Consistent is  *)
(* the part of it that does not mention pc; the lemmas on the tasks'       *)
(* operations show that each of them keeps it, the lemmas on the actions   *)
(* that each action keeps IInv.                                            *)
(***************************************************************************)
EXTENDS Robot, TLAPS

USE DEF None, Exc, Dump, Tasks, Motors, Subsystems

Consistent ==
  /\ owner \in [Subsystems -> Tasks \cup {None}]
  /\ phase \in [Tasks -> Phases]
  /\ running \in [Tasks -> BOOLEAN]
  /\ duty \in [Motors -> Powers]
  /\ target \in Tasks \cup {None}
  /\ onTarget \in BOOLEAN
  /\ OwnerIsRunning
  /\ QuiescentWhenIdle
  /\ RunningHasPhase
  /\ NoPidDrive

Together == owner["drive"] = owner["auger"]

\* The inductive invariant holds when Robot() begins.
LEMMA InitIInv == Init => IInv
<1> SUFFICES ASSUME Init PROVE IInv
  OBVIOUS
<1>1. TypeOK
  BY DEF Init, TypeOK, Modes, Phases, Powers
<1>2. OwnerIsRunning /\ LocksTogether /\ QuiescentWhenIdle /\ SticksDrive
  BY DEF Init, OwnerIsRunning, LocksTogether, QuiescentWhenIdle, SticksDrive
<1>3. RunningHasPhase /\ NoPidDrive /\ ModeSettled /\ StopProgress
  BY DEF Init, RunningHasPhase, NoPidDrive, ModeSettled, StopProgress, Running
<1> QED
  BY <1>1, <1>2, <1>3 DEF IInv

----------------------------------------------------------------------------
(* The operations of the tasks                                             *)

\* set_power leaves every motor with a duty cycle, whoever calls.
LEMMA SetPowerType ==
  ASSUME NEW d \in [Motors -> Powers], NEW m \in Motors, NEW who, NEW p \in Powers
  PROVE  SetPower(d, m, who, p) \in [Motors -> Powers]
  BY DEF SetPower

\* A started task runs before it claims, so whatever it gets has a running owner.
LEMMA StartKeepsConsistent ==
  ASSUME Consistent, Together, NEW t \in Tasks, StartAutoTask(t)
  PROVE  Consistent' /\ Together'
<1> USE RobotAssumption DEF Consistent, StartAutoTask
<1>1. owner' \in [Subsystems -> Tasks \cup {None}] /\ Together'
  BY DEF Claim, Together
<1>2. phase' \in [Tasks -> Phases] /\ running' \in [Tasks -> BOOLEAN]
  BY DEF TransitionTo, Phases
<1>3. duty' = duty /\ target' = target /\ onTarget' = onTarget
  BY DEF drv
<1>4. OwnerIsRunning'
  BY DEF OwnerIsRunning, Claim
<1>5. running'[t]
  OBVIOUS
<1>6. QuiescentWhenIdle'
  BY <1>5 DEF QuiescentWhenIdle
<1>7. RunningHasPhase'
  BY DEF RunningHasPhase, TransitionTo, Phases
<1>8. NoPidDrive'
  BY <1>3 DEF NoPidDrive, Claim, TransitionTo, Phases
<1> QED
  BY <1>1, <1>2, <1>3, <1>4, <1>6, <1>7, <1>8

\* The stopping task holds whatever is locked when it is the only one that
\* runs, so its zeros pass and nothing of it is left.
LEMMA StopKeepsConsistent ==
  ASSUME Consistent, Together, NEW t \in Tasks, StopAutoTask(t)
  PROVE  Consistent' /\ Together'
<1> USE RobotAssumption DEF Consistent, StopAutoTask
<1>1. owner' \in [Subsystems -> Tasks \cup {None}] /\ Together'
  BY DEF Release, Together
<1>2. phase' \in [Tasks -> Phases] /\ running' \in [Tasks -> BOOLEAN]
  BY DEF TransitionTo, Phases
<1>3. duty' \in [Motors -> Powers]
  BY SetPowerType DEF Powers
<1>4. target' \in Tasks \cup {None} /\ onTarget' \in BOOLEAN
  BY DEF ClearTarget, drv
<1>5. OwnerIsRunning'
  BY DEF OwnerIsRunning, Release
<1>6. QuiescentWhenIdle'
  BY <1>1 DEF QuiescentWhenIdle, OwnerIsRunning, NoPidDrive, Release,
              ClearTarget, drv, SetPower, MayWrite, Powers
<1>7. RunningHasPhase'
  BY DEF RunningHasPhase, TransitionTo, Phases
<1>8. NoPidDrive'
  BY DEF NoPidDrive, Release, ClearTarget, drv, TransitionTo, Phases
<1> QED
  BY <1>1, <1>2, <1>3, <1>4, <1>5, <1>6, <1>7, <1>8

\* A task out of IDLE runs, so QuiescentWhenIdle asks nothing of its steps.
LEMMA StepKeepsConsistent ==
  ASSUME Consistent, Together, NEW t \in Tasks, Driving(t) \/ Working(t)
  PROVE  Consistent' /\ Together'
<1> USE RobotAssumption DEF Consistent
<1>1. owner' = owner /\ running' = running
  BY DEF Driving, Working
<1>2. phase' \in [Tasks -> Phases]
  BY DEF Driving, Working, WaitForEvent, TransitionTo, Phases
<1>3. duty' \in [Motors -> Powers]
  <2>1. t \in Powers
    BY DEF Powers
  <2>2. SetPower(duty, "auger", t, t) \in [Motors -> Powers]
    BY <2>1, SetPowerType
  <2>3. SetPower(SetPower(duty, "auger", t, t), "drive", t, t) \in [Motors -> Powers]
    BY <2>1, <2>2, SetPowerType
  <2> QED
    BY <2>3 DEF Driving, Working
<1>4. target' \in Tasks \cup {None} /\ onTarget' \in BOOLEAN
  BY DEF Driving, Working, SetTarget, drv
<1>5. running'[t]
  BY <1>1 DEF Driving, Working, RunningHasPhase
<1>6. OwnerIsRunning' /\ QuiescentWhenIdle' /\ Together'
  BY <1>1, <1>5 DEF OwnerIsRunning, QuiescentWhenIdle, Together
<1>7. RunningHasPhase'
  BY <1>1 DEF Driving, Working, WaitForEvent, TransitionTo, RunningHasPhase, Phases
<1>8. NoPidDrive'
  BY <1>1 DEF Driving, Working, WaitForEvent, TransitionTo, drv, NoPidDrive, Phases
<1> QED
  BY <1>1, <1>2, <1>3, <1>4, <1>6, <1>7, <1>8

----------------------------------------------------------------------------
(* The actions                                                             *)

\* A task's periodic step, in AUTO only.
LEMMA RunTaskStatesIInv ==
  ASSUME IInv, NEW t \in Tasks, RunTaskStates(t)
  PROVE  IInv'
<1> USE RobotAssumption DEF RunTaskStates
<1>1. Consistent /\ Together
  BY DEF IInv, TypeOK, Consistent, Together, LocksTogether, Running, Stopping, Ended
<1>2. Consistent' /\ Together'
  <2>1. CASE Idle(t)
    BY <1>1, <2>1 DEF Idle, tasks, drv, Consistent, Together, OwnerIsRunning,
                      QuiescentWhenIdle, RunningHasPhase, NoPidDrive
  <2>2. CASE Driving(t) \/ Working(t)
    BY <1>1, <2>2, StepKeepsConsistent
  <2>3. CASE Finish(t)
    BY <1>1, <2>3, StopKeepsConsistent DEF Finish
  <2> QED
    BY <2>1, <2>2, <2>3
<1>3. pc' \in Running \ {"switch", "drive", "update"} /\ (pc' \in Tasks => mode' = "AUTO")
  BY DEF IInv, ModeSettled, Running
<1>4. mode' = "AUTO" /\ prevMode' = "AUTO"
  BY DEF IInv, ModeSettled, Running
<1>5. TypeOK'
  BY <1>2, <1>3, <1>4 DEF IInv, TypeOK, Consistent, pad, Running, Modes
<1>6. SticksDrive' /\ ModeSettled' /\ StopProgress' /\ LocksTogether'
  BY <1>2, <1>3, <1>4 DEF SticksDrive, ModeSettled, StopProgress, LocksTogether,
                          Together, Running
<1> QED
  BY <1>2, <1>5, <1>6 DEF IInv, Consistent

\* A TELEOP button writes in nobody's name and touches no task.
LEMMA TeleopButtonConsistent ==
  ASSUME Consistent, Together, NEW b, NEW pressed \in BOOLEAN, TeleopButton(b, pressed),
         active \in SUBSET DriveButtons
  PROVE  Consistent' /\ Together' /\ active' \in SUBSET DriveButtons
<1> USE DEF Consistent, TeleopButton
<1>1. /\ UNCHANGED <<owner, phase, running, target, onTarget>>
      /\ Together' /\ OwnerIsRunning' /\ RunningHasPhase' /\ NoPidDrive'
  BY DEF tasks, drv, Together, OwnerIsRunning, RunningHasPhase, NoPidDrive
<1>2. active' \in SUBSET DriveButtons
  BY DEF DriveButton, AugerButton
<1>3. /\ duty' \in [Motors -> Powers]
      /\ \A m \in Motors : duty'[m] \in {duty[m], "off", "button"}
  BY DEF DriveButton, AugerButton, SetPower, Powers
<1>4. QuiescentWhenIdle'
  BY <1>1, <1>3 DEF QuiescentWhenIdle
<1> QED
  BY <1>1, <1>2, <1>3, <1>4

\* A bumper press in AUTO starts or stops one task.
LEMMA AutoButtonConsistent ==
  ASSUME Consistent, Together, NEW b, NEW pressed \in BOOLEAN, AutoButton(b, pressed)
  PROVE  Consistent' /\ Together' /\ UNCHANGED pad
<1>1. TaskOf(b) \in Tasks
  BY DEF TaskOf
<1>2. CASE StopAutoTask(TaskOf(b))
  BY <1>1, <1>2, StopKeepsConsistent DEF AutoButton
<1>3. CASE StartAutoTask(TaskOf(b))
  BY <1>1, <1>3, StartKeepsConsistent DEF AutoButton
<1>4. CASE UNCHANGED <<owner, tasks, duty, drv>>
  BY <1>4 DEF AutoButton, tasks, drv, Consistent, Together, OwnerIsRunning,
              QuiescentWhenIdle, RunningHasPhase, NoPidDrive
<1> QED
  BY <1>2, <1>3, <1>4 DEF AutoButton

\* A command is handled under the locks of the mode before it.
LEMMA PollIInv ==
  ASSUME IInv, NEW cmd \in Commands \cup {NoCmd}, Poll(cmd)
  PROVE  IInv'
<1> USE RobotAssumption DEF Poll
<1>1. Consistent /\ Together
  BY DEF IInv, TypeOK, Consistent, Together, LocksTogether, Running, Stopping, Ended
<1>2. mode = prevMode
  BY DEF IInv, ModeSettled, Running
<1>3. /\ Consistent' /\ Together'
      /\ mode' \in Modes /\ active' \in SUBSET DriveButtons /\ stick' \in BOOLEAN
      /\ mode' = "AUTO" \/ owner' = owner
  <2>1. CASE AxesInput(cmd)
    <3>1. cmd.deflected \in BOOLEAN
      BY <2>1 DEF AxesInput, Commands, AxesCmds, ButtonCmds, ReadyCmd, ShutdownCmd, NoCmd
    <3> QED
      BY <1>1, <2>1, <3>1
      DEF AxesInput, tasks, drv, Consistent, Together, OwnerIsRunning, IInv, TypeOK,
          QuiescentWhenIdle, RunningHasPhase, NoPidDrive, Modes
  <2>2. CASE ButtonInput(cmd)
    <3>1. cmd.mode \in {"TELEOP", "AUTO"} /\ cmd.pressed \in BOOLEAN
      BY <2>2 DEF ButtonInput, Commands, AxesCmds, ButtonCmds, ReadyCmd, ShutdownCmd, NoCmd
    <3>2. CASE cmd.mode = "TELEOP"
      BY <1>1, <2>2, <3>1, <3>2, TeleopButtonConsistent
      DEF ButtonInput, TeleopButton, IInv, TypeOK, Modes
    <3>3. CASE cmd.mode = "AUTO"
      BY <1>1, <2>2, <3>1, <3>3, AutoButtonConsistent
      DEF ButtonInput, pad, IInv, TypeOK, Modes
    <3> QED
      BY <3>1, <3>2, <3>3
  <2>3. CASE UNCHANGED <<mode, owner, tasks, pad, duty, drv>>
    BY <1>1, <2>3
    DEF tasks, pad, drv, Consistent, Together, OwnerIsRunning, IInv, TypeOK,
        QuiescentWhenIdle, RunningHasPhase, NoPidDrive
  <2> QED
    BY <2>1, <2>2, <2>3
<1>4. TypeOK'
  BY <1>3 DEF IInv, TypeOK, Consistent, Running
<1>5. ModeSettled'
  BY <1>2, <1>3 DEF IInv, ModeSettled
<1>6. SticksDrive' /\ StopProgress' /\ LocksTogether'
  BY <1>3 DEF SticksDrive, StopProgress, LocksTogether, Together
<1> QED
  BY <1>3, <1>4, <1>5, <1>6 DEF IInv, Consistent

\* The mode switch frees both motors together.
LEMMA ModeSwitchIInv ==
  ASSUME IInv, SkipStep \/ BeginStep
  PROVE  IInv'
<1> USE RobotAssumption DEF IInv, TypeOK, SkipStep, BeginStep, ModeSwitch,
                             ForceRelease, Running, Stopping, Ended, Modes,
                             tasks, pad, drv
<1>0. owner' \in [Subsystems -> Tasks \cup {None}]
  OBVIOUS
<1>1. TypeOK'
  BY <1>0
<1>2. OwnerIsRunning'
  BY DEF OwnerIsRunning
<1>3. LocksTogether'
  BY DEF LocksTogether
<1>4. QuiescentWhenIdle'
  BY DEF QuiescentWhenIdle
<1>5. SticksDrive'
  BY DEF SticksDrive
<1>6. RunningHasPhase'
  BY DEF RunningHasPhase
<1>7. NoPidDrive'
  BY DEF NoPidDrive
<1>8. ModeSettled'
  BY DEF ModeSettled
<1>9. StopProgress'
  BY DEF StopProgress
<1> QED
  BY <1>1, <1>2, <1>3, <1>4, <1>5, <1>6, <1>7, <1>8, <1>9

\* In TELEOP nobody holds the drivetrain, so drive_task's write goes through.
LEMMA TeleopDriveIInv ==
  ASSUME IInv, TeleopDrive
  PROVE  IInv'
<1> USE RobotAssumption DEF IInv, TypeOK, TeleopDrive, SetPower, MayWrite,
                             Powers, Running, Stopping, Ended, Modes, tasks,
                             pad, drv
<1>1. TypeOK'
  OBVIOUS
<1>2. OwnerIsRunning'
  BY DEF OwnerIsRunning
<1>3. LocksTogether'
  BY DEF LocksTogether
<1>4. QuiescentWhenIdle'
  BY DEF QuiescentWhenIdle
<1>5. SticksDrive'
  BY DEF SticksDrive, ModeSettled
<1>6. RunningHasPhase'
  BY DEF RunningHasPhase
<1>7. NoPidDrive'
  BY DEF NoPidDrive
<1>8. ModeSettled'
  BY DEF ModeSettled
<1>9. StopProgress'
  BY DEF StopProgress
<1> QED
  BY <1>1, <1>2, <1>3, <1>4, <1>5, <1>6, <1>7, <1>8, <1>9

\* Update reads the duty cycles and moves on to the PID drive or the tasks.
LEMMA UpdateIInv ==
  ASSUME IInv, Update
  PROVE  IInv'
<1> USE RobotAssumption DEF IInv, TypeOK, Update, AfterPid, Powered, Running,
                             Stopping, Ended, Modes, tasks, pad, drv
<1>1. TypeOK'
  OBVIOUS
<1>2. OwnerIsRunning'
  BY DEF OwnerIsRunning
<1>3. LocksTogether'
  BY DEF LocksTogether
<1>4. QuiescentWhenIdle'
  BY DEF QuiescentWhenIdle
<1>5. SticksDrive'
  BY DEF SticksDrive
<1>6. RunningHasPhase'
  BY DEF RunningHasPhase
<1>7. NoPidDrive'
  BY DEF NoPidDrive
<1>8. ModeSettled'
  BY DEF ModeSettled
<1>9. StopProgress'
  BY DEF StopProgress
<1> QED
  BY <1>1, <1>2, <1>3, <1>4, <1>5, <1>6, <1>7, <1>8, <1>9

\* A send failure leads straight to stop().
LEMMA UpdateFailsIInv ==
  ASSUME IInv, UpdateFails
  PROVE  IInv'
<1> USE RobotAssumption DEF IInv, TypeOK, UpdateFails, Powered, Running,
                             Stopping, Ended, tasks, pad, drv
<1>1. TypeOK'
  OBVIOUS
<1>2. OwnerIsRunning'
  BY DEF OwnerIsRunning
<1>3. LocksTogether'
  BY DEF LocksTogether
<1>4. QuiescentWhenIdle'
  BY DEF QuiescentWhenIdle
<1>5. SticksDrive'
  BY DEF SticksDrive
<1>6. RunningHasPhase'
  BY DEF RunningHasPhase
<1>7. NoPidDrive'
  BY DEF NoPidDrive
<1>8. ModeSettled'
  BY DEF ModeSettled
<1>9. StopProgress'
  BY DEF StopProgress
<1> QED
  BY <1>1, <1>2, <1>3, <1>4, <1>5, <1>6, <1>7, <1>8, <1>9

\* A target exists only while a task runs, so the write is accounted for.
LEMMA PidDrivesIInv ==
  ASSUME IInv, PidDrives
  PROVE  IInv'
<1> USE RobotAssumption DEF IInv, TypeOK, PidDrives, AfterPid, SetPower,
                             Powers, Running, Stopping, Ended, Modes, tasks,
                             pad
<1>1. TypeOK'
  OBVIOUS
<1>2. OwnerIsRunning'
  BY DEF OwnerIsRunning
<1>3. LocksTogether'
  BY DEF LocksTogether
<1>4. QuiescentWhenIdle'
  BY DEF QuiescentWhenIdle
<1>5. SticksDrive'
  BY DEF SticksDrive
<1>6. RunningHasPhase'
  BY DEF RunningHasPhase
<1>7. NoPidDrive'
  BY DEF NoPidDrive
<1>8. ModeSettled'
  BY DEF ModeSettled
<1>9. StopProgress'
  BY DEF StopProgress
<1> QED
  BY <1>1, <1>2, <1>3, <1>4, <1>5, <1>6, <1>7, <1>8, <1>9

\* PIDDrive.update without a target writes nothing, without a pose raises.
LEMMA PidIdleIInv ==
  ASSUME IInv, PidIdle \/ PidFails
  PROVE  IInv'
<1> USE RobotAssumption DEF IInv, TypeOK, PidIdle, PidFails, AfterPid,
                             Running, Stopping, Ended, Modes, tasks, pad, drv
<1>1. TypeOK'
  BY ZenonT(60)
<1>2. OwnerIsRunning'
  BY DEF OwnerIsRunning
<1>3. LocksTogether'
  BY DEF LocksTogether
<1>4. QuiescentWhenIdle'
  BY DEF QuiescentWhenIdle
<1>5. SticksDrive'
  BY DEF SticksDrive
<1>6. RunningHasPhase'
  BY DEF RunningHasPhase
<1>7. NoPidDrive'
  BY DEF NoPidDrive
<1>8. ModeSettled'
  BY DEF ModeSettled
<1>9. StopProgress'
  BY DEF StopProgress
<1> QED
  BY <1>1, <1>2, <1>3, <1>4, <1>5, <1>6, <1>7, <1>8, <1>9

\* After PIDDrive.shutdown the target is gone for the rest of stop().
LEMMA StopPidIInv ==
  ASSUME IInv, StopPid
  PROVE  IInv'
<1> USE RobotAssumption DEF IInv, TypeOK, StopPid, ClearTarget, SetPower,
                             Powers, Running, Stopping, Ended, tasks, pad, drv
<1>1. TypeOK'
  OBVIOUS
<1>2. OwnerIsRunning'
  BY DEF OwnerIsRunning
<1>3. LocksTogether'
  BY DEF LocksTogether
<1>4. QuiescentWhenIdle'
  BY DEF QuiescentWhenIdle
<1>5. SticksDrive'
  BY DEF SticksDrive
<1>6. RunningHasPhase'
  BY DEF RunningHasPhase
<1>7. NoPidDrive'
  BY DEF NoPidDrive
<1>8. ModeSettled'
  BY DEF ModeSettled
<1>9. StopProgress'
  BY DEF StopProgress, NoPidDrive
<1> QED
  BY <1>1, <1>2, <1>3, <1>4, <1>5, <1>6, <1>7, <1>8, <1>9

\* Drivetrain.shutdown releases before it writes, so its zero cannot be denied.
LEMMA StopDriveIInv ==
  ASSUME IInv, StopDrive
  PROVE  IInv'
<1> USE RobotAssumption DEF IInv, TypeOK, StopDrive, ShutdownMotor,
                             ForceRelease, Powers, Running, Stopping, Ended,
                             tasks, pad, drv
<1>1. TypeOK'
  OBVIOUS
<1>2. OwnerIsRunning'
  BY DEF OwnerIsRunning
<1>3. LocksTogether'
  BY DEF LocksTogether
<1>4. QuiescentWhenIdle'
  BY DEF QuiescentWhenIdle
<1>5. SticksDrive'
  BY DEF SticksDrive
<1>6. RunningHasPhase'
  BY DEF RunningHasPhase
<1>7. NoPidDrive'
  BY DEF NoPidDrive
<1>8. ModeSettled'
  BY DEF ModeSettled
<1>9. StopProgress'
  BY DEF StopProgress
<1> QED
  BY <1>1, <1>2, <1>3, <1>4, <1>5, <1>6, <1>7, <1>8, <1>9

\* So does Auger.shutdown; if this was the last stop() the process exits.
LEMMA StopAugerIInv ==
  ASSUME IInv, StopAuger
  PROVE  IInv'
<1> USE RobotAssumption DEF IInv, TypeOK, StopAuger, ShutdownMotor,
                             ForceRelease, Powers, Running, Stopping, Ended,
                             tasks, pad, drv
<1>1. TypeOK'
  OBVIOUS
<1>2. OwnerIsRunning'
  BY DEF OwnerIsRunning
<1>3. LocksTogether'
  BY DEF LocksTogether
<1>4. QuiescentWhenIdle'
  BY DEF QuiescentWhenIdle
<1>5. SticksDrive'
  BY DEF SticksDrive
<1>6. RunningHasPhase'
  BY DEF RunningHasPhase
<1>7. NoPidDrive'
  BY DEF NoPidDrive
<1>8. ModeSettled'
  BY DEF ModeSettled
<1>9. StopProgress'
  BY DEF StopProgress
<1> QED
  BY <1>1, <1>2, <1>3, <1>4, <1>5, <1>6, <1>7, <1>8, <1>9

\* An interrupt changes only where the main thread is.
LEMMA InterruptIInv ==
  ASSUME IInv, Interrupt
  PROVE  IInv'
<1> USE RobotAssumption DEF IInv, TypeOK, Interrupt, Running, Stopping, Ended,
                             tasks, pad, drv
<1>1. TypeOK'
  OBVIOUS
<1>2. OwnerIsRunning'
  BY DEF OwnerIsRunning
<1>3. LocksTogether'
  BY DEF LocksTogether
<1>4. QuiescentWhenIdle'
  BY DEF QuiescentWhenIdle
<1>5. SticksDrive'
  BY DEF SticksDrive
<1>6. RunningHasPhase'
  BY DEF RunningHasPhase
<1>7. NoPidDrive'
  BY DEF NoPidDrive
<1>8. ModeSettled'
  BY DEF ModeSettled
<1>9. StopProgress'
  BY DEF StopProgress
<1> QED
  BY <1>1, <1>2, <1>3, <1>4, <1>5, <1>6, <1>7, <1>8, <1>9

\* Steps that touch neither locks nor duty cycles.
LEMMA QuietIInv ==
  ASSUME IInv, FirstFix \/ PollShutdown \/ StartupTimeout
  PROVE  IInv'
<1> USE RobotAssumption DEF IInv, TypeOK, FirstFix, PollShutdown,
                             StartupTimeout, Running, Stopping, Ended, ctrl,
                             tasks, pad, drv
<1>1. TypeOK'
  BY ZenonT(60)
<1>2. OwnerIsRunning'
  BY DEF OwnerIsRunning
<1>3. LocksTogether'
  BY DEF LocksTogether
<1>4. QuiescentWhenIdle'
  BY DEF QuiescentWhenIdle
<1>5. SticksDrive'
  BY DEF SticksDrive
<1>6. RunningHasPhase'
  BY DEF RunningHasPhase
<1>7. NoPidDrive'
  BY DEF NoPidDrive
<1>8. ModeSettled'
  BY DEF ModeSettled
<1>9. StopProgress'
  BY DEF StopProgress
<1> QED
  BY <1>1, <1>2, <1>3, <1>4, <1>5, <1>6, <1>7, <1>8, <1>9

\* Commands dropped before READY change nothing.
LEMMA StartupIInv ==
  ASSUME IInv, NEW cmd, Startup(cmd)
  PROVE  IInv'
<1> USE RobotAssumption DEF IInv, TypeOK, Startup, Running, Stopping, Ended,
                             tasks, pad, drv
<1>1. TypeOK'
  OBVIOUS
<1>2. OwnerIsRunning'
  BY DEF OwnerIsRunning
<1>3. LocksTogether'
  BY DEF LocksTogether
<1>4. QuiescentWhenIdle'
  BY DEF QuiescentWhenIdle
<1>5. SticksDrive'
  BY DEF SticksDrive
<1>6. RunningHasPhase'
  BY DEF RunningHasPhase
<1>7. NoPidDrive'
  BY DEF NoPidDrive
<1>8. ModeSettled'
  BY DEF ModeSettled
<1>9. StopProgress'
  BY DEF StopProgress
<1> QED
  BY <1>1, <1>2, <1>3, <1>4, <1>5, <1>6, <1>7, <1>8, <1>9

\* Every step of the main loop keeps the inductive invariant.
LEMMA NextIInv == IInv /\ [Next]_vars => IInv'
<1> SUFFICES ASSUME IInv, [Next]_vars PROVE IInv'
  OBVIOUS
<1>1. CASE AwaitReady
  BY <1>1, StartupIInv DEF AwaitReady
<1>2. CASE PollAny
  BY <1>2, PollIInv DEF PollAny
<1>3. CASE StartupTimeout \/ PollShutdown \/ FirstFix
  BY <1>3, QuietIInv
<1>4. CASE Iterate
  BY <1>4, ModeSwitchIInv, TeleopDriveIInv, UpdateIInv, UpdateFailsIInv,
     PidDrivesIInv, PidIdleIInv, RunTaskStatesIInv DEF Iterate
<1>5. CASE Shutdown
  BY <1>5, StopPidIInv, StopDriveIInv, StopAugerIInv DEF Shutdown
<1>6. CASE Interrupt
  BY <1>6, InterruptIInv
<1>7. CASE UNCHANGED vars
  BY <1>7 DEF vars, ctrl, tasks, pad, drv, IInv, TypeOK, OwnerIsRunning, LocksTogether,
              QuiescentWhenIdle, SticksDrive, RunningHasPhase, NoPidDrive, ModeSettled,
              StopProgress
<1> QED
  BY <1>1, <1>2, <1>3, <1>4, <1>5, <1>6, <1>7 DEF Next, Terminated

----------------------------------------------------------------------------
(* The lock keeps others out                                               *)

\* set_power by anyone but the owner leaves the owner's motor as it was.
LEMMA SetPowerDenied ==
  ASSUME NEW t \in Tasks, NEW m \in Motors, owner[m] = t,
         NEW d \in [Motors -> Powers], NEW n \in Motors, NEW who, who # t, NEW p
  PROVE  SetPower(d, n, who, p)[m] = d[m]
  BY DEF SetPower, MayWrite

\* A stopping task either lets go of the lock or never had it.
LEMMA StopRespectsLock ==
  ASSUME duty \in [Motors -> Powers], NEW u \in Tasks, StopAutoTask(u),
         NEW m \in Motors, NEW t \in Tasks, owner[m] = t, owner'[m] = t
  PROVE  duty'[m] = duty[m]
<1>1. u # t
  BY DEF StopAutoTask, Release
<1>2. None # t /\ "off" \in Powers
  BY DEF Powers
<1> DEFINE d == SetPower(duty, "drive", u, "off")
<1>3. d \in [Motors -> Powers] /\ d[m] = duty[m]
  BY <1>1, <1>2, SetPowerType, SetPowerDenied
<1>4. SetPower(d, "auger", u, "off")[m] = d[m]
  BY <1>1, <1>3, SetPowerDenied
<1> QED
  BY <1>3, <1>4 DEF StopAutoTask

\* Nobody but the owner of a motor's lock, or PIDDrive in the owner's name,
\* changes the motor's power while the lock stays with that owner.
LEMMA LockProtectsStep ==
  ASSUME IInv, Next, NEW m \in Motors, NEW t \in Tasks,
         owner[m] = t, owner'[m] = t, duty'[m] # duty[m]
  PROVE  pc = t \/ (pc = "pid" /\ owner["pid"] = t)
<1>1. duty \in [Motors -> Powers] /\ None # t
  BY DEF IInv, TypeOK
<1>2. CASE AwaitReady \/ StartupTimeout \/ PollShutdown \/ Interrupt \/ FirstFix \/ Terminated
  BY <1>2 DEF AwaitReady, Startup, StartupTimeout, PollShutdown, Interrupt, FirstFix,
              Terminated, vars
<1>3. CASE SkipStep \/ BeginStep \/ Update \/ UpdateFails \/ PidIdle \/ PidFails
  BY <1>3 DEF SkipStep, BeginStep, ModeSwitch, Update, UpdateFails, PidIdle, PidFails
<1>4. CASE PollAny
  <2> PICK cmd \in Commands \cup {NoCmd} : Poll(cmd)
    BY <1>4 DEF PollAny
  <2>1. CASE AxesInput(cmd) \/ UNCHANGED <<mode, owner, tasks, pad, duty, drv>>
    BY <2>1 DEF AxesInput
  <2>2. CASE TeleopButton(cmd.button, cmd.pressed)
    <3>1. \E n \in Motors : \E p : duty' \in {duty, SetPower(duty, n, None, p)}
      BY <2>2 DEF TeleopButton, DriveButton, AugerButton
    <3> QED
      BY <1>1, <3>1, SetPowerDenied
  <2>3. CASE AutoButton(cmd.button, cmd.pressed)
    <3>1. TaskOf(cmd.button) \in Tasks
      BY DEF TaskOf
    <3>2. ~StopAutoTask(TaskOf(cmd.button))
      BY <1>1, <3>1, StopRespectsLock
    <3> QED
      BY <2>3, <3>2 DEF AutoButton, StartAutoTask
  <2> QED
    BY <2>1, <2>2, <2>3 DEF Poll, ButtonInput
<1>5. CASE TeleopDrive
  <2>1. \E p : duty' \in {duty, SetPower(duty, "drive", None, p)}
    BY <1>5 DEF TeleopDrive
  <2> QED
    BY <1>1, <2>1, SetPowerDenied
<1>6. CASE PidDrives
  <2>1. duty' = SetPower(duty, "drive", owner["pid"], "pid") /\ pc = "pid"
    BY <1>6 DEF PidDrives
  <2> QED
    BY <1>1, <2>1, SetPowerDenied
<1>7. CASE \E u \in Tasks : RunTaskStates(u)
  <2> PICK u \in Tasks : RunTaskStates(u)
    BY <1>7
  <2>1. CASE u = t
    BY <2>1 DEF RunTaskStates
  <2>2. CASE u # t
    <3>1. ~(Idle(u) \/ Driving(u))
      BY DEF Idle, Driving
    <3>2. ~Finish(u)
      BY <1>1, StopRespectsLock DEF Finish
    <3>3. ~Working(u)
      <4> DEFINE d == SetPower(duty, "auger", u, u)
      <4>1. u \in Powers
        BY DEF Powers
      <4>2. d \in [Motors -> Powers] /\ d[m] = duty[m]
        BY <1>1, <2>2, <4>1, SetPowerType, SetPowerDenied
      <4>3. SetPower(d, "drive", u, u)[m] = d[m]
        BY <2>2, <4>2, SetPowerDenied
      <4> QED
        BY <4>2, <4>3 DEF Working
    <3> QED
      BY <3>1, <3>2, <3>3 DEF RunTaskStates
  <2> QED
    BY <2>1, <2>2
<1>8. CASE StopPid
  <2>1. duty' \in {duty, SetPower(duty, "drive", None, "off")}
    BY <1>8 DEF StopPid
  <2> QED
    BY <1>1, <2>1, SetPowerDenied
<1>9. CASE StopDrive \/ StopAuger
  BY <1>1, <1>9 DEF StopDrive, StopAuger, ShutdownMotor, ForceRelease
<1> QED
  BY <1>2, <1>3, <1>4, <1>5, <1>6, <1>7, <1>8, <1>9 DEF Next, Iterate, Shutdown

----------------------------------------------------------------------------
(* The theorems                                                            *)

\* IInv holds in every reachable state of the main loop.
THEOREM Invariance == Spec => []IInv
  BY InitIInv, NextIInv, PTL DEF Spec

\* Every variable of the main loop keeps its type.
THEOREM TypeCorrect == Spec => []TypeOK
<1>1. IInv => TypeOK
  BY DEF IInv
<1> QED
  BY <1>1, Invariance, PTL

\* A lock never outlives the run of the task that claimed it.
THEOREM OwnersRun == Spec => []OwnerIsRunning
<1>1. IInv => OwnerIsRunning
  BY DEF IInv
<1> QED
  BY <1>1, Invariance, PTL

\* No two tasks ever hold one half of the robot each.
THEOREM NoSplitOwnership == Spec => []LocksTogether
<1>1. IInv => LocksTogether
  BY DEF IInv
<1> QED
  BY <1>1, Invariance, PTL

\* A task that ended left no lock, no target and no power behind.
THEOREM Quiescence == Spec => []QuiescentWhenIdle
<1>1. IInv => QuiescentWhenIdle
  BY DEF IInv
<1> QED
  BY <1>1, Invariance, PTL

\* In TELEOP what reaches the bus is what the sticks say.
THEOREM SticksObeyed == Spec => []SticksDrive
<1>1. IInv => SticksDrive
  BY DEF IInv
<1> QED
  BY <1>1, Invariance, PTL

\* After a stop() that ran to its end every desired duty cycle is zero.
THEOREM SafeExit == Spec => []ExitIsStopped
<1>1. IInv => ExitIsStopped
  BY DEF IInv, StopProgress, ExitIsStopped
<1> QED
  BY <1>1, Invariance, PTL

\* A held lock keeps everybody but its owner from the motor.
THEOREM Exclusion == Spec => LockProtects
<1> DEFINE Protects ==
      \A m \in Motors, t \in Tasks :
        owner[m] = t /\ owner'[m] = t /\ duty'[m] # duty[m] =>
          pc = t \/ (pc = "pid" /\ owner["pid"] = t)
<1>1. IInv /\ [Next]_vars => [Protects]_vars
  BY LockProtectsStep
<1>2. Spec => [][Protects]_vars
  BY <1>1, Invariance, PTL DEF Spec
<1> QED
  BY <1>2 DEF LockProtects
=============================================================================
