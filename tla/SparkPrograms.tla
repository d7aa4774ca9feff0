--------------------------- MODULE SparkPrograms ---------------------------
(***************************************************************************)
(* The programs of the repository that use the motor layer, as the calls   *)
(* they make: the robot, the earlier run_motor and sparkcan's examples.    *)
(* Loops of these programs are cut to Rounds turns.                        *)
(***************************************************************************)
EXTENDS Integers, Sequences

CONSTANT Rounds

NewCall(m)    == <<[op |-> "new", motor |-> m]>>
InitCall(m)   == <<[op |-> "init", motor |-> m]>>
ResetCall(m)  == <<[op |-> "reset", motor |-> m]>>
DutyCall(m, v) == <<[op |-> "duty", motor |-> m, val |-> v]>>
UpdateCall == <<[op |-> "update"]>>
SetCall(m, n, slot, v) == <<[op |-> "set", motor |-> m, name |-> n, slot |-> slot, val |-> v]>>
GetCall(m, n, slot) == <<[op |-> "get", motor |-> m, name |-> n, slot |-> slot]>>
SendCall(m, cmd, v) == <<[op |-> "send", motor |-> m, cmd |-> cmd, val |-> v]>>

\* body repeated k times, k at most 3.
Repeat(body, k) == (IF k > 0 THEN body ELSE <<>>) \o (IF k > 1 THEN body ELSE <<>>)
                     \o (IF k > 2 THEN body ELSE <<>>)

\* The robot with wheels l and r and auger a: Drivetrain.__init__ initializes
\* and then resets its motors, Auger.__init__ follows; the loop sets duty
\* cycles and updates.
RobotProgram(l, r, a) ==
  InitCall(l) \o InitCall(r) \o ResetCall(l) \o ResetCall(r) \o InitCall(a) \o ResetCall(a)
    \o Repeat(DutyCall(l, 1) \o DutyCall(r, -1) \o DutyCall(a, 1) \o UpdateCall, Rounds)

\* Nine setters and BurnFlash, as run_motor writes them out for a NEO.
Neo(m, countsPerRev) ==
  SetCall(m, "IdleMode", 0, 1) \o SetCall(m, "MotorType", 0, 1) \o SetCall(m, "SensorType", 0, 1)
    \o SetCall(m, "RampRate", 0, 0) \o SetCall(m, "Inverted", 0, 0) \o SetCall(m, "MotorKv", 0, 480)
    \o SetCall(m, "EncoderCountsPerRev", 0, countsPerRev)
    \o SetCall(m, "SmartCurrentFreeLimit", 0, 20) \o SetCall(m, "SmartCurrentStallLimit", 0, 80)
    \o SendCall(m, "BurnFlash", 0)

\* Heartbeat and one control message; the status getters that follow in the
\* programs only read.
Drive(m, cmd, v) == SendCall(m, "Heartbeat", 0) \o SendCall(m, cmd, v)

\* archive/motor_control.cpp, run_motor called Rounds times for one motor:
\* the first call makes and configures it, every call drives it.
RunMotor(m) == NewCall(m) \o Neo(m, 4096) \o Repeat(Drive(m, "DutyCycle", 1), Rounds)

\* examples/control.cpp: a brushed motor m and a NEO Vortex n; both are
\* enabled, then both are driven.
ControlExample(m, n) ==
  NewCall(m) \o NewCall(n)
    \o SetCall(m, "IdleMode", 0, 1) \o SetCall(m, "MotorType", 0, 0) \o SetCall(m, "Inverted", 0, 1)
    \o SendCall(m, "BurnFlash", 0)
    \o SetCall(n, "IdleMode", 0, 1) \o SetCall(n, "MotorType", 0, 1) \o SetCall(n, "SensorType", 0, 1)
    \o SetCall(n, "RampRate", 0, 1) \o SetCall(n, "Inverted", 0, 0) \o SetCall(n, "MotorKv", 0, 565)
    \o SetCall(n, "EncoderCountsPerRev", 0, 7168) \o SetCall(n, "SmartCurrentFreeLimit", 0, 20)
    \o SetCall(n, "SmartCurrentStallLimit", 0, 20) \o SendCall(n, "BurnFlash", 0)
    \o Repeat(SendCall(m, "Heartbeat", 0) \o SendCall(n, "Heartbeat", 0)
                \o SendCall(m, "DutyCycle", 1) \o SendCall(n, "DutyCycle", 1), Rounds)

\* examples/pid.cpp: the gains of slot 0, then a velocity.
PidExample(m) ==
  NewCall(m) \o SetCall(m, "P", 0, 1) \o SetCall(m, "I", 0, 0) \o SetCall(m, "D", 0, 0) \o SetCall(m, "F", 0, 2)
    \o SendCall(m, "BurnFlash", 0) \o Repeat(Drive(m, "Velocity", 200), Rounds)

\* examples/status.cpp.
StatusExample(m) == NewCall(m) \o Repeat(Drive(m, "DutyCycle", 1), Rounds)
=============================================================================
