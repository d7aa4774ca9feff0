------------------------------ MODULE MotorsMC ------------------------------
(***************************************************************************)
(* MotorController on small instances: the repository's programs, and for  *)
(* the parameters every pair of a setter and a getter, every value of      *)
(* every setter between two reads, and two setters of one name.            *)
(***************************************************************************)
EXTENDS MotorController, SparkPrograms

\* Period 0 to 2 are those MotorController reads.
MCPeriods == 0 .. 2

\* How many frames of each the SPARKs in S send; the others send none.
Sent(S, n0, n1, n2) ==
  [m \in Motors |-> [p \in MCPeriods |->
     IF m \notin S THEN 0 ELSE IF p = 0 THEN n0 ELSE IF p = 1 THEN n1 ELSE n2]]
Silent == Sent({}, 0, 0, 0)
Scenario(script, sent, bad) == [calls |-> script, frames |-> sent, faults |-> bad]

\* The robot with two wheels and an auger; two wheels; one motor while it
\* fails; calls in other orders.
RobotScenarios ==
  {Scenario(RobotProgram(1, 2, 3), Sent({1, 3}, 0, 0, 1), 0),
   Scenario(InitCall(1) \o InitCall(2) \o ResetCall(1) \o UpdateCall, Sent({1, 2}, 0, 1, 1), 0),
   Scenario(InitCall(2) \o UpdateCall \o ResetCall(2) \o UpdateCall \o ResetCall(1),
            Sent({2}, 1, 2, 2), 0),
   Scenario(UpdateCall \o DutyCall(1, 1), Silent, 0)}
  \cup {Scenario(InitCall(1) \o InitCall(1) \o ResetCall(1) \o InitCall(2) \o DutyCall(1, v)
                    \o UpdateCall \o UpdateCall, Sent({1}, 0, 1, 1), 1) : v \in {1, 2}}

ExampleScenarios ==
  {Scenario(script, Sent({1, 2}, 0, 1, 0), bad) :
     script \in {RunMotor(1), ControlExample(2, 3), PidExample(1), StatusExample(1)},
     bad \in 0 .. 1}

Slots(n) == IF n \in DOMAIN SlotIds THEN 0 .. 3 ELSE {0}
\* A value each type accepts, other than the factory's.
One(n) == LET s == SetterOf(n) IN IF s.range = <<>> /\ s.type # "bool" THEN 7 ELSE 1
\* Values at and over the ranges of the types.
Values(n) ==
  LET t == SetterOf(n).type
  IN CASE t = "bool" -> {0, 1} [] t = "float" -> {-1, 1, 126, NotFinite}
       [] t = "u8" -> {0, 1, 255} [] t = "u16" -> {255, 65535} [] OTHER -> {256, 65536}

\* Only an answer of the getter's wire type can be taken for another's.
Alike(n) == {g \in SetterNames : WireType(SetterOf(g).type) = WireType(SetterOf(n).type)}
PairScenarios ==
  UNION {{Scenario(NewCall(1) \o SetCall(1, n, 0, One(n)) \o GetCall(1, g, 0), Silent, 0)
            : g \in Alike(n)} : n \in SetterNames}
BetweenReads ==
  UNION {{Scenario(NewCall(1) \o GetCall(1, n, 0) \o SetCall(1, n, s, v) \o GetCall(1, n, 0), Silent, 0)
            : v \in Values(n), s \in Slots(n) \cup {4}} : n \in SetterNames}
\* Frames of a second SPARK and a reader on the way of the answers; a failed
\* write; every command; factory settings between two reads, of which the
\* second may get the answer to the first; a second object's new socket with
\* the first one's reader, and a getter.
OtherScenarios ==
  {Scenario(NewCall(1) \o SetCall(1, "MotorR", 0, 5) \o GetCall(1, "MotorR", 0)
              \o GetCall(1, "MotorKv", 0) \o GetCall(1, "Firmware", 0) \o GetCall(1, "P", 4),
            Sent({2}, 0, 1, 0), bad) : bad \in 0 .. 1}
  \cup {Scenario(NewCall(1) \o SetCall(1, "MotorR", 0, 5) \o SendCall(1, cmd, v)
                   \o GetCall(1, "MotorR", 0), Silent, 0)
          : cmd \in PlainCommands \cup ControlCommands \cup PeriodCommands,
            v \in {-2, 0, 1, NotFinite}}
  \cup {Scenario(NewCall(1) \o SetCall(1, "MotorR", 0, 5) \o GetCall(1, "MotorR", 0)
                   \o SendCall(1, "FactoryDefaults", 0) \o GetCall(1, "MotorR", 0), Silent, 0)}
  \cup {Scenario(NewCall(1) \o NewCall(2) \o SetCall(2, "MotorR", 0, 5)
                   \o GetCall(2, "MotorR", 0), Sent({1}, 0, 1, 0), bad) : bad \in 0 .. 1}

\* Slots: what is set in one and read in another, of close numbers.
Slotted == {"P", "I", "SmartMotionMaxVelocity", "IMaxAccum"}
SlotScenarios ==
  {Scenario(NewCall(1) \o SetCall(1, n, s, 7) \o GetCall(1, g, t), Silent, 0)
     : n \in Slotted, g \in Slotted, s \in 0 .. 3, t \in 0 .. 3}

ParameterScenarios == PairScenarios \cup BetweenReads \cup OtherScenarios \cup SlotScenarios
MCScenarios == RobotScenarios \cup ExampleScenarios \cup ParameterScenarios

\* Two motors on one socket.
SharedSocketScenarios ==
  {Scenario(InitCall(1) \o InitCall(2) \o ResetCall(1), Sent({1, 2}, 0, 1, 0), 0)}
=============================================================================
