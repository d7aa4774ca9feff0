---------------------------- MODULE SparkParams ----------------------------
(***************************************************************************)
(* The SPARK parameters as the driver knows them: the numbers of the       *)
(* Parameter enum, which parameter every setter writes, with which wire    *)
(* type and range, which parameter every getter reads and as what, and the *)
(* arbitration ids of the frames.  No state: SparkBase uses these tables.  *)
(*                                                                         *)
(* A float is an integer here, NotFinite stands for NaN and the            *)
(* infinities, a bool is 0 or 1.                                           *)
(***************************************************************************)
EXTENDS Integers

NotFinite == -1000000

\* The wire types of data[4].
UINT == 1
FLOAT == 2
BOOL == 3

\* enum Parameter, the parameters without slots.
ParameterId ==
  [InputMode |-> 1, MotorType |-> 2, CommAdvance |-> 3, SensorType |-> 4,
   CtrlType |-> 5, IdleMode |-> 6, InputDeadband |-> 7,
   FeedbackSensorPID0 |-> 8, FeedbackSensorPID1 |-> 9, PolePairs |-> 10,
   CurrentChop |-> 11, CurrentChopCycles |-> 12, Inverted |-> 45,
   OutputRatio |-> 46, SerialNumberLow |-> 47, SerialNumberMid |-> 48,
   SerialNumberHigh |-> 49, LimitSwitchFwdPolarity |-> 50,
   LimitSwitchRevPolarity |-> 51, HardLimitFwdEn |-> 52, HardLimitRevEn |-> 53,
   SoftLimitFwdEn |-> 54, SoftLimitRevEn |-> 55, RampRate |-> 56,
   FollowerID |-> 57, FollowerConfig |-> 58, SmartCurrentStallLimit |-> 59,
   SmartCurrentFreeLimit |-> 60, SmartCurrentConfig |-> 61, MotorKv |-> 63,
   MotorR |-> 64, MotorL |-> 65, EncoderCountsPerRev |-> 69,
   EncoderAverageDepth |-> 70, EncoderSampleDelta |-> 71,
   EncoderInverted |-> 72, ClosedLoopVoltageMode |-> 74,
   CompensatedNominalVoltage |-> 75, PositionConversionFactor |-> 112,
   VelocityConversionFactor |-> 113, ClosedLoopRampRate |-> 114,
   SoftLimitFwd |-> 115, SoftLimitRev |-> 116,
   AnalogPositionConversion |-> 119, AnalogVelocityConversion |-> 120,
   AnalogAverageDepth |-> 121, AnalogSensorMode |-> 122,
   AnalogInverted |-> 123, AnalogSampleDelta |-> 124, DataPortConfig |-> 127,
   AltEncoderCountsPerRev |-> 128, AltEncoderAverageDepth |-> 129,
   AltEncoderSampleDelta |-> 130, AltEncoderInverted |-> 131,
   AltEncoderPositionFactor |-> 132, AltEncoderVelocityFactor |-> 133,
   HallSensorSampleRate |-> 136, HallSensorAverageDepth |-> 137,
   DutyCyclePositionFactor |-> 139, DutyCycleVelocityFactor |-> 140,
   DutyCycleInverted |-> 141, DutyCycleAverageDepth |-> 143,
   PositionPIDWrapEnable |-> 149, PositionPIDMinInput |-> 150,
   PositionPIDMaxInput |-> 151, DutyCyclePrescalar |-> 153,
   DutyCycleZeroOffset |-> 154]

\* enum Parameter, kP_0 to kP_3 and so on: the arrays the setters index.
SlotIds ==
  [P |-> <<13, 21, 29, 37>>, I |-> <<14, 22, 30, 38>>, D |-> <<15, 23, 31, 39>>,
   F |-> <<16, 24, 32, 40>>, IZone |-> <<17, 25, 33, 41>>,
   DFilter |-> <<18, 26, 34, 42>>, OutputMin |-> <<19, 27, 35, 43>>,
   OutputMax |-> <<20, 28, 36, 44>>,
   SmartMotionMaxVelocity |-> <<76, 81, 86, 91>>,
   SmartMotionMaxAccel |-> <<77, 82, 87, 92>>,
   SmartMotionMinVelOutput |-> <<78, 83, 88, 93>>,
   SmartMotionAllowedClosedLoopError |-> <<79, 84, 89, 94>>,
   SmartMotionAccelStrategy |-> <<80, 85, 90, 95>>,
   IMaxAccum |-> <<96, 100, 104, 108>>,
   Slot3Placeholder1 |-> <<97, 101, 105, 109>>,
   Slot3Placeholder2 |-> <<98, 102, 106, 110>>,
   Slot3Placeholder3 |-> <<99, 103, 107, 111>>]

----------------------------------------------------------------------------
(* Setters: [name, type of the argument, range given to SetParameter]      *)

Unbounded == <<>>
Plain(type, names) == {[name |-> n, type |-> type, range |-> Unbounded] : n \in names}
Ranged(type, n, lo, hi) == {[name |-> n, type |-> type, range |-> <<lo, hi>>]}

\* Basic, Advanced, Closed Loop, Brushless and Current Limit.
BasicSetters ==
  Ranged("u8", "MotorType", 0, 1) \cup Ranged("u8", "SensorType", 0, 2)
  \cup Ranged("u8", "IdleMode", 0, 1) \cup Ranged("u8", "CtrlType", 0, 3)
  \cup Ranged("u8", "ClosedLoopVoltageMode", 0, 2)
  \cup Ranged("float", "CurrentChop", 0, 125)
  \cup Plain("bool", {"Inverted", "PositionPIDWrapEnable"})
  \cup Plain("float", {"InputDeadband", "RampRate", "CompensatedNominalVoltage",
                       "PositionPIDMinInput", "PositionPIDMaxInput"})
  \cup Plain("u16", {"MotorKv", "MotorR", "MotorL", "FeedbackSensorPID0", "PolePairs",
                     "CurrentChopCycles", "SmartCurrentStallLimit",
                     "SmartCurrentFreeLimit", "SmartCurrentConfig"})

\* PIDF, by slot.
PIDFSetters ==
  Plain("float", {"P", "I", "D", "F", "IZone", "DFilter", "OutputMin", "OutputMax"})

\* Limits and Follower.
LimitSetters ==
  Plain("bool", {"HardLimitFwdEn", "HardLimitRevEn", "LimitSwitchFwdPolarity",
                 "LimitSwitchRevPolarity", "SoftLimitFwdEn", "SoftLimitRevEn"})
  \cup Plain("float", {"SoftLimitFwd", "SoftLimitRev"})
  \cup Plain("u32", {"FollowerID", "FollowerConfig"})

\* Encoder Port.
EncoderSetters ==
  Ranged("u8", "EncoderAverageDepth", 1, 64) \cup Ranged("u8", "EncoderSampleDelta", 1, 255)
  \cup Plain("bool", {"EncoderInverted"})
  \cup Plain("u16", {"EncoderCountsPerRev", "HallSensorAverageDepth"})
  \cup Plain("float", {"PositionConversionFactor", "VelocityConversionFactor",
                       "ClosedLoopRampRate", "HallSensorSampleRate"})

\* Smart Motion, by slot.
MotionSetters ==
  Plain("float", {"SmartMotionMaxVelocity", "SmartMotionMaxAccel", "SmartMotionMinVelOutput",
                  "SmartMotionAllowedClosedLoopError", "SmartMotionAccelStrategy",
                  "IMaxAccum", "Slot3Placeholder1", "Slot3Placeholder2", "Slot3Placeholder3"})

\* Analog Sensor, Alternate Encoder and Duty Cycle Absolute Encoder.
SensorSetters ==
  Ranged("u8", "AnalogSensorMode", 0, 1) \cup Ranged("u8", "DataPortConfig", 0, 1)
  \cup Ranged("u8", "AltEncoderAverageDepth", 1, 64)
  \cup Ranged("u8", "AltEncoderSampleDelta", 1, 255)
  \cup Ranged("u8", "DutyCycleAverageDepth", 0, 7) \cup Ranged("u8", "DutyCyclePrescalar", 0, 71)
  \cup Ranged("float", "DutyCycleZeroOffset", 0, 1)
  \cup Plain("bool", {"AnalogInverted", "AltEncoderInverted", "DutyCycleInverted"})
  \cup Plain("u16", {"AnalogAverageDepth", "AnalogSampleDelta", "AltEncoderCountsPerRev"})
  \cup Plain("float", {"AnalogPositionConversion", "AnalogVelocityConversion",
                       "AltEncoderPositionFactor", "AltEncoderVelocityFactor",
                       "DutyCyclePositionFactor", "DutyCycleVelocityFactor"})

Setters == BasicSetters \cup PIDFSetters \cup LimitSetters \cup EncoderSetters
             \cup MotionSetters \cup SensorSetters

SetterNames == {s.name : s \in Setters}
SetterOf(n) == CHOOSE s \in Setters : s.name = n

\* The values of an argument's type.
Arguments(type) ==
  {v \in Int : /\ type # "float" => v \in Nat
               /\ type = "bool" => v < 2
               /\ type = "u8" => v < 256
               /\ type = "u16" => v < 65536}

\* The parameter setter n writes: an array of four is indexed by the slot.
SetterId(n, slot) ==
  IF n \in DOMAIN SlotIds THEN SlotIds[n][slot + 1] ELSE ParameterId[n]

\* The wire type a setter passes with its argument.
WireType(type) ==
  CASE type = "float" -> FLOAT [] type = "bool" -> BOOL [] OTHER -> UINT

\* std::array::size of the setters and the check of GetPIDParam.
ValidSlot(n, slot) == IF n \in DOMAIN SlotIds THEN slot < 4 ELSE slot = 0

\* Faulty variant: a float is not checked for being finite.
AcceptsAnyFloat(s, v) ==
  s.type = "float" /\ s.range # Unbounded =>
    v \in (s.range[1] .. s.range[2]) \cup {NotFinite}

\* What SetParameter lets through: a float must be finite and in the range;
\* the branch for integers, which takes bools too, looks at neither.
Accepts(s, v) ==
  s.type = "float" =>
    /\ v # NotFinite
    /\ s.range # Unbounded => v \in s.range[1] .. s.range[2]

----------------------------------------------------------------------------
(* Getters: the type each one asks GetParamAs for                          *)

As(type, names) == {[name |-> n, type |-> type] : n \in names}

BasicGetters ==
  As("u8", {"MotorType", "SensorType", "IdleMode", "CtrlType", "ClosedLoopVoltageMode"})
  \cup As("float", {"InputDeadband", "RampRate", "CompensatedNominalVoltage",
                    "PositionPIDMinInput", "PositionPIDMaxInput", "CurrentChop"})
  \cup As("bool", {"Inverted", "PositionPIDWrapEnable"})
  \cup As("u16", {"MotorKv", "MotorR", "MotorL", "FeedbackSensorPID0", "PolePairs",
                  "CurrentChopCycles", "SmartCurrentStallLimit", "SmartCurrentFreeLimit",
                  "SmartCurrentConfig"})

PIDFGetters ==
  As("float", {"P", "I", "D", "F", "IZone", "DFilter", "OutputMin", "OutputMax"})

LimitGetters ==
  As("bool", {"HardLimitFwdEn", "HardLimitRevEn", "LimitSwitchFwdPolarity",
              "LimitSwitchRevPolarity", "SoftLimitFwdEn", "SoftLimitRevEn"})
  \cup As("float", {"SoftLimitFwd", "SoftLimitRev"})
  \cup As("u32", {"FollowerID", "FollowerConfig"})

EncoderGetters ==
  As("u16", {"EncoderCountsPerRev", "HallSensorAverageDepth"})
  \cup As("u8", {"EncoderAverageDepth", "EncoderSampleDelta"})
  \cup As("bool", {"EncoderInverted"})
  \cup As("float", {"PositionConversionFactor", "VelocityConversionFactor",
                    "ClosedLoopRampRate", "HallSensorSampleRate"})

MotionGetters ==
  As("float", {"SmartMotionMaxVelocity", "SmartMotionMaxAccel", "SmartMotionMinVelOutput",
               "SmartMotionAllowedClosedLoopError", "SmartMotionAccelStrategy",
               "IMaxAccum", "Slot3Placeholder1", "Slot3Placeholder2", "Slot3Placeholder3"})

SensorGetters ==
  As("float", {"AnalogPositionConversion", "AnalogVelocityConversion",
               "AltEncoderPositionFactor", "AltEncoderVelocityFactor",
               "DutyCyclePositionFactor", "DutyCycleVelocityFactor", "DutyCycleZeroOffset"})
  \cup As("u16", {"AnalogAverageDepth", "AnalogSampleDelta", "AltEncoderCountsPerRev"})
  \cup As("u8", {"AnalogSensorMode", "DataPortConfig", "AltEncoderAverageDepth",
                 "AltEncoderSampleDelta", "DutyCycleAverageDepth", "DutyCyclePrescalar"})
  \cup As("bool", {"AnalogInverted", "AltEncoderInverted", "DutyCycleInverted"})

Getters == BasicGetters \cup PIDFGetters \cup LimitGetters \cup EncoderGetters
             \cup MotionGetters \cup SensorGetters

GetterNames == {g.name : g \in Getters}
GetterType(n) == (CHOOSE g \in Getters : g.name = n).type

\* The parameter getter n reads: GetPIDParam adds the slot to the number of
\* slot 0, whatever the enum's distance between two slots is.
GetterId(n, slot) ==
  IF n \in DOMAIN SlotIds THEN SlotIds[n][1] + slot ELSE ParameterId[n]

\* GetParamAs: the answer's value as type, 0 for an answer of another wire
\* type; uint8_t and uint16_t keep the low bits.
ConvertTo(type, wire, v) ==
  IF wire # WireType(type) THEN 0
  ELSE CASE type = "u8"  -> v % 256
         [] type = "u16" -> v % 65536
         [] OTHER -> v

----------------------------------------------------------------------------
(* Arbitration ids                                                         *)

\* enum APICommand as <<API class, API index>>.
APICommand ==
  [ClearFaults |-> <<6, 14>>, FactoryDefaults |-> <<7, 4>>, FactoryReset |-> <<7, 5>>,
   Identify |-> <<7, 6>>, Heartbeat |-> <<11, 2>>, BurnFlash |-> <<63, 2>>,
   FirmwareVersion |-> <<9, 8>>,
   Setpoint |-> <<0, 1>>, DutyCycle |-> <<0, 2>>, Velocity |-> <<1, 2>>,
   SmartVelocity |-> <<1, 3>>, Position |-> <<3, 2>>, Voltage |-> <<4, 2>>,
   Current |-> <<4, 3>>, SmartMotion |-> <<5, 2>>,
   Period0 |-> <<6, 0>>, Period1 |-> <<6, 1>>, Period2 |-> <<6, 2>>,
   Period3 |-> <<6, 3>>, Period4 |-> <<6, 4>>]

\* DEVICE_TYPE and MANUFACTURER in front of what the two functions add.
IdPrefix == 2 * 2^24 + 5 * 2^16

\* CreateArbId of a command given by its class and index.
CreateArbId(class, index, device) == IdPrefix + class * 1024 + index * 64 + device

\* Faulty variant: the parameter loses its highest bit.
CreateNarrowArbId(parameter, device) ==
  IdPrefix + 48 * 1024 + (parameter % 128) * 64 + device

\* CreateParamArbId: the parameter runs from the index into the class.
CreateParamArbId(parameter, device) == IdPrefix + 48 * 1024 + parameter * 64 + device

\* The status frames are APICommand::Period0 to Period4.
PeriodId(period, device) == CreateArbId(6, period, device)

\* What a SPARK reads from the id of a frame.
DeviceOf(id)    == id % 64
ParameterOf(id) == (id \div 64) % 256
=============================================================================
