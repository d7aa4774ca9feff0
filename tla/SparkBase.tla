------------------------------ MODULE SparkBase ------------------------------
(***************************************************************************)
(* The CAN driver: the one socket all SparkBase objects share, the reader  *)
(* thread of each object, the status structures they fill, the frames an   *)
(* object sends and the parameters it reads back, and what the motors'     *)
(* controllers on the bus do with a frame.  The program that calls the     *)
(* driver is in MotorController.                                           *)
(*                                                                         *)
(* A status frame carries a version, counted by the device, in place of    *)
(* its measurements: a higher version was measured later.                  *)
(***************************************************************************)
EXTENDS SparkParams, Sequences, FiniteSets

CONSTANTS Motors,   \* CAN ids of the motors
          Periods,  \* the status frames the devices send
          RxCap     \* frames a socket's receive queue holds

ASSUME SparkBaseAssumption ==
  /\ Motors \subseteq 0 .. 62        \* the constructor's check of deviceId_
  /\ Periods \subseteq 0 .. 4 /\ 0 .. 2 \subseteq Periods   \* MotorController reads 0 to 2
  /\ RxCap \in Nat \ {0}

VARIABLES
  soc,      \* what the static SparkBase::soc_ refers to
  rx,       \* frames received on that socket and not read yet
  blocking, \* the socket has no O_NONBLOCK: a read of it waits for a frame
  former,   \* of each earlier socket the threads still in such a read, if any
  late,     \* those another thread has taken a frame from under, there
  alive,    \* the objects that exist with run_ still set
  thread,   \* the reader thread of each object
  status,   \* period0_ to period4_ of each object
  device,   \* the SPARK of each motor
  answers,  \* its answers on their way to the sockets
  emitted,  \* the version of the last status frame it sent
  faults    \* bus errors that may still happen

sockets == <<soc, rx, blocking>>
threads == <<thread, former, late>>
driver == <<sockets, threads, alive, status, device, answers, emitted, faults>>

\* A frame on the bus: dev is the sender of a status frame, which is known
\* from its id alone and is kept to say what a reader must not mix up.
Frame(id, dev, len, type, val) ==
  [id |-> id, dev |-> dev, len |-> len, type |-> type, val |-> val]

----------------------------------------------------------------------------
(* The frames an object sends                                              *)

\* SetParameter's frame.
ParamFrame(m, n, slot, v) ==
  Frame(CreateParamArbId(SetterId(n, slot), m), m, 5, WireType(SetterOf(n).type), v)

\* The frame of a command or of a control message.
CommandFrame(m, cmd, v) ==
  Frame(CreateArbId(APICommand[cmd][1], APICommand[cmd][2], m), m, 8, 0, v)

\* Heartbeat to ClearStickyFaults: the commands without a value.
PlainCommands ==
  {"Heartbeat", "BurnFlash", "FactoryDefaults", "FactoryReset", "Identify", "ClearFaults"}

\* SetSetpoint to SetSmartMotion: the commands with one.
ControlCommands ==
  {"Setpoint", "DutyCycle", "Velocity", "SmartVelocity", "Position", "Voltage", "Current",
   "SmartMotion"}

\* SetPeriodicStatus0Period to 4: how often a SPARK sends is a choice here.
PeriodCommands == {"Period0", "Period1", "Period2", "Period3", "Period4"}

\* What SendControlMessage lets through: only the duty cycle has a range.
AcceptsControl(cmd, v) ==
  /\ v # NotFinite
  /\ cmd = "DutyCycle" => v \in -1 .. 1

----------------------------------------------------------------------------
(* The SPARK of a motor                                                    *)

Off == [cmd |-> "none", val |-> 0]
Default == [ram |-> <<>>, flash |-> <<>>, output |-> Off]   \* flash: <<what was burnt>>

\* The value of a parameter; 0 stands for what the factory put there.
Stored(ram, i) == IF i \in DOMAIN ram THEN ram[i] ELSE [type |-> UINT, val |-> 0]

\* What the SPARK called d makes of frame f.
After(d, f) ==
  LET i == ParameterOf(f.id)
      is(cmd) == f.id = CreateArbId(APICommand[cmd][1], APICommand[cmd][2], DeviceOf(f.id))
  IN CASE f.len = 5 ->
            [d EXCEPT !.ram = [j \in DOMAIN d.ram \cup {i} |->
                                 IF j = i THEN [type |-> f.type, val |-> f.val]
                                 ELSE d.ram[j]]]
       [] is("BurnFlash") -> [d EXCEPT !.flash = <<d.ram>>]
       [] is("FactoryDefaults") \/ is("FactoryReset") -> [d EXCEPT !.ram = <<>>]
       [] \E cmd \in ControlCommands : is(cmd) ->
            [d EXCEPT !.output =
               [cmd |-> CHOOSE cmd \in ControlCommands : is(cmd), val |-> f.val]]
       [] OTHER -> d

\* The SPARK it is addressed to makes its part of it.
Receives(f) ==
  device' = [m \in Motors |-> IF DeviceOf(f.id) = m THEN After(device[m], f) ELSE device[m]]

\* A frame arrives on the socket, or is dropped when its queue is full.
Arrives(f) == rx' = IF soc = "open" /\ Len(rx) < RxCap THEN Append(rx, f) ELSE rx

\* Faulty variant: the sender's id is not compared.
UpdatesAnyone(m, f) == {p \in Periods : \E k \in Motors : f.id = PeriodId(p, k)}

\* The period whose status structure frame f updates in object m.
Updates(m, f) == {p \in Periods : f.id = PeriodId(p, m)}

\* The threads in W process frame f: each keeps what is its own motor's.
Process(W, f) ==
  status' = [m \in Motors |-> [p \in Periods |->
               IF m \in W /\ p \in Updates(m, f) THEN [dev |-> f.dev, n |-> f.val]
               ELSE status[m][p]]]

\* An earlier socket still gets every frame of the bus, those sent through
\* another one included; one of the threads that wait in a read of it takes
\* the frame and from then on follows soc_.  W are these threads.
Stranded == UNION former
Leave(W) == former' = {S \ W : S \in former} \ {{}}
Wake(W) ==
  /\ \A S \in former : \E k \in S : W \cap S = {k}
  /\ Leave(W)
  /\ late' = late \cup UNION former'
  /\ thread' = [m \in Motors |-> IF m \in W THEN "reading" ELSE thread[m]]

\* A SPARK sends its next status frame of period p ...
EmitStatus(m, p) ==
  LET f == Frame(PeriodId(p, m), m, 8, 0, emitted[m][p] + 1)
  IN /\ emitted' = [emitted EXCEPT ![m][p] = @ + 1]
     /\ Arrives(f)
     /\ \E W \in SUBSET Stranded : Wake(W) /\ Process(W, f)
     /\ UNCHANGED <<soc, blocking, alive, device, answers, faults>>

\* ... or the next answer to a request.
EmitAnswer ==
  /\ answers # <<>>
  /\ answers' = Tail(answers)
  /\ Arrives(Head(answers))
  /\ \E W \in SUBSET Stranded : Wake(W) /\ Process(W, Head(answers))
  /\ UNCHANGED <<soc, blocking, alive, device, emitted, faults>>

----------------------------------------------------------------------------
(* Objects and their reader threads                                        *)

\* The threads in a read that waits for a frame on the socket of soc_.
Waiting == {m \in Motors : thread[m] = "waiting"} \ Stranded

\* soc_ gets a value that refers to another socket, or to none, and the
\* threads that wait in a read of the one before are left with it.  (One that
\* a frame has woken takes it first; nobody can tell.)
Replace(value) ==
  /\ rx = <<>> \/ Waiting = {}
  /\ soc' = value /\ rx' = <<>>
  /\ former' = former \cup ({Waiting} \ {{}})
  /\ UNCHANGED late

\* The constructor: its new socket, which blocks, takes the place of the one
\* before, and the thread is made.
Construct(m) ==
  /\ Replace("open") /\ blocking' = TRUE
  /\ alive' = alive \cup {m}
  /\ thread' = [thread EXCEPT ![m] = "starting"]
  /\ UNCHANGED <<status, device, answers, emitted, faults>>

\* It throws: no socket, no interface or no bind, and soc_ is closed for all.
ConstructFails ==
  /\ faults > 0 /\ faults' = faults - 1
  /\ Replace("closed")
  /\ UNCHANGED <<blocking, alive, thread, status, device, answers, emitted>>

\* The destructor up to join: the shared socket is closed, which wakes nobody.
Destroy(m) ==
  /\ alive' = alive \ {m}
  /\ Replace("closed")
  /\ UNCHANGED <<blocking, thread, status, device, answers, emitted, faults>>


\* ReadPeriodicMessages begins: whatever soc_ refers to by now is made
\* non-blocking, which a read that waits already does not see.
StartThread(m) ==
  /\ thread[m] = "starting"
  /\ thread' = [thread EXCEPT ![m] = "reading"]
  /\ blocking' = FALSE
  /\ UNCHANGED <<soc, rx, former, late, alive, status, device, answers, emitted, faults>>

\* select finds a frame ...
Select(m) ==
  /\ thread[m] = "reading" /\ m \in alive
  /\ soc = "open" /\ rx # <<>>
  /\ thread' = [thread EXCEPT ![m] = "selected"]
  /\ UNCHANGED <<sockets, former, late, alive, status, device, answers, emitted, faults>>

\* Faulty variant: the structures are filled afresh from every frame read.
ReadFrameClears(m) ==
  /\ thread[m] = "selected" \/ m \in Waiting
  /\ soc = "open" /\ rx # <<>>
  /\ rx' = Tail(rx)
  /\ status' = [status EXCEPT ![m] =
                  [p \in Periods |-> IF p \in Updates(m, Head(rx))
                                       THEN [dev |-> Head(rx).dev, n |-> Head(rx).val]
                                       ELSE [dev |-> @[p].dev, n |-> 0]]]
  /\ thread' = [thread EXCEPT ![m] = "reading"]
  /\ UNCHANGED <<soc, blocking, former, late, alive, device, answers, emitted, faults>>

\* ... and read, of the socket soc_ refers to by then, takes the next one: its
\* own motor's status frames are stored, every other frame is gone.
ReadFrame(m) ==
  /\ thread[m] = "selected" \/ m \in Waiting
  /\ soc = "open" /\ rx # <<>>
  /\ rx' = Tail(rx)
  /\ Process({m}, Head(rx))
  /\ thread' = [thread EXCEPT ![m] = "reading"]
  /\ UNCHANGED <<soc, blocking, former, late, alive, device, answers, emitted, faults>>

\* Nothing is left to read: EAGAIN, or a read that waits, while the object
\* whose socket this is has not got as far as StartThread.
ReadNothing(m) ==
  /\ thread[m] = "selected" /\ soc = "open" /\ rx = <<>>
  /\ thread' = [thread EXCEPT ![m] = IF blocking THEN "waiting" ELSE "reading"]
  /\ UNCHANGED <<sockets, former, late, alive, status, device, answers, emitted, faults>>

\* The descriptor is closed: the thread ends for good ...
ReadClosed(m) ==
  /\ thread[m] = "selected" /\ soc # "open"
  /\ thread' = [thread EXCEPT ![m] = "ended"]
  /\ UNCHANGED <<sockets, former, late, alive, status, device, answers, emitted, faults>>

\* ... as it does when the bus fails under it.
ReadFails(m) ==
  /\ \/ thread[m] = "reading" /\ m \in alive /\ soc = "open"
     \/ thread[m] = "selected" /\ soc = "open"
     \/ thread[m] = "waiting"
  /\ faults > 0 /\ faults' = faults - 1
  /\ thread' = [thread EXCEPT ![m] = "ended"]
  /\ Leave({m})
  /\ UNCHANGED <<sockets, late, alive, status, device, answers, emitted>>

\* select returns after at most 20 ms and the thread sees run_ cleared.
ThreadEnds(m) ==
  /\ thread[m] = "reading" /\ m \notin alive
  /\ thread' = [thread EXCEPT ![m] = "ended"]
  /\ UNCHANGED <<sockets, former, late, alive, status, device, answers, emitted, faults>>

\* Which status structure GetDutyCycle, GetFaults ... read, under its lock.
StatusGetter ==
  [DutyCycle |-> 0, Faults |-> 0, StickyFaults |-> 0, IsInverted |-> 0, IdleMode |-> 0,
   IsFollower |-> 0, Velocity |-> 1, Temperature |-> 1, Voltage |-> 1, Current |-> 1,
   Position |-> 2, IAccum |-> 2, AnalogVoltage |-> 3, AnalogVelocity |-> 3,
   AnalogPosition |-> 3, AltEncoderVelocity |-> 4, AltEncoderPosition |-> 4]

Get(m, name) == status[m][StatusGetter[name]].n

----------------------------------------------------------------------------
(* Sending and reading back                                                *)

\* SendCanFrame writes frame f.  Who reads it from an earlier socket has no
\* use for it: only SetPeriodicStatus0Period to 4 send the id of a status
\* frame, see ScenariosAssumption.
Sends(f) ==
  /\ soc = "open"
  /\ Receives(f)
  /\ \E W \in SUBSET Stranded : Wake(W)
  /\ UNCHANGED <<sockets, alive, status, answers, emitted, faults>>

\* It throws: the descriptor is closed, the bus is down or its buffer stayed
\* full for 1000 attempts.
SendFails ==
  /\ \/ soc = "open" /\ faults > 0 /\ faults' = faults - 1
     \/ soc # "open" /\ UNCHANGED faults
  /\ UNCHANGED <<sockets, threads, alive, status, device, answers, emitted>>

\* The id a SPARK answers a request with, and its answer.
FirmwareId(m) == CreateArbId(APICommand["FirmwareVersion"][1], APICommand["FirmwareVersion"][2], m)
Answer(id) ==
  LET m == DeviceOf(id)
      v == IF id = FirmwareId(m) THEN [type |-> 0, val |-> 1]
           ELSE Stored(device[m].ram, ParameterOf(id))
  IN Frame(id, m, 5, v.type, v.val)

\* ReadParameter and ReadFirmwareVersion write their request.
Request(id) ==
  /\ soc = "open"
  /\ answers' = Append(answers, Answer(id))
  /\ \E W \in SUBSET Stranded : Wake(W)
  /\ UNCHANGED <<sockets, alive, status, device, emitted, faults>>

\* The request cannot be written: the getter goes on as without an answer.
RequestFails ==
  /\ faults > 0 /\ faults' = faults - 1
  /\ UNCHANGED <<sockets, threads, alive, status, device, answers, emitted>>

NoAnswer == [type |-> 0, val |-> 0]

\* Faulty variant: the id of what was read is not compared.
AnswerInAny(f, id) == [type |-> f.type, val |-> f.val]

\* What they make of the frame they read: any other frame is no answer.
AnswerIn(f, id) == IF f.id = id THEN [type |-> f.type, val |-> f.val] ELSE NoAnswer

\* After select has found a frame they read one ...
TakeFrame ==
  /\ soc = "open" /\ rx # <<>>
  /\ rx' = Tail(rx)
  /\ UNCHANGED <<soc, blocking, threads, alive, status, device, answers, emitted, faults>>

\* ... or none: a reader thread was faster, or the bus fails.
TakeNothing ==
  \/ rx = <<>> /\ ~blocking /\ UNCHANGED driver
  \/ /\ faults > 0 /\ faults' = faults - 1
     /\ UNCHANGED <<sockets, threads, alive, status, device, answers, emitted>>

DriverInit ==
  /\ soc = "none" /\ rx = <<>> /\ blocking = FALSE /\ former = {} /\ late = {}
  /\ alive = {}
  /\ thread = [m \in Motors |-> "none"]
  /\ status = [m \in Motors |-> [p \in Periods |-> [dev |-> m, n |-> 0]]]
  /\ device = [m \in Motors |-> Default]
  /\ answers = <<>>
  /\ emitted = [m \in Motors |-> [p \in Periods |-> 0]]
=============================================================================
