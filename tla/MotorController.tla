--------------------------- MODULE MotorController ---------------------------
(***************************************************************************)
(* The program above the CAN driver: MotorController with the calls the    *)
(* robot makes, and the direct calls of SparkBase's other users.  All      *)
(* calls come from one thread; between and inside them the reader threads  *)
(* and the SPARKs go on.  A scenario is the sequence of calls a program    *)
(* makes, with what the environment may do meanwhile.                      *)
(***************************************************************************)
EXTENDS SparkBase

CONSTANT Scenarios   \* [calls, frames, faults]

\* Every call some scenario makes.
KnownCalls == UNION {{s.calls[i] : i \in DOMAIN s.calls} : s \in Scenarios}

\* The calls of a program's own SparkBase objects: MotorController keeps its
\* objects to itself.
DirectCalls == {"set", "send", "get"}

\* Calls are of motors, and a motor is MotorController's or the program's own;
\* setters, getters and commands are those of SparkBase, and a setter's
\* argument has the setter's type.  A program that sets the periods of status
\* frames, as none of the repository's does, has one object.
ASSUME ScenariosAssumption ==
  /\ \A s \in Scenarios :
       /\ s.calls \in Seq(KnownCalls)
       /\ s.frames \in [Motors -> [Periods -> Nat]] /\ s.faults \in Nat
       /\ \A i, j \in DOMAIN s.calls :
            s.calls[i].op = "init" /\ s.calls[j].op \in DirectCalls =>
              s.calls[i].motor # s.calls[j].motor
       /\ (\E i \in DOMAIN s.calls :
             s.calls[i].op = "send" /\ s.calls[i].cmd \in PeriodCommands) =>
            \A i, j \in DOMAIN s.calls :
              {s.calls[i].op, s.calls[j].op} \subseteq {"new", "init"} =>
                s.calls[i].motor = s.calls[j].motor
  /\ \A c \in KnownCalls : c.op # "update" => c.motor \in Motors
  /\ \A c \in KnownCalls : c.op = "set" =>
       c.name \in SetterNames /\ c.slot \in Nat /\ c.val \in Arguments(SetterOf(c.name).type)
  /\ \A c \in KnownCalls : c.op = "send" =>
       c.cmd \in PlainCommands \cup ControlCommands \cup PeriodCommands
  /\ \A c \in KnownCalls : c.op = "get" =>
       c.name \in {"Firmware"} \cup GetterNames /\ c.slot \in Nat

VARIABLES
  frames,    \* how many status frames of each period every SPARK sends
  calls,     \* the calls still to make
  pc,        \* where the program is in the first of them
  queue,     \* what is left of it: frames, motors to update or to join
  connected, \* MotorController::connectedMotors
  desired,   \* MotorController::dutyCycles
  offset,    \* MotorController::positionOffsets, as the version of the tick
  feedback,  \* MotorController::motorFeedback
  data,      \* Update's local copy of the first getters
  log,       \* the parameters set and the factory settings asked for so far
  result     \* what the last getter returned

program == <<frames, calls, pc, queue, connected, desired, offset, feedback, data, log, result>>
vars == <<driver, program>>

NoData == [duty |-> 0, velocity |-> 0, position |-> 0, zero |-> 0]
NoFeedback == [duty |-> 0, velocity |-> 0, position |-> 0, zero |-> 0, current |-> 0]
NoResult == [motor |-> 0, name |-> "none", slot |-> 0, val |-> 0]

Init ==
  \E s \in Scenarios :
    /\ DriverInit
    /\ calls = s.calls /\ frames = s.frames /\ faults = s.faults
    /\ pc = "call" /\ queue = <<>>
    /\ connected = {} /\ desired = [m \in Motors |-> 0]
    /\ offset = [m \in Motors |-> 0]
    /\ feedback = [m \in Motors |-> NoFeedback] /\ data = NoData
    /\ log = <<>> /\ result = NoResult

----------------------------------------------------------------------------
(* Calls                                                                   *)

Call == Head(calls)
Begins(op) == pc = "call" /\ calls # <<>> /\ Call.op = op

\* The call returns.
Returns == pc' = "call" /\ calls' = Tail(calls)

\* It throws: no caller catches anything before the program's end.
Throws == pc' = "call" /\ calls' = <<>>

\* Updates the motors in the order of their ids, as std::map has them.
InOrder(S) ==
  CHOOSE s \in [1 .. Cardinality(S) -> S] : \A i, j \in DOMAIN s : i < j => s[i] < s[j]

\* An object is made without a MotorController.
New ==
  /\ Begins("new")
  /\ \/ Construct(Call.motor) /\ Returns
     \/ ConstructFails /\ Throws
  /\ UNCHANGED <<frames, queue, connected, desired, offset, feedback, data, log, result>>

\* InitializeMotor of a motor that is connected only warns ...
InitializeAgain ==
  /\ Begins("init") /\ Call.motor \in connected
  /\ Returns
  /\ UNCHANGED <<driver, frames, queue, connected, desired, offset, feedback, data, log, result>>

\* The fields of MotorConfig in the order InitializeMotor sends them.
MotorConfig ==
  <<<<"IdleMode", 1>>, <<"MotorType", 1>>, <<"SensorType", 1>>, <<"RampRate", 0>>,
    <<"Inverted", 0>>, <<"MotorKv", 480>>, <<"EncoderCountsPerRev", 1>>,
    <<"SmartCurrentFreeLimit", 20>>, <<"SmartCurrentStallLimit", 80>>>>

\* Faulty variant: the parameters are burnt first.
BurnThenConfigure(m) ==
  <<CommandFrame(m, "BurnFlash", 0)>>
    \o [i \in 1 .. 9 |-> ParamFrame(m, MotorConfig[i][1], 0, MotorConfig[i][2])]

ConfigFrames(m) ==
  [i \in 1 .. 9 |-> ParamFrame(m, MotorConfig[i][1], 0, MotorConfig[i][2])]
    \o <<CommandFrame(m, "BurnFlash", 0)>>

\* ... of any other it emplaces the object, from then on connected ...
Emplace ==
  /\ Begins("init") /\ Call.motor \notin connected
  /\ \/ /\ Construct(Call.motor)
        /\ connected' = connected \cup {Call.motor}
        /\ queue' = ConfigFrames(Call.motor)
        /\ pc' = "configure" /\ UNCHANGED calls
     \/ /\ ConstructFails
        /\ Throws /\ UNCHANGED <<connected, queue>>
  /\ UNCHANGED <<frames, desired, offset, feedback, data, log, result>>

\* ... and writes MotorConfig's nine parameters and burns them.
Configure ==
  /\ pc = "configure"
  /\ \/ /\ Sends(Head(queue))
        /\ queue' = Tail(queue)
        /\ IF queue' = <<>> THEN Returns ELSE UNCHANGED <<pc, calls>>
     \/ /\ SendFails
        /\ queue' = <<>>
        /\ Throws
  /\ UNCHANGED <<frames, connected, desired, offset, feedback, data, log, result>>

\* ResetMotorPosition: a motor that is not connected throws.
BeginReset ==
  /\ Begins("reset")
  /\ IF Call.motor \in connected THEN pc' = "wait" /\ UNCHANGED calls ELSE Throws
  /\ UNCHANGED <<driver, frames, queue, connected, desired, offset, feedback, data, log, result>>

\* WaitForFeedback: heartbeats until the voltage is known or 0.5 s are over;
\* ResetMotorPosition goes on in both cases.
WaitForFeedback ==
  /\ pc = "wait"
  /\ Sends(CommandFrame(Call.motor, "Heartbeat", 0))
  /\ pc' = IF Get(Call.motor, "Voltage") > 0 THEN "zero" ELSE "wait"
  /\ UNCHANGED <<frames, calls, queue, connected, desired, offset, feedback, data, log, result>>

WaitTimesOut ==
  /\ pc = "wait"
  /\ pc' = "zero"
  /\ UNCHANGED <<driver, frames, calls, queue, connected, desired, offset, feedback, data, log,
                 result>>

WaitThrows ==
  /\ pc = "wait"
  /\ SendFails
  /\ Throws
  /\ UNCHANGED <<frames, queue, connected, desired, offset, feedback, data, log, result>>

\* The current raw tick becomes the reference.
ZeroPosition ==
  /\ pc = "zero"
  /\ offset' = [offset EXCEPT ![Call.motor] = Get(Call.motor, "Position")]
  /\ Returns
  /\ UNCHANGED <<driver, frames, queue, connected, desired, feedback, data, log, result>>

\* SetMotorDutyCycle stores any number.
SetMotorDutyCycle ==
  /\ Begins("duty")
  /\ IF Call.motor \in connected
       THEN desired' = [desired EXCEPT ![Call.motor] = Call.val] /\ Returns
       ELSE Throws /\ UNCHANGED desired
  /\ UNCHANGED <<driver, frames, queue, connected, offset, feedback, data, log, result>>

----------------------------------------------------------------------------
(* Update                                                                  *)

\* Faulty variant: the last motor is left out.
AllButOne(q) == pc' = (IF Len(q) < 2 THEN "call" ELSE "update")
                /\ calls' = (IF Len(q) < 2 THEN Tail(calls) ELSE calls)

\* Update goes on with the motors in q, or returns.
NextMotor(q) == pc' = (IF q = <<>> THEN "call" ELSE "update")
                /\ calls' = (IF q = <<>> THEN Tail(calls) ELSE calls)

BeginUpdate ==
  /\ Begins("update")
  /\ queue' = InOrder(connected)
  /\ NextMotor(queue')
  /\ UNCHANGED <<driver, frames, connected, desired, offset, feedback, data, log, result>>

\* Heartbeat and SetDutyCycle of the next motor ...
UpdateSends ==
  /\ \/ /\ pc = "update"
        /\ Sends(CommandFrame(Head(queue), "Heartbeat", 0))
        /\ pc' = "drive"
     \/ /\ pc = "drive"
        /\ AcceptsControl("DutyCycle", desired[Head(queue)])
        /\ Sends(CommandFrame(Head(queue), "DutyCycle", desired[Head(queue)]))
        /\ pc' = "collect"
  /\ UNCHANGED <<frames, calls, queue, connected, desired, offset, feedback, data, log, result>>

\* ... which throw for a failed frame, and for a duty cycle out of range.
UpdateThrows ==
  /\ \/ pc \in {"update", "drive"} /\ SendFails
     \/ pc = "drive" /\ ~AcceptsControl("DutyCycle", desired[Head(queue)]) /\ UNCHANGED driver
  /\ queue' = <<>>
  /\ Throws
  /\ UNCHANGED <<frames, connected, desired, offset, feedback, data, log, result>>

\* The getters of the feedback, each under its own lock: the status threads
\* may come between the velocity and the current of one Period1 frame.
Collect ==
  /\ pc = "collect"
  /\ LET m == Head(queue)
     IN data' = [duty |-> Get(m, "DutyCycle"), velocity |-> Get(m, "Velocity"),
                 position |-> Get(m, "Position"), zero |-> offset[m]]
  /\ pc' = "collected"
  /\ UNCHANGED <<driver, frames, calls, queue, connected, desired, offset, feedback, log, result>>

\* Faulty variant: the current is read first.
CollectSwapped ==
  /\ pc = "collected"
  /\ LET m == Head(queue)
     IN feedback' = [feedback EXCEPT ![m] =
          [duty |-> data.duty, velocity |-> Get(m, "Velocity"), position |-> data.position,
           zero |-> data.zero, current |-> data.velocity]]
  /\ queue' = Tail(queue)
  /\ NextMotor(queue')
  /\ UNCHANGED <<driver, frames, connected, desired, offset, data, log, result>>

CollectRest ==
  /\ pc = "collected"
  /\ LET m == Head(queue)
     IN feedback' = [feedback EXCEPT ![m] =
          [duty |-> data.duty, velocity |-> data.velocity, position |-> data.position,
           zero |-> data.zero, current |-> Get(m, "Current")]]
  /\ queue' = Tail(queue)
  /\ NextMotor(queue')
  /\ UNCHANGED <<driver, frames, connected, desired, offset, data, log, result>>
----------------------------------------------------------------------------
(* The driver's parameters and commands                                    *)

Entry(m, name, slot, v) == [motor |-> m, name |-> name, slot |-> slot, val |-> v]

\* A setter: a bad slot and a refused value throw.
Set ==
  /\ Begins("set")
  /\ LET ok == ValidSlot(Call.name, Call.slot) /\ Accepts(SetterOf(Call.name), Call.val)
         f == ParamFrame(Call.motor, Call.name, Call.slot, Call.val)
     IN \/ ok /\ Sends(f) /\ Returns
           /\ log' = Append(log, Entry(Call.motor, Call.name, Call.slot, Call.val))
        \/ ok /\ SendFails /\ Throws /\ UNCHANGED log
        \/ ~ok /\ Throws /\ UNCHANGED <<driver, log>>
  /\ UNCHANGED <<frames, queue, connected, desired, offset, feedback, data, result>>

\* A command, or a control message with its value.
Send ==
  /\ Begins("send")
  /\ LET ok == Call.cmd \in ControlCommands => AcceptsControl(Call.cmd, Call.val)
         f == CommandFrame(Call.motor, Call.cmd, Call.val)
     IN \/ ok /\ Sends(f) /\ Returns
           /\ log' = IF Call.cmd \in {"FactoryDefaults", "FactoryReset"}
                       THEN Append(log, Entry(Call.motor, "factory", 0, 0)) ELSE log
        \/ ok /\ SendFails /\ Throws /\ UNCHANGED log
        \/ ~ok /\ Throws /\ UNCHANGED <<driver, log>>
  /\ UNCHANGED <<frames, queue, connected, desired, offset, feedback, data, result>>

\* The id a getter asks for.
RequestId(c) ==
  IF c.name = "Firmware" THEN FirmwareId(c.motor)
  ELSE CreateParamArbId(GetterId(c.name, c.slot), c.motor)

\* The value a getter returns for an answer.
Got(answer) ==
  result' = [motor |-> Call.motor, name |-> Call.name, slot |-> Call.slot,
             val |-> IF Call.name = "Firmware" THEN answer.val
                     ELSE ConvertTo(GetterType(Call.name), answer.type, answer.val)]

\* A getter of a parameter, or ReadFirmwareVersion: a bad slot throws, a
\* request that cannot be written is no answer.
BeginGet ==
  /\ Begins("get")
  /\ LET ok == Call.name = "Firmware" \/ ValidSlot(Call.name, Call.slot)
     IN \/ ok /\ Request(RequestId(Call)) /\ pc' = "reading" /\ UNCHANGED <<calls, result>>
        \/ ok /\ RequestFails /\ Returns /\ Got(NoAnswer)
        \/ ~ok /\ Throws /\ UNCHANGED <<driver, result>>
  /\ UNCHANGED <<frames, queue, connected, desired, offset, feedback, data, log>>

\* The 20 ms of select are over, or it has found a frame.
AwaitAnswer ==
  /\ pc = "reading"
  /\ IF rx = <<>> THEN Returns /\ Got(NoAnswer)
                  ELSE pc' = "selected" /\ UNCHANGED <<calls, result>>
  /\ UNCHANGED <<driver, frames, queue, connected, desired, offset, feedback, data, log>>

\* It returns what the frame it reads says, or the default ...
EndGet ==
  /\ pc \in {"selected", "hanging"}
  /\ \/ TakeFrame /\ Got(AnswerIn(Head(rx), RequestId(Call)))
     \/ TakeNothing /\ Got(NoAnswer)
  /\ Returns
  /\ UNCHANGED <<frames, queue, connected, desired, offset, feedback, data, log>>

\* ... but waits for a frame when a reader thread was faster and the socket
\* blocks, even if its O_NONBLOCK is set meanwhile.
Hang ==
  /\ pc = "selected" /\ rx = <<>> /\ blocking
  /\ pc' = "hanging"
  /\ UNCHANGED <<driver, frames, calls, queue, connected, desired, offset, feedback, data, log,
                 result>>
----------------------------------------------------------------------------
(* The end of the program                                                  *)

\* The objects are destroyed one by one; each destructor joins its thread.
DestroyMotor ==
  /\ pc = "call" /\ calls = <<>>
  /\ \E m \in alive : Destroy(m) /\ queue' = <<m>>
  /\ pc' = "join"
  /\ UNCHANGED <<frames, calls, connected, desired, offset, feedback, data, log, result>>

Join ==
  /\ pc = "join" /\ thread[Head(queue)] = "ended"
  /\ queue' = <<>> /\ pc' = "call"
  /\ UNCHANGED <<driver, frames, calls, connected, desired, offset, feedback, data, log, result>>

Exit ==
  /\ pc = "call" /\ calls = <<>> /\ alive = {}
  /\ pc' = "exit"
  /\ UNCHANGED <<driver, frames, calls, queue, connected, desired, offset, feedback, data, log,
                 result>>

Program ==
  \/ New \/ InitializeAgain \/ Emplace \/ Configure
  \/ BeginReset \/ WaitForFeedback \/ WaitTimesOut \/ WaitThrows \/ ZeroPosition
  \/ SetMotorDutyCycle \/ BeginUpdate \/ UpdateSends \/ UpdateThrows \/ Collect \/ CollectRest
  \/ Set \/ Send \/ BeginGet \/ AwaitAnswer \/ EndGet \/ Hang
  \/ DestroyMotor \/ Join \/ Exit

\* ReadPeriodicMessages of m, and what may happen to it.
Reads(m) ==
  /\ \/ StartThread(m) \/ Select(m) \/ ReadFrame(m) \/ ReadNothing(m) \/ ReadClosed(m)
     \/ ThreadEnds(m)
  /\ UNCHANGED program
Reader(m) == Reads(m) \/ (ReadFails(m) /\ UNCHANGED program)

Bus ==
  /\ UNCHANGED program
  /\ \/ EmitAnswer
     \/ \E m \in Motors, p \in Periods : emitted[m][p] < frames[m][p] /\ EmitStatus(m, p)

\* A read without a frame to come stops the program: a getter's own, or that
\* of a thread whose destructor joins it.
Hangs == pc = "hanging" \/ (pc = "join" /\ thread[Head(queue)] = "waiting")

Terminated == (pc = "exit" \/ Hangs) /\ UNCHANGED vars

Next == Program \/ (\E m \in Motors : Reader(m)) \/ Bus \/ Terminated

Spec == Init /\ [][Next]_vars

\* The program's calls go on, the 0.5 s of WaitForFeedback pass (all its
\* other steps but an exception change nothing) and the reader threads run:
\* their 20 ms pass too.  The bus owes nothing, so a read that waits for a
\* frame may wait for ever.
Fairness ==
  /\ WF_vars(Program)
  /\ \A m \in Motors : WF_vars(Reads(m))

FairSpec == Spec /\ Fairness

----------------------------------------------------------------------------
(* Properties                                                              *)

Versions == [Periods -> Nat]

TypeOK ==
  /\ soc \in {"none", "open", "closed"}
  /\ \A i \in DOMAIN rx : DeviceOf(rx[i].id) \in Motors
  /\ alive \subseteq Motors /\ connected \subseteq Motors
  /\ thread \in [Motors -> {"none", "starting", "reading", "selected", "waiting", "ended"}]
  /\ blocking \in BOOLEAN /\ former \subseteq SUBSET Motors /\ late \subseteq Motors
  /\ \A m \in Motors, p \in Periods : status[m][p].n \in Nat
  /\ emitted \in [Motors -> Versions] /\ frames \in [Motors -> Versions] /\ faults \in Nat
  /\ pc \in {"call", "configure", "wait", "zero", "update", "drive", "collect", "collected", "reading",
              "selected", "hanging", "join", "exit"}
  /\ offset \in [Motors -> Nat]
  /\ \A m \in Motors :
       /\ device[m].output.val # NotFinite
       /\ \A i \in DOMAIN device[m].ram :
            device[m].ram[i].type \in {UINT, FLOAT, BOOL} /\ device[m].ram[i].val # NotFinite

\* A status structure holds only what its own motor sent, although every
\* thread reads the frames of every motor from one socket.
StatusIsOwn ==
  \A m \in Motors, p \in Periods :
    status[m][p].dev = m /\ status[m][p].n <= emitted[m][p]

\* It never goes back to an older frame: not when a new motor's socket
\* replaces the old one, not while several threads drain it or one is still
\* in a read of the old one.  Exempt are threads that have waited in the same
\* read of an earlier socket as another one (late): a frame that the other
\* took there is read again, after a newer one, from the socket of soc_.
StatusNeverGoesBack ==
  [][\A m \in Motors \ late, p \in Periods : status'[m][p].n >= status[m][p].n]_vars

\* Feedback is put together while threads write.  It may mix two frames of
\* one period, but the later getter never has the older one, and a position
\* is never told relative to a reference that was read after it (but for the
\* threads exempt above).
FeedbackInOrder ==
  \A m \in connected \ late :
    /\ feedback[m].velocity <= feedback[m].current
    /\ feedback[m].zero <= feedback[m].position

\* The motor's SPARK has its desired duty cycle.
Driven(m) == device[m].output = [cmd |-> "DutyCycle", val |-> desired[m]]

\* When Update returns, every connected motor has got its desired duty cycle;
\* when it throws, for a frame that fails or a duty cycle out of range, every
\* one has that it had come to before (MotorController.cpp:139-164).
UpdateSendsAll ==
  [][pc' = "call" /\ pc \in {"update", "drive", "collected"} =>
       \A m \in connected :
         Driven(m)' \/ (pc # "collected" /\ \E i \in DOMAIN queue : queue[i] = m)]_vars

\* InitializeMotor fails half-way for a frame that is not sent, and leaves
\* the motor half configured; what it burnt is never half a configuration.
FlashIsWhole ==
  \A m \in connected : device[m].flash # <<>> =>
    \A i \in DOMAIN MotorConfig :
      Stored(device[m].flash[1], SetterId(MotorConfig[i][1], 0)).val = MotorConfig[i][2]

\* Entry j of the log undoes what entry i set.
Undoes(j, i) ==
  /\ log[j].motor = log[i].motor
  /\ log[j].name = "factory" \/ (log[j].name = log[i].name /\ log[j].slot = log[i].slot)

\* The last value a setter was given for a parameter (and a slot) is what
\* the SPARK has there, with its type: no two setters share a parameter.
SettersKeepApart ==
  \A i \in DOMAIN log :
    log[i].name # "factory" /\ (\A j \in i + 1 .. Len(log) : ~Undoes(j, i)) =>
      Stored(device[log[i].motor].ram, SetterId(log[i].name, log[i].slot))
        = [type |-> WireType(SetterOf(log[i].name).type), val |-> log[i].val]

\* What setters of the same name and slot gave; 0 is the factory's and the
\* default.
Given(r) ==
  {0} \cup {log[i].val : i \in {j \in DOMAIN log :
              log[j].motor = r.motor /\ log[j].name = r.name /\ log[j].slot = r.slot}}

Asked == result.name \notin {"none", "Firmware"}

\* A getter of a parameter without slots, or of slot 0, never returns the
\* value of another parameter, whatever frame it reads first and however late
\* the answers to earlier requests come, those from before factory settings
\* among them.
GetsOwn == Asked /\ result.slot = 0 => result.val \in Given(result)


----------------------------------------------------------------------------
(* The inductive invariant of MotorProofs                                  *)

IsSequence(s) == s \in Seq({s[i] : i \in DOMAIN s})

\* Frame f can be taken for a status frame.
IsStatus(f) == \E p \in Periods, m \in Motors : f.id = PeriodId(p, m)

Shape ==
  /\ emitted \in [Motors -> Versions]
  /\ status \in [Motors -> [Periods -> [dev : Motors, n : Nat]]]
  /\ IsSequence(rx) /\ IsSequence(answers)
  /\ calls \in Seq(KnownCalls)
  /\ pc \notin {"call", "join", "exit"} => calls # <<>>

\* No answer looks like a status frame, and a frame that looks like one of m
\* is of m, measured neither before what m's object has nor after the last.
AnswersApart == \A i \in 1 .. Len(answers) : ~IsStatus(answers[i])
QueuedIsOwn ==
  \A i \in 1 .. Len(rx), p \in Periods, m \in Motors :
    rx[i].id = PeriodId(p, m) =>
      /\ rx[i].dev = m /\ rx[i].val \in Nat /\ rx[i].val <= emitted[m][p]
      /\ m \notin late => status[m][p].n <= rx[i].val

\* A thread left with an earlier socket gets the first frame there is since
\* soc_ was replaced, or another one does.
FormerGetFirst ==
  /\ former \subseteq SUBSET Motors
  /\ Stranded \subseteq late \/ rx = <<>>

\* The frames of one motor and period are queued as they were measured.
QueuedInOrder ==
  \A i, j \in 1 .. Len(rx), p \in Periods, m \in Motors :
    i <= j /\ rx[i].id = PeriodId(p, m) /\ rx[j].id = PeriodId(p, m) =>
      rx[i].val <= rx[j].val

\* A reference position and the data Update holds are not newer than the
\* status structures.
HeldIsOld ==
  /\ offset \in [Motors -> Nat]
  /\ \A m \in Motors \ late : offset[m] <= status[m][2].n
  /\ pc = "collected" /\ Head(queue) \in Motors \ late =>
       /\ data.velocity \in Nat /\ data.velocity <= status[Head(queue)][1].n
       /\ data.position \in Nat /\ data.zero \in Nat /\ data.zero <= data.position

FeedbackShape ==
  /\ DOMAIN feedback = Motors
  /\ \A m \in Motors \ late : feedback[m].velocity <= feedback[m].current
                              /\ feedback[m].zero <= feedback[m].position

DriverInv ==
  Shape /\ AnswersApart /\ StatusIsOwn /\ QueuedIsOwn /\ QueuedInOrder /\ FormerGetFirst
MotorInv == DriverInv /\ HeldIsOld /\ FeedbackShape /\ connected \subseteq Motors

\* A SPARK is a record of three fields; a call that takes several steps is
\* the first one, and of the kind pc says.
DeviceShape ==
  \A m \in Motors :
    device[m] = [ram |-> device[m].ram, flash |-> device[m].flash, output |-> device[m].output]
CallShape ==
  /\ pc = "configure" => Call.op = "init" /\ Call.motor \in connected
  /\ pc = "wait" => Call.op = "reset"
  /\ pc \in {"reading", "selected", "hanging"} =>
       Call.op = "get" /\ (Call.name = "Firmware" \/ ValidSlot(Call.name, Call.slot))
LogShape ==
  /\ IsSequence(log)
  /\ \A k \in 1 .. Len(log) : log[k].name # "factory" =>
       /\ log[k].name \in SetterNames
       /\ log[k].slot \in Nat /\ ValidSlot(log[k].name, log[k].slot)
       /\ log[k].val \in Arguments(SetterOf(log[k].name).type)

\* The motors of MotorController, by a call made or to come.  The program
\* neither calls such a motor itself nor did so before.
Managed ==
  connected \cup {calls[i].motor : i \in {j \in 1 .. Len(calls) : calls[j].op = "init"}}
Apart ==
  /\ \A i \in 1 .. Len(calls) : calls[i].op \in DirectCalls => calls[i].motor \notin Managed
  /\ \A k \in 1 .. Len(log) : log[k].motor \in Motors \ Managed

\* InitializeMotor: the frames left are the last ones, the parameters of the
\* others are set.  What a managed motor has in its flash is all of them.
Configuring ==
  pc = "configure" =>
    /\ IsSequence(queue) /\ Len(queue) \in 1 .. 10
    /\ \A i \in 1 .. Len(queue) : queue[i] = ConfigFrames(Call.motor)[10 - Len(queue) + i]
    /\ \A i \in 1 .. 9 : i + Len(queue) <= 10 =>
         Stored(device[Call.motor].ram, SetterId(MotorConfig[i][1], 0)).val = MotorConfig[i][2]
Whole(m) ==
  \A i \in 1 .. 9 :
    Stored(device[m].flash[1], SetterId(MotorConfig[i][1], 0)).val = MotorConfig[i][2]
Burnt == \A m \in Motors \cap Managed : device[m].flash # <<>> => Whole(m)

\* Update: every motor has got its duty cycle or is still to come.
Updating ==
  pc \in {"update", "drive", "collect", "collected"} =>
    /\ IsSequence(queue) /\ Len(queue) > 0
    /\ \A i \in 1 .. Len(queue) : queue[i] \in connected
    /\ \A m \in connected : Driven(m) \/ \E i \in 1 .. Len(queue) :
         queue[i] = m /\ (pc \in {"collect", "collected"} => i > 1)

\* What setters gave: the motor, the parameter, its type and value.  What a
\* motor of the program's own has, what its answers say, comes from there.
Written ==
  {<<log[k].motor, SetterId(log[k].name, log[k].slot),
     [type |-> WireType(SetterOf(log[k].name).type), val |-> log[k].val]>> :
     k \in {j \in 1 .. Len(log) : log[j].name # "factory"}}
RamIsGiven ==
  \A m \in Motors \ connected : \A p \in DOMAIN device[m].ram :
    <<m, p, device[m].ram[p]>> \in Written
Underway == {answers[i] : i \in 1 .. Len(answers)} \cup {rx[i] : i \in 1 .. Len(rx)}
AnswersAreGiven ==
  /\ \A f \in Underway : DeviceOf(f.id) \in Motors
  /\ \A f \in Underway, m \in Motors \ connected, p \in 0 .. 255 :
       f.id = CreateParamArbId(p, m) =>
         f.val = 0 \/ <<m, p, [type |-> f.type, val |-> f.val]>> \in Written

CallsInv ==
  /\ TypeOK /\ DeviceShape /\ CallShape /\ LogShape /\ Apart
  /\ Configuring /\ Burnt /\ Updating
  /\ SettersKeepApart /\ RamIsGiven /\ AnswersAreGiven /\ GetsOwn

----------------------------------------------------------------------------
(* What the documentation says and the code does not do                    *)

\* SparkBase.hpp: GetP "Get[s] the proportional (P) constant for a given
\* slot", and so do the other getters with a slot.
GetsSlot == Asked => result.val \in Given(result)

\* SparkBase.hpp: a reader thread "Continuously reads periodic status data
\* from the SPARK controller" and "Updates the status structures with the
\* received data": a motor's frame that is read ends in its structure.
NoFrameDiscarded ==
  [][\A k, m \in alive, p \in Periods :
       thread[k] = "selected" /\ rx # <<>> /\ rx' = Tail(rx) /\ thread'[k] = "reading"
         /\ Head(rx).id = PeriodId(p, m)
           => status'[m][p].n = Head(rx).val]_vars
=============================================================================
