------------------------------- MODULE Lidar --------------------------------
(***************************************************************************)
(* The lidar of Perception: its scan thread with the stream to a viewer,   *)
(* and the main thread, which starts it, starts its log and stops it, at   *)
(* a SHUTDOWN and again in __main__'s finally clause, with Ctrl-C between  *)
(* any two steps.  Every action is a step of one thread between two places *)
(* where the other can come in.                                            *)
(*                                                                         *)
(* A scan is its number.  The RPLidar object is what the code expects of   *)
(* it: opening it spins the motor up, and calls on a disconnected one      *)
(* raise.                                                                  *)
(***************************************************************************)
EXTENDS Naturals, Sequences

CONSTANTS Modes,      \* the StreamModes the lidar may be configured with
          MaxScans    \* bound: scans until the device falls silent
ASSUME LidarAssumption ==
  Modes \subseteq {"none", "remote", "local"} /\ MaxScans \in Nat

VARIABLES
  mode,        \* mode
  main,        \* where the main thread is
  stops,       \* calls of stop() begun; 1 also when a Ctrl-C skipped the first
  cut,         \* Ctrl-C left something undone that no later stop() does
  running,     \* _running
  thread,      \* _thread is not None
  streaming,   \* stream._running
  listener,    \* stream._server_sock ...
  client,      \* ... and _client_conn: "none", "open" or "closed"
  handle,      \* lidar is not None
  linked,      \* the device's port is open ...
  motor,       \* ... and its motor turns
  failed,      \* a call to stop it has failed
  cleaning,    \* where each thread is in _cleanup_hardware
  scan,        \* where the scan thread is
  scans,       \* how many scans there have been
  logging,     \* _logging
  logData,     \* _log_data
  snapshot,    \* log_snapshot
  file,        \* what the log file holds
  logged       \* history: every scan that went to the log

caller  == <<main, stops, cut>>
flags   == <<running, thread>>
stream  == <<streaming, listener, client>>
device  == <<handle, linked, motor, failed>>
log     == <<logging, logData, snapshot, file, logged>>
scanner == <<scan, scans>>
lidarVars == <<mode, caller, flags, stream, device, cleaning, scanner, log>>

Threads == {"main", "scan"}
Stopping == {"streamOff", "streamClose", "join", "clean", "logOff", "logTake", "logWrite"}
Sockets == {"none", "open", "closed"}

LidarTypeOK ==
  /\ mode \in Modes /\ stops \in 0 .. 2 /\ scans \in 0 .. MaxScans
  /\ main \in {"start", "log", "on", "stopped", "again", "gone"} \cup Stopping
  /\ {cut, running, thread, streaming, handle, linked, motor, failed, logging} \subseteq BOOLEAN
  /\ listener \in Sockets /\ client \in Sockets
  /\ cleaning \in [Threads -> {"no", "check", "stop", "motor", "disconnect", "clear"}]
  /\ scan \in {"none", "open", "spin", "bind", "accept", "accepting", "accepted",
               "check", "scan", "log", "send", "cleanup", "ended"}
  /\ scan \in {"accept", "accepting", "accepted"} => listener # "none"
  /\ \A s \in {logData, snapshot, file, logged} : s \in Seq(1 .. MaxScans)

LidarInit ==
  /\ mode \in Modes
  /\ main = "start" /\ stops = 0 /\ cut = FALSE
  /\ running = FALSE /\ thread = FALSE
  /\ streaming = FALSE /\ listener = "none" /\ client = "none"
  /\ handle = FALSE /\ linked = FALSE /\ motor = FALSE /\ failed = FALSE
  /\ cleaning = [t \in Threads |-> "no"]
  /\ scan = "none" /\ scans = 0
  /\ logging = FALSE /\ logData = <<>> /\ snapshot = <<>> /\ file = <<>> /\ logged = <<>>

----------------------------------------------------------------------------
(* _cleanup_hardware, by either thread                                     *)

\* Thread t goes on in the try block, or to what follows it if the call
\* raises: self.lidar is None by now, its port is closed, or it just fails.
Calls(t, next) ==
  \/ /\ handle /\ linked
     /\ cleaning' = [cleaning EXCEPT ![t] = next]
     /\ UNCHANGED failed
  \/ /\ cleaning' = [cleaning EXCEPT ![t] = "clear"]
     /\ failed' = (failed \/ (handle /\ linked))

\* Faulty variant: the handle is given up before the device is stopped.
CheckHandleClears(t) ==
  /\ cleaning[t] = "check"
  /\ cleaning' = [cleaning EXCEPT ![t] = IF handle THEN "stop" ELSE "no"]
  /\ handle' = FALSE
  /\ UNCHANGED <<mode, caller, flags, stream, linked, motor, failed, scanner, log>>

CheckHandle(t) ==
  /\ cleaning[t] = "check"
  /\ cleaning' = [cleaning EXCEPT ![t] = IF handle THEN "stop" ELSE "no"]
  /\ UNCHANGED <<mode, caller, flags, stream, device, scanner, log>>

StopDevice(t) ==
  /\ cleaning[t] = "stop"
  /\ Calls(t, "motor")
  /\ UNCHANGED <<mode, caller, flags, stream, handle, linked, motor, scanner, log>>

StopMotor(t) ==
  /\ cleaning[t] = "motor"
  /\ Calls(t, "disconnect")
  /\ motor' = (motor /\ cleaning'[t] # "disconnect")
  /\ UNCHANGED <<mode, caller, flags, stream, handle, linked, scanner, log>>

Disconnect(t) ==
  /\ cleaning[t] = "disconnect"
  /\ cleaning' = [cleaning EXCEPT ![t] = "clear"]
  /\ \/ handle /\ linked' = FALSE /\ UNCHANGED failed
     \/ failed' = (failed \/ (handle /\ linked)) /\ UNCHANGED linked
  /\ UNCHANGED <<mode, caller, flags, stream, handle, motor, scanner, log>>

ClearHandle(t) ==
  /\ cleaning[t] = "clear"
  /\ handle' = FALSE
  /\ cleaning' = [cleaning EXCEPT ![t] = "no"]
  /\ UNCHANGED <<mode, caller, flags, stream, linked, motor, failed, scanner, log>>

CleanupStep(t) ==
  CheckHandle(t) \/ StopDevice(t) \/ StopMotor(t) \/ Disconnect(t) \/ ClearHandle(t)

----------------------------------------------------------------------------
(* The main thread                                                         *)

\* Lidar.start, then start_logging if the configuration says so.
Start ==
  /\ main = "start"
  /\ main' = "log"
  /\ running' = TRUE /\ thread' = TRUE
  /\ streaming' = (mode = "remote")
  /\ scan' = "open"
  /\ UNCHANGED <<mode, stops, cut, listener, client, device, cleaning, scans, log>>

StartLogging ==
  /\ main = "log"
  /\ main' = "on"
  /\ logData' = <<>>
  /\ logging' \in BOOLEAN
  /\ UNCHANGED <<mode, stops, cut, flags, stream, device, cleaning, scanner,
                 snapshot, file, logged>>

\* Faulty variant: it returns as soon as _running is false.
StopBeginsIfRunning ==
  /\ main \in {"on", "again"}
  /\ stops' = stops + 1
  /\ main' = IF running THEN "streamOff" ELSE "stopped"
  /\ running' = FALSE
  /\ UNCHANGED <<mode, cut, thread, stream, device, cleaning, scanner, log>>

\* stop() begins, at a SHUTDOWN, and again in the finally clause.
StopBegins ==
  /\ main \in {"on", "again"}
  /\ stops' = stops + 1
  /\ main' = IF running \/ thread THEN "streamOff" ELSE "stopped"
  /\ running' = FALSE
  /\ UNCHANGED <<mode, cut, thread, stream, device, cleaning, scanner, log>>

\* Stream.stop: its own thread is None, so that it joins nothing ...
StreamOff ==
  /\ main = "streamOff"
  /\ streaming' = FALSE
  /\ main' = IF streaming THEN "streamClose" ELSE "join"
  /\ UNCHANGED <<mode, stops, cut, flags, listener, client, device, cleaning, scanner, log>>

\* ... and closes the sockets there are.
StreamClose ==
  /\ main = "streamClose"
  /\ listener' = IF listener = "open" THEN "closed" ELSE listener
  /\ client' = IF client = "open" THEN "closed" ELSE client
  /\ main' = "join"
  /\ UNCHANGED <<mode, stops, cut, flags, streaming, device, cleaning, scanner, log>>

\* Faulty variant: the join has no timeout.
JoinForEver ==
  /\ main = "join" /\ scan = "ended"
  /\ thread' = FALSE
  /\ main' = "clean" /\ cleaning' = [cleaning EXCEPT !["main"] = "check"]
  /\ UNCHANGED <<mode, stops, cut, running, stream, device, scanner, log>>

\* join(timeout=3): only opening the device and sending to a viewer that
\* reads nothing take longer.
Join ==
  /\ main = "join" /\ scan \in {"ended", "open", "send"}
  /\ thread' = FALSE
  /\ main' = "clean" /\ cleaning' = [cleaning EXCEPT !["main"] = "check"]
  /\ UNCHANGED <<mode, stops, cut, running, stream, device, scanner, log>>

\* stop_logging, from its first line to the lock; _cleanup_hardware is done.
LogOff ==
  /\ main = "clean" /\ cleaning["main"] = "no"
  /\ logging' = FALSE
  /\ main' = IF logging THEN "logTake" ELSE "stopped"
  /\ UNCHANGED <<mode, stops, cut, flags, stream, device, cleaning, scanner,
                 logData, snapshot, file, logged>>

\* The buffer is taken, under the lock.
LogTake ==
  /\ main = "logTake"
  /\ snapshot' = logData /\ logData' = <<>>
  /\ main' = "logWrite"
  /\ UNCHANGED <<mode, stops, cut, flags, stream, device, cleaning, scanner,
                 logging, file, logged>>

LogWrite ==
  /\ main = "logWrite"
  /\ file' = file \o snapshot /\ snapshot' = <<>>
  /\ main' = "stopped"
  /\ UNCHANGED <<mode, stops, cut, flags, stream, device, cleaning, scanner,
                 logging, logData, logged>>

\* Ctrl-C.  The finally clause calls stop() once more; if that is interrupted
\* too the process ends.  What stop() had left to do is left undone, for good
\* once _thread is None.
Interrupt ==
  /\ main \in Stopping \cup {"on", "stopped"}
  /\ main' = IF stops < 2 THEN "again" ELSE "gone"
  /\ stops' = IF stops = 0 THEN 1 ELSE stops
  /\ cut' = (cut \/ (main \in Stopping /\ (stops = 2 \/ ~thread)))
  /\ cleaning' = [cleaning EXCEPT !["main"] = "no"]
  /\ UNCHANGED <<mode, flags, stream, device, scanner, log>>

\* The rest of robot.stop(); after the finally clause the process ends, the
\* scan thread (a daemon) with it.
Return ==
  /\ main = "stopped"
  /\ main' = IF stops = 1 THEN "again" ELSE "gone"
  /\ UNCHANGED <<mode, stops, cut, flags, stream, device, cleaning, scanner, log>>

Main ==
  \/ Start \/ StartLogging \/ StreamOff \/ StreamClose \/ Join
  \/ LogOff \/ LogTake \/ LogWrite
  \/ main = "again" /\ StopBegins
  \/ main = "clean" /\ CleanupStep("main")

----------------------------------------------------------------------------
(* The scan thread                                                         *)

\* The thread goes on at pc, or to the finally clause.
GoTo(pc) ==
  /\ scan' = pc
  /\ cleaning' = [cleaning EXCEPT !["scan"] = IF pc = "cleanup" THEN "check" ELSE @]

Unchanged == UNCHANGED <<mode, caller, flags>>

\* RPLidar(port), which raises when there is none.
Open ==
  /\ scan = "open"
  /\ \/ GoTo("spin") /\ handle' = TRUE /\ linked' = TRUE /\ motor' = TRUE /\ UNCHANGED failed
     \/ GoTo("cleanup") /\ UNCHANGED device
  /\ Unchanged /\ UNCHANGED <<stream, scans, log>>

\* One second for the motor; then what the mode needs.
SpinUp ==
  /\ scan = "spin"
  /\ CASE mode = "remote" -> GoTo("bind")
       [] mode = "local"  -> GoTo("check") \/ GoTo("cleanup")
       [] mode = "none"   -> GoTo("check")
  /\ Unchanged /\ UNCHANGED <<stream, device, scans, log>>

\* accept_viewer: the socket is there also if the port cannot be bound.
Bind ==
  /\ scan = "bind"
  /\ listener' = "open"
  /\ (GoTo("accept") \/ GoTo("cleanup"))
  /\ Unchanged /\ UNCHANGED <<streaming, client, device, scans, log>>

\* Faulty variant: only a viewer ends the wait.
AcceptTopForEver ==
  /\ scan = "accept"
  /\ GoTo("accepting")
  /\ Unchanged /\ UNCHANGED <<stream, device, scans, log>>

\* The head of its loop ...
AcceptTop ==
  /\ scan = "accept"
  /\ GoTo(IF streaming THEN "accepting" ELSE "cleanup")
  /\ Unchanged /\ UNCHANGED <<stream, device, scans, log>>

\* ... accept, which times out after a second and raises on a closed socket,
Accept ==
  /\ scan = "accepting"
  /\ IF listener = "open" THEN GoTo("accept") \/ GoTo("accepted") ELSE GoTo("cleanup")
  /\ Unchanged /\ UNCHANGED <<stream, device, scans, log>>

\* and the viewer's connection is stored.
Accepted ==
  /\ scan = "accepted"
  /\ client' = "open"
  /\ GoTo("check")
  /\ Unchanged /\ UNCHANGED <<streaming, listener, device, scans, log>>

\* _scan_loop: is there a lidar?
CheckLidar ==
  /\ scan = "check"
  /\ GoTo(IF handle THEN "scan" ELSE "cleanup")
  /\ Unchanged /\ UNCHANGED <<stream, device, scans, log>>

\* The next scan; the device may always fail.
NextScan ==
  /\ scan = "scan"
  /\ \/ /\ linked /\ scans < MaxScans
        /\ scans' = scans + 1
        /\ GoTo(IF running THEN "log" ELSE "cleanup")
     \/ GoTo("cleanup") /\ UNCHANGED scans
  /\ Unchanged /\ UNCHANGED <<stream, device, log>>

\* _log_scan, under the lock.
LogScan ==
  /\ scan = "log"
  /\ logData' = IF logging THEN Append(logData, scans) ELSE logData
  /\ logged' = IF logging THEN Append(logged, scans) ELSE logged
  /\ GoTo(IF mode = "remote" THEN "send" ELSE "scan")
  /\ Unchanged /\ UNCHANGED <<stream, device, scans, logging, snapshot, file>>

\* send_frame, for as long as the viewer likes; False when it is gone or the
\* socket closed.
SendFrame ==
  /\ scan = "send"
  /\ (client = "open" /\ GoTo("scan")) \/ GoTo("cleanup")
  /\ Unchanged /\ UNCHANGED <<stream, device, scans, log>>

Finish ==
  /\ scan = "cleanup" /\ cleaning["scan"] = "no"
  /\ GoTo("ended")
  /\ Unchanged /\ UNCHANGED <<stream, device, scans, log>>

\* The thread's steps but the two that may take for ever.
Scan ==
  /\ main # "gone"
  /\ \/ SpinUp \/ Bind \/ AcceptTop \/ Accept \/ Accepted
     \/ CheckLidar \/ NextScan \/ LogScan \/ Finish
     \/ CleanupStep("scan")

----------------------------------------------------------------------------
LidarNext ==
  \/ Main \/ (main = "on" /\ StopBegins)
  \/ Interrupt \/ Return
  \/ Scan
  \/ main # "gone" /\ (Open \/ SendFrame)

\* Both threads run; stop() need not be called, nor opening or sending return.
LidarSpec ==
  LidarInit /\ [][LidarNext]_lidarVars /\ WF_lidarVars(Main) /\ WF_lidarVars(Scan)

----------------------------------------------------------------------------
(* Properties                                                              *)

\* When stop() has returned, the file holds every scan that went to the log,
\* in order and once, wherever the scan thread was (perception.py:185-200,
\* 267-271); only a Ctrl-C after the join, or in the second stop(), loses them.
LogIsSaved ==
  main \in {"stopped", "gone"} /\ ~cut => file = logged

\* Whichever threads clean up, in whatever order their steps come, the motor
\* stands still when the scan thread has ended, and when stop() has given up
\* on a viewer that reads nothing, unless the device refused
\* (perception.py:227-228, 248-257).
MotorIsOff ==
  ~failed /\ (scan = "ended" \/ (main \in {"stopped", "gone"} /\ ~cut /\ scan = "send"))
    => ~motor

\* stop() returns, whatever the viewer and the device do
\* (perception.py:164-174): robot.stop() goes on to the server and the motors.
StopReturns == (main \in Stopping) ~> (main \in {"stopped", "gone"})

\* After stop() the scan thread ends, unless it hangs in the device's open or
\* in a send (perception.py:206-240, streaming.py:77-87).
ScanEnds ==
  (main = "stopped") ~> (main = "gone" \/ scan \in {"ended", "open", "send"})
=============================================================================
