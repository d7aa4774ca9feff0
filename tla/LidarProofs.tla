---------------------------- MODULE LidarProofs -----------------------------
(***************************************************************************)
(* Theorems about Lidar, for every mode and number of scans, wherever a    *)
(* Ctrl-C comes: what stop() leaves in the log file, and that the motor    *)
(* stands still whichever of the two threads cleans up.                    *)
(***************************************************************************)
EXTENDS Lidar, SequenceTheorems, TLAPS

----------------------------------------------------------------------------
(* The inductive invariant                                                 *)

Scans == 1 .. MaxScans

FlagShape ==
  /\ cut \in BOOLEAN /\ running \in BOOLEAN /\ thread \in BOOLEAN /\ streaming \in BOOLEAN
  /\ handle \in BOOLEAN /\ linked \in BOOLEAN /\ motor \in BOOLEAN /\ failed \in BOOLEAN
  /\ logging \in BOOLEAN

PlaceShape ==
  /\ mode \in Modes
  /\ main \in {"start", "log", "on", "stopped", "again", "gone"} \cup Stopping
  /\ listener \in Sockets /\ client \in Sockets
  /\ cleaning \in [Threads -> {"no", "check", "stop", "motor", "disconnect", "clear"}]
  /\ scan \in {"none", "open", "spin", "bind", "accept", "accepting", "accepted",
               "check", "scan", "log", "send", "cleanup", "ended"}
  /\ scan \in {"accept", "accepting", "accepted"} => listener # "none"

LogShape ==
  /\ logData \in Seq(Scans) /\ snapshot \in Seq(Scans)
  /\ file \in Seq(Scans) /\ logged \in Seq(Scans)

Counts ==
  /\ stops \in 0 .. 2 /\ scans \in 0 .. MaxScans
  /\ main \in {"start", "log", "on"} => stops = 0
  /\ main = "again" => stops = 1
  /\ scan = "log" => scans > 0

\* Where the threads are says what start and stop() have done: before the
\* join _thread is there, after it it is not, and then no scan is taken to be
\* logged any more.
Whereabouts ==
  /\ main = "start" => ~running /\ ~thread /\ scan = "none"
  /\ main \in {"log", "on", "streamOff", "streamClose", "join"} => thread
  /\ main \in {"clean", "logTake", "logWrite", "stopped"} => ~thread
  /\ main \in {"start", "log", "on"} => ~cut
  /\ main = "gone" /\ ~cut => ~thread
  /\ running => thread /\ main \in {"log", "on", "again"}
  /\ ~thread => scan # "log"
  /\ cleaning["main"] # "no" => main = "clean"
  /\ cleaning["scan"] # "no" => scan = "cleanup"

\* After stop_logging, and before start_logging, nothing is logged.
LogOn ==
  /\ main \in {"start", "log", "logTake", "logWrite"} => ~logging
  /\ ~thread /\ ~cut /\ main \in {"stopped", "again", "gone"} => ~logging

\* Until a Ctrl-C leaves something undone, what went to the log is in the
\* file, then in the snapshot, then in the buffer.
LogKept ==
  /\ main \in {"start", "log"} => logged = <<>> /\ file = <<>>
  /\ ~cut => /\ logged = file \o (snapshot \o logData)
             /\ main # "logWrite" => snapshot = <<>>
             /\ ~logging /\ main # "logTake" => logData = <<>>

\* Unless the device refused a call, whoever has the handle has a motor to
\* stop, and no thread gives up handle or port before the motor stands.
MotorHeld ==
  /\ scan \in {"none", "open"} => /\ ~handle /\ ~linked /\ ~motor /\ ~failed
                                  /\ cleaning["main"] \in {"no", "check"}
  /\ failed \/ /\ motor => handle /\ linked
               /\ \A t \in Threads : cleaning[t] \in {"disconnect", "clear"} => ~motor
               /\ scan = "ended" => ~motor
               /\ scan = "cleanup" /\ cleaning["scan"] = "no" => ~motor
               /\ ~thread /\ ~cut /\ scan = "send"
                    => ~motor \/ (main = "clean" /\ cleaning["main"] # "no")

LidarInv ==
  /\ FlagShape /\ PlaceShape /\ LogShape /\ Counts
  /\ Whereabouts /\ LogOn /\ LogKept /\ MotorHeld

LEMMA ThreadFacts ==
  /\ "main" \in Threads /\ "scan" \in Threads /\ "main" # "scan"
  /\ \A t \in Threads : t = "main" \/ t = "scan"
BY DEF Threads

LEMMA ConcatAppend ==
  ASSUME NEW S, NEW s \in Seq(S), NEW t \in Seq(S), NEW e \in S
  PROVE  s \o Append(t, e) = Append(s \o t, e)
<1>1. <<e>> \in Seq(S)
  OBVIOUS
<1>2. s \o (t \o <<e>>) = (s \o t) \o <<e>>
  BY <1>1, ConcatAssociative
<1> QED  BY <1>2, AppendIsConcat, ConcatProperties

\* What is appended to the last of three goes to the end of them all.
LEMMA AppendLast ==
  ASSUME NEW a \in Seq(Scans), NEW b \in Seq(Scans), NEW c \in Seq(Scans), NEW e \in Scans
  PROVE  a \o (b \o Append(c, e)) = Append(a \o (b \o c), e)
<1>1. b \o c \in Seq(Scans)
  BY ConcatProperties
<1>2. b \o Append(c, e) = Append(b \o c, e)
  BY ConcatAppend
<1>3. a \o Append(b \o c, e) = Append(a \o (b \o c), e)
  BY <1>1, ConcatAppend
<1> QED  BY <1>2, <1>3

LEMMA InitLidarInv == LidarInit => LidarInv
<1> SUFFICES ASSUME LidarInit PROVE LidarInv
  OBVIOUS
<1>1. <<>> \in Seq(Scans) /\ 0 \in 0 .. MaxScans
  BY EmptySeq, LidarAssumption
<1>2. FlagShape /\ PlaceShape
  BY DEF LidarInit, FlagShape, PlaceShape, Sockets
<1>3. LogShape
  BY <1>1 DEF LidarInit, LogShape
<1>4. Counts
  BY <1>1 DEF LidarInit, Counts
<1>5. Whereabouts /\ LogOn
  BY ThreadFacts DEF LidarInit, Whereabouts, LogOn
<1>6. LogKept
  <2>1. <<>> \o (<<>> \o <<>>) = <<>>
    BY <1>1, ConcatEmptySeq
  <2> QED  BY <2>1 DEF LidarInit, LogKept
<1>7. MotorHeld
  BY DEF LidarInit, MotorHeld, Threads
<1> QED  BY <1>2, <1>3, <1>4, <1>5, <1>6, <1>7 DEF LidarInv

----------------------------------------------------------------------------
(* The main thread's steps                                                 *)

\* What a step leaves alone.
LEMMA SameParts ==
  ASSUME LidarInv
  PROVE  /\ UNCHANGED log => LogShape'
         /\ UNCHANGED <<device, cleaning, scan>>
              /\ (~thread' /\ ~cut' => ~thread /\ ~cut)
              /\ (main = "clean" /\ cleaning["main"] # "no" => main' = "clean")
              => MotorHeld'
<1>1. ASSUME UNCHANGED log PROVE LogShape'
  BY <1>1 DEF LidarInv, LogShape, log
<1>2. ASSUME UNCHANGED <<device, cleaning, scan>>, ~thread' /\ ~cut' => ~thread /\ ~cut,
             main = "clean" /\ cleaning["main"] # "no" => main' = "clean"
      PROVE  MotorHeld'
  BY <1>2 DEF LidarInv, MotorHeld, device
<1> QED  BY <1>1, <1>2

LEMMA StartInv == LidarInv /\ Start => LidarInv'
<1> SUFFICES ASSUME LidarInv, Start PROVE LidarInv'
  OBVIOUS
<1>1. /\ main = "start" /\ main' = "log" /\ running' = TRUE /\ thread' = TRUE
      /\ streaming' \in BOOLEAN /\ scan' = "open"
      /\ UNCHANGED <<mode, stops, cut, listener, client, device, cleaning, scans, log>>
  BY DEF Start
<1>2. FlagShape' /\ PlaceShape'
  BY <1>1 DEF LidarInv, FlagShape, PlaceShape, device, log
<1>3. Counts'
  BY <1>1 DEF LidarInv, Counts
<1>4. Whereabouts' /\ LogOn'
  BY <1>1 DEF LidarInv, Whereabouts, LogOn, log
<1>5. LogKept'
  BY <1>1 DEF LidarInv, LogKept, log
<1>6. MotorHeld'
  BY <1>1 DEF LidarInv, Whereabouts, MotorHeld, device
<1> QED  BY <1>1, <1>2, <1>3, <1>4, <1>5, <1>6, SameParts DEF LidarInv

LEMMA StartLoggingInv == LidarInv /\ StartLogging => LidarInv'
<1> SUFFICES ASSUME LidarInv, StartLogging PROVE LidarInv'
  OBVIOUS
<1>1. /\ main = "log" /\ main' = "on" /\ logData' = <<>> /\ logging' \in BOOLEAN
      /\ UNCHANGED <<mode, stops, cut, flags, stream, device, cleaning, scanner,
                     snapshot, file, logged>>
  BY DEF StartLogging
<1>2. UNCHANGED <<running, thread, streaming, listener, client, handle, linked, motor,
                  failed, scan, scans>>
  BY <1>1 DEF flags, stream, device, scanner
<1>3. FlagShape' /\ PlaceShape'
  BY <1>1, <1>2 DEF LidarInv, FlagShape, PlaceShape
<1>4. LogShape'
  BY <1>1, EmptySeq DEF LidarInv, LogShape
<1>5. Counts'
  BY <1>1, <1>2 DEF LidarInv, Counts
<1>6. Whereabouts' /\ LogOn'
  BY <1>1, <1>2 DEF LidarInv, Whereabouts, LogOn
<1>7. LogKept'
  <2>1. logData = <<>>
    BY <1>1 DEF LidarInv, Whereabouts, LogOn, LogKept
  <2> QED  BY <1>1, <2>1 DEF LidarInv, LogKept
<1>8. MotorHeld'
  BY <1>1, <1>2, SameParts
<1> QED  BY <1>3, <1>4, <1>5, <1>6, <1>7, <1>8 DEF LidarInv

LEMMA StopBeginsInv == LidarInv /\ StopBegins => LidarInv'
<1> SUFFICES ASSUME LidarInv, StopBegins PROVE LidarInv'
  OBVIOUS
<1>1. /\ main \in {"on", "again"} /\ stops' = stops + 1 /\ running' = FALSE
      /\ main' = IF running \/ thread THEN "streamOff" ELSE "stopped"
      /\ UNCHANGED <<mode, cut, thread, stream, device, cleaning, scanner, log>>
  BY DEF StopBegins
<1>2. UNCHANGED <<streaming, listener, client, handle, linked, motor, failed, scan, scans,
                  logging, logData, snapshot, file, logged>>
  BY <1>1 DEF stream, device, scanner, log
<1>3. \/ thread /\ main' = "streamOff"
      \/ ~thread /\ main' = "stopped" /\ main = "again"
  BY <1>1 DEF LidarInv, Whereabouts
<1>4. FlagShape' /\ PlaceShape'
  <2>1. FlagShape'
    BY <1>1, <1>2 DEF LidarInv, FlagShape
  <2>2. main' \in {"stopped"} \cup Stopping
    BY <1>3 DEF Stopping
  <2>3. PlaceShape'
    BY <1>1, <1>2, <2>2 DEF LidarInv, PlaceShape
  <2> QED  BY <2>1, <2>3
<1>5. Counts'
  BY <1>1, <1>2, <1>3 DEF LidarInv, Counts
<1>6. Whereabouts' /\ LogOn'
  BY <1>1, <1>2, <1>3 DEF LidarInv, Whereabouts, LogOn
<1>7. LogKept'
  BY <1>1, <1>2, <1>3 DEF LidarInv, LogKept
<1>8. MotorHeld'
  BY <1>1, <1>2, SameParts
<1> QED  BY <1>1, <1>4, <1>5, <1>6, <1>7, <1>8, SameParts DEF LidarInv

LEMMA StreamStopInv == LidarInv /\ (StreamOff \/ StreamClose) => LidarInv'
<1> SUFFICES ASSUME LidarInv, StreamOff \/ StreamClose PROVE LidarInv'
  OBVIOUS
<1>1. /\ main \in {"streamOff", "streamClose"} /\ main' \in {"streamClose", "join"}
      /\ UNCHANGED <<mode, stops, cut, flags, device, cleaning, scanner, log>>
  BY DEF StreamOff, StreamClose
<1>2. UNCHANGED <<running, thread, handle, linked, motor, failed, scan, scans,
                  logging, logData, snapshot, file, logged>>
  BY <1>1 DEF flags, device, scanner, log
<1>3. /\ streaming' \in BOOLEAN /\ listener' \in Sockets /\ client' \in Sockets
      /\ listener # "none" => listener' # "none"
  BY DEF LidarInv, FlagShape, PlaceShape, StreamOff, StreamClose, Sockets
<1>4. FlagShape' /\ PlaceShape'
  BY <1>1, <1>2, <1>3 DEF LidarInv, FlagShape, PlaceShape, Stopping
<1>5. Counts'
  BY <1>1, <1>2 DEF LidarInv, Counts
<1>6. Whereabouts' /\ LogOn'
  BY <1>1, <1>2 DEF LidarInv, Whereabouts, LogOn
<1>7. LogKept'
  BY <1>1, <1>2 DEF LidarInv, LogKept
<1>8. MotorHeld'
  BY <1>1, <1>2, SameParts
<1> QED  BY <1>1, <1>4, <1>5, <1>6, <1>7, <1>8, SameParts DEF LidarInv

LEMMA JoinInv == LidarInv /\ Join => LidarInv'
<1> SUFFICES ASSUME LidarInv, Join PROVE LidarInv'
  OBVIOUS
<1>1. /\ main = "join" /\ main' = "clean" /\ scan \in {"ended", "open", "send"}
      /\ thread' = FALSE /\ cleaning' = [cleaning EXCEPT !["main"] = "check"]
      /\ UNCHANGED <<mode, stops, cut, running, stream, device, scanner, log>>
  BY DEF Join
<1>2. UNCHANGED <<streaming, listener, client, handle, linked, motor, failed, scan, scans,
                  logging, logData, snapshot, file, logged>>
  BY <1>1 DEF stream, device, scanner, log
<1>3. /\ cleaning' \in [Threads -> {"no", "check", "stop", "motor", "disconnect", "clear"}]
      /\ cleaning'["main"] = "check" /\ cleaning'["scan"] = cleaning["scan"]
  BY <1>1, ThreadFacts DEF LidarInv, PlaceShape
<1>4. FlagShape' /\ PlaceShape'
  BY <1>1, <1>2, <1>3, ZenonT(60) DEF LidarInv, FlagShape, PlaceShape, Stopping
<1>5. Counts'
  BY <1>1, <1>2 DEF LidarInv, Counts
<1>6. Whereabouts' /\ LogOn'
  <2>1. Whereabouts'
    BY <1>1, <1>2, <1>3 DEF LidarInv, Whereabouts
  <2>2. LogOn'
    BY <1>1, <1>2 DEF LidarInv, LogOn
  <2> QED  BY <2>1, <2>2
<1>7. LogKept'
  BY <1>1, <1>2 DEF LidarInv, LogKept
<1>8. MotorHeld'
  BY <1>1, <1>2, <1>3, ThreadFacts DEF LidarInv, MotorHeld
<1> QED  BY <1>1, <1>4, <1>5, <1>6, <1>7, <1>8, SameParts DEF LidarInv

LEMMA LogOffInv == LidarInv /\ LogOff => LidarInv'
<1> SUFFICES ASSUME LidarInv, LogOff PROVE LidarInv'
  OBVIOUS
<1>1. /\ main = "clean" /\ cleaning["main"] = "no" /\ logging' = FALSE
      /\ main' = IF logging THEN "logTake" ELSE "stopped"
      /\ UNCHANGED <<mode, stops, cut, flags, stream, device, cleaning, scanner,
                     logData, snapshot, file, logged>>
  BY DEF LogOff
<1>2. UNCHANGED <<running, thread, streaming, listener, client, handle, linked, motor,
                  failed, scan, scans>>
  BY <1>1 DEF flags, stream, device, scanner
<1>3. main' = "logTake" \/ (main' = "stopped" /\ ~logging)
  BY <1>1
<1>4. FlagShape'
  BY <1>1, <1>2 DEF LidarInv, FlagShape
<1>5. PlaceShape'
  BY <1>1, <1>2, <1>3 DEF LidarInv, PlaceShape, Stopping
<1>6. LogShape' /\ Counts'
  BY <1>1, <1>2, <1>3 DEF LidarInv, LogShape, Counts
<1>7. Whereabouts' /\ LogOn'
  <2>1. Whereabouts'
    BY <1>1, <1>2, <1>3 DEF LidarInv, Whereabouts
  <2>2. LogOn'
    BY <1>1, <1>2, <1>3 DEF LidarInv, LogOn
  <2> QED  BY <2>1, <2>2
<1>8. LogKept'
  BY <1>1, <1>2, <1>3 DEF LidarInv, LogKept
<1>9. MotorHeld'
  BY <1>1, <1>2, SameParts
<1> QED  BY <1>4, <1>5, <1>6, <1>7, <1>8, <1>9 DEF LidarInv

\* The snapshot is taken, then written: the scans move on, in their order.
LEMMA LogSaveInv == LidarInv /\ (LogTake \/ LogWrite) => LidarInv'
<1> SUFFICES ASSUME LidarInv, LogTake \/ LogWrite PROVE LidarInv'
  OBVIOUS
<1>1. /\ main \in {"logTake", "logWrite"} /\ main' \in {"logWrite", "stopped"}
      /\ UNCHANGED <<mode, stops, cut, flags, stream, device, cleaning, scanner,
                     logging, logged>>
  BY DEF LogTake, LogWrite
<1>2. UNCHANGED <<running, thread, streaming, listener, client, handle, linked, motor,
                  failed, scan, scans>>
  BY <1>1 DEF flags, stream, device, scanner
<1>3. /\ logData \in Seq(Scans) /\ snapshot \in Seq(Scans)
      /\ file \in Seq(Scans) /\ logged \in Seq(Scans) /\ <<>> \in Seq(Scans)
  BY EmptySeq DEF LidarInv, LogShape
<1>4. FlagShape' /\ PlaceShape'
  BY <1>1, <1>2 DEF LidarInv, FlagShape, PlaceShape, Stopping
<1>5. LogShape'
  BY <1>1, <1>3, ConcatProperties DEF LogShape, LogTake, LogWrite
<1>6. Counts'
  BY <1>1, <1>2 DEF LidarInv, Counts
<1>7. Whereabouts' /\ LogOn'
  <2>1. Whereabouts'
    BY <1>1, <1>2 DEF LidarInv, Whereabouts
  <2>2. LogOn'
    BY <1>1, <1>2 DEF LidarInv, LogOn
  <2> QED  BY <2>1, <2>2
<1>8. LogKept'
  <2>1. ~cut => logged = file \o (snapshot \o logData)
    BY DEF LidarInv, LogKept
  <2>2. CASE LogTake
    <3>1. ~cut => snapshot = <<>>
      BY <2>2 DEF LogTake, LidarInv, LogKept
    <3>2. <<>> \o logData = logData /\ logData \o <<>> = logData
      BY <1>3, ConcatEmptySeq
    <3>3. snapshot' = logData /\ logData' = <<>> /\ main' = "logWrite" /\ file' = file
      BY <2>2 DEF LogTake
    <3> QED  BY <1>1, <2>1, <3>1, <3>2, <3>3 DEF LogKept
  <2>3. CASE LogWrite
    <3>1. ~cut => logData = <<>>
      BY <2>3 DEF LogWrite, LidarInv, LogOn, LogKept
    <3>2. /\ file \o snapshot \in Seq(Scans)
          /\ snapshot \o <<>> = snapshot /\ <<>> \o <<>> = <<>>
      BY <1>3, ConcatEmptySeq, ConcatProperties
    <3>3. (file \o snapshot) \o <<>> = file \o snapshot
      BY <3>2, ConcatEmptySeq
    <3>4. snapshot' = <<>> /\ logData' = logData /\ main' = "stopped"
          /\ file' = file \o snapshot
      BY <2>3 DEF LogWrite
    <3> QED  BY <1>1, <2>1, <3>1, <3>2, <3>3, <3>4 DEF LogKept
  <2> QED  BY <2>2, <2>3
<1>9. MotorHeld'
  BY <1>1, <1>2, SameParts
<1> QED  BY <1>4, <1>5, <1>6, <1>7, <1>8, <1>9 DEF LidarInv

LEMMA InterruptInv == LidarInv /\ Interrupt => LidarInv'
<1> SUFFICES ASSUME LidarInv, Interrupt PROVE LidarInv'
  OBVIOUS
<1>1. /\ main \in Stopping \cup {"on", "stopped"}
      /\ main' = IF stops < 2 THEN "again" ELSE "gone"
      /\ stops' = IF stops = 0 THEN 1 ELSE stops
      /\ cut' = (cut \/ (main \in Stopping /\ (stops = 2 \/ ~thread)))
      /\ cleaning' = [cleaning EXCEPT !["main"] = "no"]
      /\ UNCHANGED <<mode, flags, stream, device, scanner, log>>
  BY DEF Interrupt
<1>2. UNCHANGED <<running, thread, streaming, listener, client, handle, linked, motor,
                  failed, scan, scans, logging, logData, snapshot, file, logged>>
  BY <1>1 DEF flags, stream, device, scanner, log
<1>3. /\ cleaning' \in [Threads -> {"no", "check", "stop", "motor", "disconnect", "clear"}]
      /\ cleaning'["main"] = "no" /\ cleaning'["scan"] = cleaning["scan"]
  BY <1>1, ThreadFacts DEF LidarInv, PlaceShape
<1>4. main' \in {"again", "gone"} /\ (main = "on" => main' = "again")
  BY <1>1 DEF LidarInv, Counts
<1>5. main' = "gone" => stops = 2
  BY <1>1 DEF LidarInv, Counts
\* Unless it cuts something off for good, the Ctrl-C comes while the robot
\* runs, before the join of the first stop(), or after a stop() has returned.
<1>6. ~cut' => /\ ~cut /\ main \notin {"clean", "logTake", "logWrite"}
               /\ ~thread \/ main' = "gone" => main = "stopped"
  <2>1. ~cut' => ~cut /\ (main \in Stopping => thread /\ stops # 2)
    BY <1>1
  <2>2. /\ main \in {"clean", "logTake", "logWrite"} => ~thread
        /\ main = "on" => thread
    BY DEF LidarInv, Whereabouts
  <2>3. main \in Stopping \cup {"on", "stopped"}
    BY <1>1
  <2> QED  BY <1>4, <1>5, <2>1, <2>2, <2>3 DEF Stopping
<1>7. FlagShape'
  <2>1. cut' \in BOOLEAN
    BY <1>1
  <2> QED  BY <1>2, <2>1 DEF LidarInv, FlagShape
<1>8. PlaceShape' /\ LogShape'
  BY <1>1, <1>2, <1>3, <1>4 DEF LidarInv, PlaceShape, LogShape
<1>9. Counts'
  BY <1>1, <1>2, <1>4 DEF LidarInv, Counts
<1>10. Whereabouts' /\ LogOn'
  <2>1. main = "stopped" => ~thread
    BY DEF LidarInv, Whereabouts
  <2>2. running => main = "on"
    BY <1>1 DEF LidarInv, Whereabouts, Stopping
  <2>3. Whereabouts'
    BY <1>2, <1>3, <1>4, <1>6, <2>1, <2>2 DEF LidarInv, Whereabouts
  <2>4. LogOn'
    BY <1>2, <1>4, <1>6, <2>1 DEF LidarInv, LogOn
  <2> QED  BY <2>3, <2>4
<1>11. LogKept'
  BY <1>2, <1>4, <1>6 DEF LidarInv, LogKept
<1>12. MotorHeld'
  <2>1. \A t \in Threads : cleaning'[t] \in {"disconnect", "clear"} => cleaning'[t] = cleaning[t]
    BY <1>3, ThreadFacts
  <2>2. ~thread /\ ~cut' => ~cut /\ main = "stopped"
    BY <1>6
  <2> QED  BY <1>2, <1>3, <2>1, <2>2 DEF LidarInv, MotorHeld
<1> QED  BY <1>7, <1>8, <1>9, <1>10, <1>11, <1>12 DEF LidarInv

LEMMA ReturnInv == LidarInv /\ Return => LidarInv'
<1> SUFFICES ASSUME LidarInv, Return PROVE LidarInv'
  OBVIOUS
<1>1. /\ main = "stopped" /\ main' = IF stops = 1 THEN "again" ELSE "gone"
      /\ UNCHANGED <<mode, stops, cut, flags, stream, device, cleaning, scanner, log>>
  BY DEF Return
<1>2. UNCHANGED <<running, thread, streaming, listener, client, handle, linked, motor,
                  failed, scan, scans, logging, logData, snapshot, file, logged>>
  BY <1>1 DEF flags, stream, device, scanner, log
<1>3. main' \in {"again", "gone"}
  BY <1>1
<1>4. FlagShape' /\ PlaceShape' /\ LogShape'
  BY <1>1, <1>2, <1>3 DEF LidarInv, FlagShape, PlaceShape, LogShape
<1>5. Counts'
  BY <1>1, <1>2 DEF LidarInv, Counts
<1>6. Whereabouts' /\ LogOn'
  <2>1. Whereabouts'
    BY <1>1, <1>2, <1>3 DEF LidarInv, Whereabouts
  <2>2. LogOn'
    BY <1>1, <1>2, <1>3 DEF LidarInv, Whereabouts, LogOn
  <2> QED  BY <2>1, <2>2
<1>7. LogKept'
  BY <1>1, <1>2, <1>3 DEF LidarInv, LogKept
<1>8. MotorHeld'
  BY <1>1, <1>2, SameParts
<1> QED  BY <1>4, <1>5, <1>6, <1>7, <1>8 DEF LidarInv

----------------------------------------------------------------------------
(* _cleanup_hardware                                                       *)

\* A call to the device succeeds, or raises: on a device that is there, then
\* failed is set, else its motor stands already.
LEMMA CallFacts ==
  ASSUME LidarInv, NEW t \in Threads, NEW next, Calls(t, next), cleaning[t] \in {"stop", "motor"}
  PROVE  /\ scan \notin {"none", "open"}
         /\ failed' \in BOOLEAN
         /\ \/ handle /\ linked /\ failed' = failed
               /\ cleaning' = [cleaning EXCEPT ![t] = next]
            \/ /\ ~failed' => ~failed /\ ~motor
               /\ cleaning' = [cleaning EXCEPT ![t] = "clear"]
<1>1. scan \notin {"none", "open"}
  <2>1. CASE t = "main"
    BY <2>1 DEF LidarInv, MotorHeld
  <2>2. CASE t = "scan"
    BY <2>2 DEF LidarInv, Whereabouts
  <2> QED  BY <2>1, <2>2, ThreadFacts
<1>2. handle \in BOOLEAN /\ linked \in BOOLEAN /\ failed \in BOOLEAN /\ motor \in BOOLEAN
  BY DEF LidarInv, FlagShape
<1>3. ~failed => (motor => handle /\ linked)
  BY DEF LidarInv, MotorHeld
<1>4. CASE handle /\ linked /\ cleaning' = [cleaning EXCEPT ![t] = next] /\ UNCHANGED failed
  BY <1>1, <1>2, <1>4
<1>5. CASE cleaning' = [cleaning EXCEPT ![t] = "clear"] /\ failed' = (failed \/ (handle /\ linked))
  BY <1>1, <1>2, <1>3, <1>5
<1> QED  BY <1>4, <1>5 DEF Calls

\* What the steps of a clean-up have in common.
LEMMA CleaningInv ==
  ASSUME LidarInv, NEW t \in Threads, cleaning[t] # "no",
         NEW c \in {"no", "stop", "motor", "disconnect", "clear"},
         cleaning' = [cleaning EXCEPT ![t] = c],
         UNCHANGED <<mode, caller, flags, stream, scanner, log>>,
         handle' \in BOOLEAN, linked' \in BOOLEAN, motor' \in BOOLEAN, failed' \in BOOLEAN,
         scan \in {"none", "open"} => UNCHANGED device /\ c = "no",
         failed' \/ /\ ~failed /\ (motor' => motor) /\ (motor' => handle' /\ linked')
                    /\ c \in {"disconnect", "clear", "no"} => ~motor'
  PROVE  LidarInv'
<1>1. UNCHANGED <<main, stops, cut, running, thread, streaming, listener, client, scan, scans,
                  logging, logData, snapshot, file, logged>>
  BY DEF caller, flags, stream, scanner, log
<1>2. /\ cleaning' \in [Threads -> {"no", "check", "stop", "motor", "disconnect", "clear"}]
      /\ cleaning'[t] = c /\ \A u \in Threads : u # t => cleaning'[u] = cleaning[u]
  BY DEF LidarInv, PlaceShape
<1>3. FlagShape' /\ PlaceShape' /\ LogShape'
  BY <1>1, <1>2 DEF LidarInv, FlagShape, PlaceShape, LogShape
<1>4. Counts'
  BY <1>1 DEF LidarInv, Counts
<1>5. Whereabouts' /\ LogOn'
  <2>1. \A u \in Threads : cleaning'[u] # "no" => cleaning[u] # "no"
    BY <1>2
  <2>2. Whereabouts'
    BY <1>1, <2>1, ThreadFacts DEF LidarInv, Whereabouts
  <2>3. LogOn'
    BY <1>1 DEF LidarInv, LogOn
  <2> QED  BY <2>2, <2>3
<1>6. LogKept'
  BY <1>1 DEF LidarInv, LogKept
<1>7. MotorHeld'
  <2>1. scan \in {"none", "open"} => /\ ~handle' /\ ~linked' /\ ~motor' /\ ~failed'
                                     /\ cleaning'["main"] \in {"no", "check"}
    BY <1>2, ThreadFacts DEF LidarInv, MotorHeld, device
  <2>2. ASSUME ~failed' PROVE /\ motor' => handle' /\ linked'
                              /\ \A u \in Threads : cleaning'[u] \in {"disconnect", "clear"} => ~motor'
                              /\ scan = "ended" => ~motor'
    BY <1>2, <2>2 DEF LidarInv, MotorHeld
  <2>3. ASSUME ~failed', scan = "cleanup", cleaning'["scan"] = "no" PROVE ~motor'
    BY <1>2, <2>3, ThreadFacts DEF LidarInv, MotorHeld
  <2>4. ASSUME ~failed', ~thread, ~cut, scan = "send", motor'
        PROVE  main = "clean" /\ cleaning'["main"] # "no"
    <3>1. t = "main" => main = "clean"
      BY DEF LidarInv, Whereabouts
    <3>2. motor /\ ~failed /\ c # "no"
      BY <2>4
    <3>3. main = "clean" /\ cleaning["main"] # "no"
      BY <2>4, <3>2 DEF LidarInv, MotorHeld
    <3> QED  BY <1>2, <3>2, <3>3, ThreadFacts
  <2> QED  BY <1>1, <2>1, <2>2, <2>3, <2>4 DEF MotorHeld
<1> QED  BY <1>3, <1>4, <1>5, <1>6, <1>7 DEF LidarInv

LEMMA CleanupInv ==
  ASSUME LidarInv, NEW t \in Threads, CleanupStep(t)
  PROVE  LidarInv'
<1>1. handle \in BOOLEAN /\ linked \in BOOLEAN /\ motor \in BOOLEAN /\ failed \in BOOLEAN
  BY DEF LidarInv, FlagShape
<1>2. failed \/ /\ motor => handle /\ linked
                /\ cleaning[t] \in {"disconnect", "clear"} => ~motor
  BY DEF LidarInv, MotorHeld
<1>3. scan \in {"none", "open"} => ~handle /\ cleaning[t] \in {"no", "check"}
  <2>1. CASE t = "main"
    BY <2>1 DEF LidarInv, MotorHeld
  <2>2. CASE t = "scan"
    BY <2>2 DEF LidarInv, Whereabouts, MotorHeld
  <2> QED  BY <2>1, <2>2, ThreadFacts
<1>4. /\ UNCHANGED <<mode, caller, flags, stream, scanner, log>>
      /\ cleaning[t] \in {"check", "stop", "motor", "disconnect", "clear"}
  BY DEF CleanupStep, CheckHandle, StopDevice, StopMotor, Disconnect, ClearHandle
<1>5. CASE CheckHandle(t)
  <2> DEFINE c == IF handle THEN "stop" ELSE "no"
  <2>1. cleaning' = [cleaning EXCEPT ![t] = c] /\ UNCHANGED <<handle, linked, motor, failed>>
        /\ UNCHANGED device
    BY <1>5 DEF CheckHandle, device
  <2>2. /\ c \in {"no", "stop"} /\ (c = "no" <=> ~handle)
    OBVIOUS
  <2> HIDE DEF c
  <2> QED  BY <1>1, <1>2, <1>3, <1>4, <2>1, <2>2, CleaningInv
<1>6. CASE StopDevice(t)
  <2>1. /\ cleaning[t] = "stop" /\ Calls(t, "motor")
        /\ UNCHANGED <<handle, linked, motor>>
    BY <1>6 DEF StopDevice
  <2>2. /\ scan \notin {"none", "open"} /\ failed' \in BOOLEAN
        /\ \/ handle /\ linked /\ failed' = failed
              /\ cleaning' = [cleaning EXCEPT ![t] = "motor"]
           \/ /\ ~failed' => ~failed /\ ~motor
              /\ cleaning' = [cleaning EXCEPT ![t] = "clear"]
    BY <2>1, CallFacts
  <2>3. CASE cleaning' = [cleaning EXCEPT ![t] = "motor"] /\ handle /\ linked /\ failed' = failed
    BY <1>1, <1>2, <1>4, <2>1, <2>2, <2>3, CleaningInv
  <2>4. CASE cleaning' = [cleaning EXCEPT ![t] = "clear"] /\ (~failed' => ~failed /\ ~motor)
    BY <1>1, <1>4, <2>1, <2>2, <2>4, CleaningInv
  <2> QED  BY <2>2, <2>3, <2>4
<1>7. CASE StopMotor(t)
  <2>1. /\ cleaning[t] = "motor" /\ Calls(t, "disconnect") /\ UNCHANGED <<handle, linked>>
        /\ motor' = (motor /\ cleaning'[t] # "disconnect")
    BY <1>7 DEF StopMotor
  <2>2. /\ scan \notin {"none", "open"} /\ failed' \in BOOLEAN
        /\ \/ handle /\ linked /\ failed' = failed
              /\ cleaning' = [cleaning EXCEPT ![t] = "disconnect"]
           \/ /\ ~failed' => ~failed /\ ~motor
              /\ cleaning' = [cleaning EXCEPT ![t] = "clear"]
    BY <2>1, CallFacts
  <2>3. motor' \in BOOLEAN /\ (motor' => motor)
    BY <1>1, <2>1
  <2>4. CASE cleaning' = [cleaning EXCEPT ![t] = "disconnect"] /\ failed' = failed
    <3>1. cleaning'[t] = "disconnect"
      BY <2>4 DEF LidarInv, PlaceShape
    <3>2. ~motor'
      BY <2>1, <3>1
    <3> QED  BY <1>1, <1>4, <2>1, <2>2, <2>3, <2>4, <3>2, CleaningInv
  <2>5. CASE cleaning' = [cleaning EXCEPT ![t] = "clear"] /\ (~failed' => ~failed /\ ~motor)
    BY <1>1, <1>4, <2>1, <2>2, <2>3, <2>5, CleaningInv
  <2> QED  BY <2>2, <2>4, <2>5
<1>8. CASE Disconnect(t)
  <2>1. /\ cleaning[t] = "disconnect" /\ cleaning' = [cleaning EXCEPT ![t] = "clear"]
        /\ UNCHANGED <<handle, motor>>
        /\ \/ linked' = FALSE /\ failed' = failed
           \/ failed' = (failed \/ (handle /\ linked)) /\ linked' = linked
    BY <1>8 DEF Disconnect
  <2>2. linked' \in BOOLEAN /\ failed' \in BOOLEAN /\ (failed => failed')
    BY <1>1, <2>1
  <2>3. failed' \/ (~failed /\ ~motor)
    BY <1>2, <2>1, <2>2
  <2>4. scan \notin {"none", "open"}
    BY <1>3, <2>1
  <2> QED  BY <1>1, <1>4, <2>1, <2>2, <2>3, <2>4, CleaningInv
<1>9. CASE ClearHandle(t)
  <2>1. /\ cleaning[t] = "clear" /\ cleaning' = [cleaning EXCEPT ![t] = "no"]
        /\ handle' = FALSE /\ UNCHANGED <<linked, motor, failed>>
    BY <1>9 DEF ClearHandle
  <2>2. scan \notin {"none", "open"}
    BY <1>3, <2>1
  <2> QED  BY <1>1, <1>2, <1>4, <2>1, <2>2, CleaningInv
<1> QED  BY <1>5, <1>6, <1>7, <1>8, <1>9 DEF CleanupStep

----------------------------------------------------------------------------
(* The scan thread's steps                                                 *)

\* The thread goes on: to its end when it has cleaned up, to the log while
\* the lidar runs, to a send only before the join.
LEMMA GoesOn ==
  ASSUME LidarInv, scan # "none",
         NEW pc \in {"bind", "accept", "accepting", "accepted", "check", "scan", "log", "send",
                     "cleanup", "ended"}, GoTo(pc),
         UNCHANGED <<mode, caller, flags, streaming, device, logging>>,
         listener' \in Sockets, client' \in Sockets,
         pc \in {"accept", "accepting", "accepted"} => listener' # "none",
         scans' \in 0 .. MaxScans, pc = "log" => running /\ scans' > 0,
         pc = "send" => thread,
         IF pc = "ended" THEN cleaning["scan"] = "no" /\ scan = "cleanup" ELSE scan # "cleanup"
  PROVE  FlagShape' /\ PlaceShape' /\ Counts' /\ Whereabouts' /\ LogOn' /\ MotorHeld'
<1>1. UNCHANGED <<main, stops, cut, running, thread, handle, linked, motor, failed>>
  BY DEF caller, flags, device
<1>2. /\ scan' = pc
      /\ cleaning' = [cleaning EXCEPT !["scan"] = IF pc = "cleanup" THEN "check" ELSE @]
      /\ cleaning \in [Threads -> {"no", "check", "stop", "motor", "disconnect", "clear"}]
  BY DEF GoTo, LidarInv, PlaceShape
<1>3. /\ cleaning' \in [Threads -> {"no", "check", "stop", "motor", "disconnect", "clear"}]
      /\ cleaning'["main"] = cleaning["main"]
      /\ cleaning'["scan"] = IF pc = "cleanup" THEN "check" ELSE cleaning["scan"]
  BY <1>2, ThreadFacts
<1>4. pc # "cleanup" => cleaning["scan"] = "no"
  BY DEF LidarInv, Whereabouts
<1>5. FlagShape'
  BY <1>1 DEF LidarInv, FlagShape
<1>6. PlaceShape'
  BY <1>1, <1>2, <1>3 DEF LidarInv, PlaceShape
<1>7. Counts'
  BY <1>1, <1>2 DEF LidarInv, Counts
<1>8. Whereabouts'
  <2>1. main # "start" /\ (pc = "log" => thread)
    BY DEF LidarInv, Whereabouts
  <2>2. cleaning'["scan"] # "no" => pc = "cleanup"
    BY <1>3, <1>4
  <2> QED  BY <1>1, <1>2, <1>3, <2>1, <2>2 DEF LidarInv, Whereabouts
<1>9. LogOn'
  BY <1>1 DEF LidarInv, LogOn
<1>10. MotorHeld'
  <2>1. \A t \in Threads : cleaning'[t] \in {"disconnect", "clear"} => cleaning[t] = cleaning'[t]
    BY <1>3, ThreadFacts
  <2>2. failed \/ /\ motor => handle /\ linked
                  /\ \A t \in Threads : cleaning[t] \in {"disconnect", "clear"} => ~motor
                  /\ scan = "cleanup" /\ cleaning["scan"] = "no" => ~motor
    BY DEF LidarInv, MotorHeld
  <2>3. ~failed => (pc = "ended" => ~motor)
    BY <2>2
  <2>4. pc = "cleanup" => cleaning'["scan"] # "no"
    BY <1>3
  <2> QED  BY <1>1, <1>2, <2>1, <2>2, <2>3, <2>4 DEF MotorHeld
<1> QED  BY <1>5, <1>6, <1>7, <1>8, <1>9, <1>10

LEMMA SameLog ==
  ASSUME LidarInv, UNCHANGED <<caller, log>>
  PROVE  LogShape' /\ LogKept'
BY DEF LidarInv, LogShape, LogKept, caller, log

LEMMA OpenInv == LidarInv /\ Open => LidarInv'
<1> SUFFICES ASSUME LidarInv, Open PROVE LidarInv'
  OBVIOUS
<1>1. scan = "open" /\ UNCHANGED <<mode, caller, flags, stream, scans, log>>
  BY DEF Open, Unchanged
<1>2. UNCHANGED <<main, stops, cut, running, thread, streaming, listener, client, logging>>
  BY <1>1 DEF caller, flags, stream, log
<1>3. LogShape' /\ LogKept'
  BY <1>1, SameLog
<1>4. CASE GoTo("cleanup") /\ UNCHANGED device
  <2>1. listener' \in Sockets /\ client' \in Sockets /\ scans' \in 0 .. MaxScans
    BY <1>1, <1>2 DEF LidarInv, PlaceShape, Counts
  <2> QED  BY <1>1, <1>2, <1>3, <1>4, <2>1, GoesOn DEF LidarInv
<1>5. CASE GoTo("spin") /\ handle' = TRUE /\ linked' = TRUE /\ motor' = TRUE /\ failed' = failed
  <2>1. scan' = "spin" /\ cleaning' = cleaning
    BY <1>5 DEF GoTo, LidarInv, PlaceShape
  <2>2. FlagShape' /\ PlaceShape'
    BY <1>1, <1>2, <1>5, <2>1 DEF LidarInv, FlagShape, PlaceShape
  <2>3. Counts'
    BY <1>1, <1>2, <2>1 DEF LidarInv, Counts
  <2>4. Whereabouts' /\ LogOn'
    <3>1. Whereabouts'
      BY <1>1, <1>2, <2>1 DEF LidarInv, Whereabouts
    <3>2. LogOn'
      BY <1>2 DEF LidarInv, LogOn
    <3> QED  BY <3>1, <3>2
  <2>5. MotorHeld'
    <3>1. \A t \in Threads : cleaning[t] \in {"no", "check"}
      BY <1>1, ThreadFacts DEF LidarInv, Whereabouts, MotorHeld
    <3> QED  BY <1>5, <2>1, <3>1 DEF MotorHeld
  <2> QED  BY <1>3, <2>2, <2>3, <2>4, <2>5 DEF LidarInv
<1> QED  BY <1>4, <1>5 DEF Open

\* The steps that only go on, with a socket more at most.
LEMMA StreamingInv ==
  LidarInv /\ (SpinUp \/ Bind \/ AcceptTop \/ Accept \/ Accepted \/ CheckLidar \/ SendFrame \/ Finish)
    => LidarInv'
<1> SUFFICES ASSUME LidarInv,
                    SpinUp \/ Bind \/ AcceptTop \/ Accept \/ Accepted \/ CheckLidar \/ SendFrame \/ Finish
             PROVE  LidarInv'
  OBVIOUS
<1>1. /\ UNCHANGED <<mode, caller, flags, streaming, device, scans, log>>
      /\ UNCHANGED <<logging>>
  BY DEF SpinUp, Bind, AcceptTop, Accept, Accepted, CheckLidar, SendFrame, Finish, Unchanged,
         stream, log
<1>2. LogShape' /\ LogKept'
  BY <1>1, SameLog
<1>3. scans' \in 0 .. MaxScans
  BY <1>1 DEF LidarInv, Counts
<1>4. /\ listener \in Sockets /\ client \in Sockets /\ "open" \in Sockets
      /\ scan \in {"accept", "accepting", "accepted"} => listener # "none"
  BY DEF LidarInv, PlaceShape, Sockets
<1>5. /\ listener' \in Sockets /\ client' \in Sockets
      /\ scan = "bind" \/ scan \in {"accept", "accepting", "accepted"} => listener' # "none"
  BY <1>4 DEF SpinUp, Bind, AcceptTop, Accept, Accepted, CheckLidar, SendFrame, Finish, stream
<1>6. CASE Finish
  BY <1>1, <1>2, <1>3, <1>5, <1>6, GoesOn DEF Finish, LidarInv
<1>7. CASE ~Finish
  <2>1. mode \in {"none", "remote", "local"}
    BY LidarAssumption DEF LidarInv, PlaceShape
  <2>2. /\ scan \in {"spin", "bind", "accept", "accepting", "accepted", "check", "send"}
        /\ \E pc \in {"bind", "accept", "accepting", "accepted", "check", "scan", "cleanup"} :
             /\ GoTo(pc)
             /\ pc \in {"accept", "accepting", "accepted"}
                  => scan = "bind" \/ scan \in {"accept", "accepting", "accepted"}
    BY <1>7, <2>1 DEF SpinUp, Bind, AcceptTop, Accept, Accepted, CheckLidar, SendFrame
  <2>3. PICK pc \in {"bind", "accept", "accepting", "accepted", "check", "scan", "cleanup"} :
          /\ GoTo(pc)
          /\ pc \in {"accept", "accepting", "accepted"}
               => scan = "bind" \/ scan \in {"accept", "accepting", "accepted"}
    BY <2>2
  <2> QED  BY <1>1, <1>2, <1>3, <1>5, <2>2, <2>3, GoesOn DEF LidarInv
<1> QED  BY <1>6, <1>7

LEMMA NextScanInv == LidarInv /\ NextScan => LidarInv'
<1> SUFFICES ASSUME LidarInv, NextScan PROVE LidarInv'
  OBVIOUS
<1>1. scan = "scan" /\ UNCHANGED <<mode, caller, flags, stream, device, log>>
  BY DEF NextScan, Unchanged
<1>2. UNCHANGED <<streaming, logging>> /\ listener' \in Sockets /\ client' \in Sockets
  BY <1>1 DEF LidarInv, PlaceShape, stream, log
<1>3. LogShape' /\ LogKept'
  BY <1>1, SameLog
<1>4. PICK pc \in {"log", "cleanup"} :
        /\ GoTo(pc) /\ scans' \in 0 .. MaxScans /\ (pc = "log" => running /\ scans' > 0)
  <2>1. scans \in 0 .. MaxScans /\ MaxScans \in Nat
    BY LidarAssumption DEF LidarInv, Counts
  <2>2. CASE GoTo("cleanup") /\ scans' = scans
    BY <2>1, <2>2
  <2>3. CASE scans < MaxScans /\ scans' = scans + 1 /\ GoTo(IF running THEN "log" ELSE "cleanup")
    <3>1. scans' \in 0 .. MaxScans /\ scans' > 0
      BY <2>1, <2>3
    <3> QED  BY <2>3, <3>1
  <2> QED  BY <2>2, <2>3 DEF NextScan
<1> QED  BY <1>1, <1>2, <1>3, <1>4, GoesOn DEF LidarInv

\* The scan goes to the end of the buffer and of what went to the log.
LEMMA LogScanInv == LidarInv /\ LogScan => LidarInv'
<1> SUFFICES ASSUME LidarInv, LogScan PROVE LidarInv'
  OBVIOUS
<1>1. /\ scan = "log" /\ UNCHANGED <<mode, caller, flags, stream, device, scans>>
      /\ UNCHANGED <<logging, snapshot, file>>
      /\ logData' = IF logging THEN Append(logData, scans) ELSE logData
      /\ logged' = IF logging THEN Append(logged, scans) ELSE logged
  BY DEF LogScan, Unchanged
<1>2. /\ UNCHANGED streaming /\ listener' \in Sockets /\ client' \in Sockets
      /\ scans' \in 0 .. MaxScans
  BY <1>1 DEF LidarInv, PlaceShape, Counts, stream
<1>3. PICK pc \in {"send", "scan"} : GoTo(pc)
  BY DEF LogScan
<1>4. thread
  BY <1>1 DEF LidarInv, Whereabouts
<1>5. FlagShape' /\ PlaceShape' /\ Counts' /\ Whereabouts' /\ LogOn' /\ MotorHeld'
  BY <1>1, <1>2, <1>3, <1>4, GoesOn
<1>6. /\ logData \in Seq(Scans) /\ snapshot \in Seq(Scans)
      /\ file \in Seq(Scans) /\ logged \in Seq(Scans) /\ scans \in Scans
  BY <1>1, LidarAssumption DEF LidarInv, LogShape, Counts, Scans
<1>7. LogShape'
  BY <1>1, <1>6, AppendProperties DEF LogShape
<1>8. LogKept'
  <2>1. UNCHANGED <<main, stops, cut>> /\ (main \in {"start", "log"} => ~logging)
    BY <1>1 DEF caller, LidarInv, LogOn
  <2>2. CASE ~logging
    BY <1>1, <2>1, <2>2 DEF LidarInv, LogKept
  <2>3. CASE logging
    <3>1. file \o (snapshot \o Append(logData, scans)) = Append(file \o (snapshot \o logData), scans)
      BY <1>6, AppendLast, SMTT(30)
    <3>2. logData' = Append(logData, scans) /\ logged' = Append(logged, scans) /\ logging'
      BY <1>1, <2>3
    <3>3. ~cut => logged = file \o (snapshot \o logData) /\ (main # "logWrite" => snapshot = <<>>)
      BY DEF LidarInv, LogKept
    <3>4. ~cut' => logged' = file' \o (snapshot' \o logData')
      BY <1>1, <2>1, <3>1, <3>2, <3>3
    <3>5. /\ main' \notin {"start", "log"} /\ logging'
          /\ ~cut' => (main' # "logWrite" => snapshot' = <<>>)
      BY <1>1, <2>1, <2>3, <3>2, <3>3
    <3> QED  BY <3>4, <3>5 DEF LogKept
  <2> QED  BY <2>2, <2>3
<1> QED  BY <1>5, <1>7, <1>8 DEF LidarInv

----------------------------------------------------------------------------
(* The theorems                                                            *)

LEMMA StepLidarInv == LidarInv /\ [LidarNext]_lidarVars => LidarInv'
<1> SUFFICES ASSUME LidarInv, [LidarNext]_lidarVars PROVE LidarInv'
  OBVIOUS
<1>1. CASE Main
  <2>1. CASE \/ Start \/ StartLogging \/ StreamOff \/ StreamClose \/ Join
             \/ LogOff \/ LogTake \/ LogWrite
    BY <2>1, StartInv, StartLoggingInv, StreamStopInv, JoinInv, LogOffInv, LogSaveInv
  <2>2. CASE StopBegins
    BY <2>2, StopBeginsInv
  <2>3. CASE CleanupStep("main")
    BY <2>3, CleanupInv, ThreadFacts
  <2> QED  BY <1>1, <2>1, <2>2, <2>3 DEF Main
<1>2. CASE StopBegins \/ Interrupt \/ Return
  BY <1>2, StopBeginsInv, InterruptInv, ReturnInv
<1>3. CASE Scan
  <2>1. CASE \/ SpinUp \/ Bind \/ AcceptTop \/ Accept \/ Accepted \/ CheckLidar \/ Finish
    BY <2>1, StreamingInv
  <2>2. CASE NextScan \/ LogScan
    BY <2>2, NextScanInv, LogScanInv
  <2>3. CASE CleanupStep("scan")
    BY <2>3, CleanupInv, ThreadFacts
  <2> QED  BY <1>3, <2>1, <2>2, <2>3 DEF Scan
<1>4. CASE Open \/ SendFrame
  BY <1>4, OpenInv, StreamingInv
<1>5. CASE UNCHANGED lidarVars
  <2>1. /\ UNCHANGED <<mode, caller, flags, stream, device, cleaning, scanner, log>>
        /\ UNCHANGED <<main, stops, cut, running, thread, streaming, listener, client,
                       handle, linked, motor, failed, scan, scans, logging>>
    BY <1>5 DEF lidarVars, caller, flags, stream, device, scanner, log
  <2>2. LogShape' /\ LogKept' /\ MotorHeld'
    BY <2>1, SameLog, SameParts
  <2>3. FlagShape' /\ PlaceShape'
    BY <2>1 DEF LidarInv, FlagShape, PlaceShape
  <2>4. Counts'
    BY <2>1 DEF LidarInv, Counts
  <2>5. Whereabouts' /\ LogOn'
    <3>1. Whereabouts'
      BY <2>1 DEF LidarInv, Whereabouts
    <3>2. LogOn'
      BY <2>1 DEF LidarInv, LogOn
    <3> QED  BY <3>1, <3>2
  <2> QED  BY <2>2, <2>3, <2>4, <2>5 DEF LidarInv
<1> QED  BY <1>1, <1>2, <1>3, <1>4, <1>5 DEF LidarNext

\* The inductive invariant holds in every state of the two threads.
THEOREM LidarInvariance == LidarSpec => []LidarInv
<1> QED  BY InitLidarInv, StepLidarInv, PTL DEF LidarSpec

LEMMA LidarTyped == LidarInv => LidarTypeOK
<1> SUFFICES ASSUME LidarInv PROVE LidarTypeOK
  OBVIOUS
<1>1. {cut, running, thread, streaming, handle, linked, motor, failed, logging} \subseteq BOOLEAN
  BY DEF LidarInv, FlagShape
<1>2. \A s \in {logData, snapshot, file, logged} : s \in Seq(1 .. MaxScans)
  BY DEF LidarInv, LogShape, Scans
<1>3. stops \in 0 .. 2 /\ scans \in 0 .. MaxScans
  BY DEF LidarInv, Counts
<1> QED  BY <1>1, <1>2, <1>3 DEF LidarInv, PlaceShape, LidarTypeOK

\* Every variable has its type, and there is a listener wherever the scan
\* thread waits at one (perception.py, streaming.py).
THEOREM LidarTypeCorrect == LidarSpec => []LidarTypeOK
<1> QED  BY LidarTyped, LidarInvariance, PTL

\* When stop() has returned and no Ctrl-C cut it off for good, the file holds
\* what went to the log, in order and once (perception.py:185-200, 267-271).
THEOREM LogReachesTheFile == LidarSpec => []LogIsSaved
<1>1. LidarInv => LogIsSaved
  <2> SUFFICES ASSUME LidarInv, main \in {"stopped", "gone"}, ~cut PROVE file = logged
    BY DEF LogIsSaved
  <2>1. ~logging
    BY DEF LidarInv, Whereabouts, LogOn
  <2>2. /\ logged = file \o (snapshot \o logData)
        /\ snapshot = <<>> /\ logData = <<>>
    BY <2>1 DEF LidarInv, LogKept
  <2>3. file \in Seq(Scans) /\ <<>> \in Seq(Scans)
    BY EmptySeq DEF LidarInv, LogShape
  <2>4. <<>> \o <<>> = <<>> /\ file \o <<>> = file
    BY <2>3, ConcatEmptySeq
  <2> QED  BY <2>2, <2>4
<1> QED  BY <1>1, LidarInvariance, PTL

\* Whichever of the two threads cleans up, and in whatever order their steps
\* come, the motor stands at the end (perception.py:227-228, 248-257).
THEOREM MotorIsStopped == LidarSpec => []MotorIsOff
<1>1. LidarInv => MotorIsOff
  <2> SUFFICES ASSUME LidarInv, ~failed,
                      scan = "ended" \/ (main \in {"stopped", "gone"} /\ ~cut /\ scan = "send")
               PROVE  ~motor
    BY DEF MotorIsOff
  <2>1. CASE scan = "ended"
    BY <2>1 DEF LidarInv, MotorHeld
  <2>2. CASE main \in {"stopped", "gone"} /\ ~cut /\ scan = "send"
    <3>1. ~thread
      BY <2>2 DEF LidarInv, Whereabouts
    <3> QED  BY <2>2, <3>1 DEF LidarInv, MotorHeld
  <2> QED  BY <2>1, <2>2
<1> QED  BY <1>1, LidarInvariance, PTL
=============================================================================
