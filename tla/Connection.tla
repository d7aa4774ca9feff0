----------------------------- MODULE Connection -----------------------------
(***************************************************************************)
(* The two ends of the TCP protocol of library/protocol.py: mission        *)
(* control's Client and the robot's Server.  Each runs the program that    *)
(* calls _send (from one thread: Control.run, or the robot's dashboard),   *)
(* _receive and stop, a sender, a receiver, an ACK monitor and the         *)
(* dispatch loop of _run; every action is one thread's step between two    *)
(* points where another can come in.                                       *)
(*                                                                         *)
(* A message is its id, a payload is the id of the message that carries    *)
(* it; TCP is a FIFO per direction that is cut off when an end closes.     *)
(***************************************************************************)
EXTENDS Naturals, Sequences, FiniteSets

CONSTANTS Loads,       \* bounds: how many messages the peers send (msgs),
                       \* how many copies their ACK monitors make (copies)
                       \* and _max_seen_ids (window, 1000 in the code)
          Stoppers,    \* the peers whose program may call stop()
          Faults       \* the network may break the connection

Peers == {"client", "server"}
Other(p) == IF p = "client" THEN "server" ELSE "client"

ASSUME ConnectionAssumption ==
  /\ Loads \subseteq [msgs : [Peers -> Nat], copies : [Peers -> Nat],
                     window : Nat \ {0}]
  /\ Stoppers \subseteq Peers
  /\ Faults \in BOOLEAN

VARIABLES
  load,        \* the load of this run, a member of Loads
  running,     \* _running
  connected,   \* connected: the threads have been started
  live,        \* which of the threads that can still deliver have not ended
  nextId,      \* _message_id
  putting,     \* the id that _send has registered and not yet put, or 0
  pending,     \* _pending_acks
  resend,      \* the ACK monitor's to_resend
  copies,      \* how many copies it has made, at most load.copies
  outQ,        \* _output_queue
  wire,        \* bytes written by this end and not yet read by the other
  inQ,         \* _input_queue
  seen,        \* _seen_msg_ids_queue, and _seen_msg_ids as its elements
  got,         \* everything ever put on _data_queue ...
  taken        \* ... and how much of it _receive has returned

life == <<running, connected, live>>
app  == <<nextId, putting, taken>>
acks == <<pending, resend, copies>>
data == <<seen, got>>
steps == <<life, app, acks, data, outQ, wire, inQ>>
vars == <<load, steps>>

Data(i) == [ack |-> FALSE, id |-> i]
Ack(i)  == [ack |-> TRUE, id |-> i]
Messages == [ack : BOOLEAN, id : Nat]
Elements(s) == {s[i] : i \in DOMAIN s}
IsConnected(p) == running[p] /\ connected[p]

TypeOK ==
  /\ running \in [Peers -> BOOLEAN] /\ connected \in [Peers -> BOOLEAN]
  /\ live \in [Peers -> SUBSET {"receiver", "dispatch"}]
  /\ nextId \in [Peers -> Nat] /\ putting \in [Peers -> Nat]
  /\ pending \in [Peers -> SUBSET Nat] /\ resend \in [Peers -> SUBSET Nat]
  /\ copies \in [Peers -> Nat] /\ taken \in [Peers -> Nat]
  /\ outQ \in [Peers -> Seq(Messages)]
  /\ wire \in [Peers -> Seq(Messages)]
  /\ inQ \in [Peers -> Seq(Messages)]
  /\ seen \in [Peers -> Seq(Nat)] /\ got \in [Peers -> Seq(Nat)]
  /\ \A p \in Peers :
       /\ putting[p] <= nextId[p] /\ pending[p] \cup resend[p] \subseteq 1..nextId[p]
       /\ Len(seen[p]) <= load.window /\ taken[p] <= Len(got[p])

Init ==
  /\ load \in Loads
  /\ running = [p \in Peers |-> TRUE]
  /\ connected = [p \in Peers |-> FALSE]
  /\ live = [p \in Peers |-> {}]
  /\ nextId = [p \in Peers |-> 0] /\ putting = [p \in Peers |-> 0]
  /\ pending = [p \in Peers |-> {}] /\ resend = [p \in Peers |-> {}]
  /\ copies = [p \in Peers |-> 0] /\ taken = [p \in Peers |-> 0]
  /\ outQ = [p \in Peers |-> <<>>]
  /\ wire = [p \in Peers |-> <<>>]
  /\ inQ = [p \in Peers |-> <<>>]
  /\ seen = [p \in Peers |-> <<>>] /\ got = [p \in Peers |-> <<>>]

----------------------------------------------------------------------------
(* Starting and stopping                                                   *)

\* Faulty variant: a new connection starts with an empty output queue.
EstablishFlushed(p) ==
  /\ running[p] /\ ~connected[p]
  /\ IF p = "client" THEN running["server"] ELSE connected["client"]
  /\ connected' = [connected EXCEPT ![p] = TRUE]
  /\ live' = [live EXCEPT ![p] = {"receiver", "dispatch"}]
  /\ outQ' = [outQ EXCEPT ![p] = <<>>]
  /\ UNCHANGED <<running, app, acks, data, wire, inQ>>

\* _run once _establish_connection has returned.  The server listens before
\* it accepts, so the client is connected first.
Establish(p) ==
  /\ running[p] /\ ~connected[p]
  /\ IF p = "client" THEN running["server"] ELSE connected["client"]
  /\ connected' = [connected EXCEPT ![p] = TRUE]
  /\ live' = [live EXCEPT ![p] = {"receiver", "dispatch"}]
  /\ UNCHANGED <<running, app, acks, data, outQ, wire, inQ>>

\* The program calls stop().  Mission control does so only on a connection,
\* and from the thread that sends; the robot may give up waiting for READY.
Stop(p) ==
  /\ p \in Stoppers /\ running[p]
  /\ p = "client" => connected[p] /\ putting[p] = 0
  /\ running' = [running EXCEPT ![p] = FALSE]
  /\ UNCHANGED <<connected, live, app, acks, data, outQ, wire, inQ>>

\* A thread that has finished a step looks at _running again.
StillLive(p, thread) ==
  live' = IF running[p] THEN live ELSE [live EXCEPT ![p] = @ \ {thread}]

\* A thread waiting in its loop finds _running cleared.
ThreadEnds(p) ==
  /\ ~running[p]
  /\ \E thread \in live[p] : live' = [live EXCEPT ![p] = @ \ {thread}]
  /\ UNCHANGED <<running, connected, app, acks, data, outQ, wire, inQ>>

----------------------------------------------------------------------------
(* The program's threads: _send in two steps, and _receive                 *)

\* _send takes an id and registers the message for its ACK.  (On a stopped
\* connection it would only fill queues that nobody reads any more.)
Register(p) ==
  /\ running[p] /\ putting[p] = 0 /\ nextId[p] < load.msgs[p]
  /\ p = "client" => connected[p]
  /\ nextId' = [nextId EXCEPT ![p] = @ + 1]
  /\ pending' = [pending EXCEPT ![p] = @ \cup {nextId'[p]}]
  /\ putting' = [putting EXCEPT ![p] = nextId'[p]]
  /\ UNCHANGED <<life, taken, resend, copies, data, outQ, wire, inQ>>

\* ... and then puts it on the output queue.
Put(p) ==
  /\ putting[p] # 0
  /\ outQ' = [outQ EXCEPT ![p] = Append(@, Data(putting[p]))]
  /\ putting' = [putting EXCEPT ![p] = 0]
  /\ UNCHANGED <<life, nextId, taken, acks, data, wire, inQ>>

\* _receive returns the next payload of the data queue.
Receive(p) ==
  /\ taken[p] < Len(got[p])
  /\ taken' = [taken EXCEPT ![p] = @ + 1]
  /\ UNCHANGED <<life, nextId, putting, acks, data, outQ, wire, inQ>>

----------------------------------------------------------------------------
(* The sender and the receiver                                             *)

\* _sender_thread writes the next message.
Write(p) ==
  /\ IsConnected(p) /\ outQ[p] # <<>>
  /\ outQ' = [outQ EXCEPT ![p] = Tail(@)]
  /\ wire' = [wire EXCEPT ![p] = Append(@, Head(outQ[p]))]
  /\ UNCHANGED <<life, app, acks, data, inQ>>

\* The write fails: the message is gone and the sender calls stop().
WriteFails(p) ==
  /\ IsConnected(p) /\ outQ[p] # <<>>
  /\ Faults \/ ~running[Other(p)]
  /\ outQ' = [outQ EXCEPT ![p] = Tail(@)]
  /\ running' = [running EXCEPT ![p] = FALSE]
  /\ UNCHANGED <<connected, live, app, acks, data, wire, inQ>>

\* _receiver_thread reads a line.
ReadLine(p) ==
  /\ "receiver" \in live[p] /\ wire[Other(p)] # <<>>
  /\ inQ' = [inQ EXCEPT ![p] = Append(@, Head(wire[Other(p)]))]
  /\ wire' = [wire EXCEPT ![Other(p)] = Tail(@)]
  /\ StillLive(p, "receiver")
  /\ UNCHANGED <<running, connected, app, acks, data, outQ>>

\* Faulty variant: the receiver ends without calling stop().
ReadEndsQuietly(p) ==
  /\ "receiver" \in live[p] /\ running[p]
  /\ Faults \/ ~running[Other(p)]
  /\ live' = [live EXCEPT ![p] = @ \ {"receiver"}]
  /\ UNCHANGED <<running, connected, app, acks, data, outQ, wire, inQ>>

\* It reads the end of the stream, or an error such as the reset that a
\* close with unread data causes, and calls stop() without waiting for the
\* input queue to be dispatched.
ReadEnds(p) ==
  /\ "receiver" \in live[p] /\ running[p]
  /\ Faults \/ ~running[Other(p)]
  /\ running' = [running EXCEPT ![p] = FALSE]
  /\ live' = [live EXCEPT ![p] = @ \ {"receiver"}]
  /\ UNCHANGED <<connected, app, acks, data, outQ, wire, inQ>>

----------------------------------------------------------------------------
(* The dispatch loop                                                       *)

\* Faulty variant: no id ever leaves.
RememberAll(s, i) == Append(s, i)

\* Faulty variant: the window is one id short.
RememberOneLess(s, i) ==
  IF Len(s) + 1 >= load.window THEN Tail(Append(s, i)) ELSE Append(s, i)

\* The id joins the window; beyond its size the oldest leaves it.
Remember(s, i) ==
  IF Len(s) + 1 > load.window THEN Tail(Append(s, i)) ELSE Append(s, i)

DispatchAck(p, i) ==
  /\ pending' = [pending EXCEPT ![p] = @ \ {i}]
  /\ UNCHANGED <<resend, copies, data, outQ>>

\* Faulty variant: duplicates are not recognised.
DispatchEvery(p, i) ==
  /\ seen' = [seen EXCEPT ![p] = Remember(@, i)]
  /\ got' = [got EXCEPT ![p] = Append(@, i)]
  /\ outQ' = [outQ EXCEPT ![p] = Append(@, Ack(i))]
  /\ UNCHANGED acks

\* A command or telemetry: delivered if it is new, acknowledged always.
DispatchData(p, i) ==
  /\ IF i \in Elements(seen[p])
       THEN UNCHANGED data
       ELSE /\ seen' = [seen EXCEPT ![p] = Remember(@, i)]
            /\ got' = [got EXCEPT ![p] = Append(@, i)]
  /\ outQ' = [outQ EXCEPT ![p] = Append(@, Ack(i))]
  /\ UNCHANGED acks

Dispatch(p) ==
  /\ "dispatch" \in live[p] /\ inQ[p] # <<>>
  /\ inQ' = [inQ EXCEPT ![p] = Tail(@)]
  /\ LET m == Head(inQ[p])
     IN  IF m.ack THEN DispatchAck(p, m.id) ELSE DispatchData(p, m.id)
  /\ StillLive(p, "dispatch")
  /\ UNCHANGED <<running, connected, app, wire>>

----------------------------------------------------------------------------
(* The ACK monitor                                                         *)

\* Faulty variant: a message is forgotten once it is sent again.
CollectAndForget(p) ==
  /\ IsConnected(p) /\ resend[p] = {}
  /\ \E S \in SUBSET pending[p] \ {{}} :
       /\ copies[p] + Cardinality(S) <= load.copies[p]
       /\ copies' = [copies EXCEPT ![p] = @ + Cardinality(S)]
       /\ resend' = [resend EXCEPT ![p] = S]
       /\ pending' = [pending EXCEPT ![p] = @ \ S]
  /\ UNCHANGED <<life, app, data, outQ, wire, inQ>>

\* Under the lock: the messages whose ACK is overdue.  Which they are is the
\* clock's choice.
Collect(p) ==
  /\ IsConnected(p) /\ resend[p] = {}
  /\ \E S \in SUBSET pending[p] \ {{}} :
       /\ copies[p] + Cardinality(S) <= load.copies[p]
       /\ copies' = [copies EXCEPT ![p] = @ + Cardinality(S)]
       /\ resend' = [resend EXCEPT ![p] = S]
  /\ UNCHANGED <<life, app, pending, data, outQ, wire, inQ>>

\* After it: they are put on the output queue again, oldest first, whether
\* or not their ACK has come meanwhile.
Requeue(p) ==
  /\ \E i \in resend[p] :
       /\ \A j \in resend[p] : i <= j
       /\ outQ' = [outQ EXCEPT ![p] = Append(@, Data(i))]
       /\ resend' = [resend EXCEPT ![p] = @ \ {i}]
  /\ UNCHANGED <<life, app, pending, copies, data, wire, inQ>>

----------------------------------------------------------------------------
\* Both ends are down, or the server was when the client tried to connect,
\* and no thread is left.
Terminated ==
  /\ ~running["server"]
  /\ \A p \in Peers : live[p] = {} /\ (running[p] => ~connected[p])
  /\ UNCHANGED steps

\* Everything a peer's threads do of themselves.
Work(p) ==
  \/ Establish(p) \/ ThreadEnds(p)
  \/ Put(p) \/ Receive(p) \/ Write(p) \/ ReadLine(p)
  \/ Dispatch(p) \/ Collect(p) \/ Requeue(p)

Next ==
  /\ UNCHANGED load
  /\ \/ \E p \in Peers :
          Work(p) \/ Register(p) \/ Stop(p) \/ WriteFails(p) \/ ReadEnds(p)
     \/ Terminated

Spec == Init /\ [][Next]_vars

\* Every thread keeps running, each only delayed by the others, and accept
\* returns once there is a client.  The program, the monitor's clock and the
\* network are not obliged to anything.
Fairness ==
  /\ WF_steps(Establish("server"))
  /\ \A p \in Peers :
       /\ WF_steps(ThreadEnds(p)) /\ WF_steps(Put(p)) /\ WF_steps(Receive(p))
       /\ WF_steps(Write(p)) /\ WF_steps(ReadLine(p)) /\ WF_steps(Dispatch(p))
       /\ WF_steps(Requeue(p))
       /\ WF_steps(~running[Other(p)] /\ ReadEnds(p))

FairSpec == Spec /\ Fairness

----------------------------------------------------------------------------
(* Properties                                                              *)

\* A payload is handed over a second time only after a windowful of others:
\* until then no resend, however late and often, is taken for a new message.
DedupWindow ==
  \A p \in Peers : \A i, j \in DOMAIN got[p] :
    i < j /\ got[p][i] = got[p][j] => j - i > load.window

\* What is no longer waiting for an ACK has reached the other program's data
\* queue: no step drops a message from pending, or acknowledges it, early.
AckedIsDelivered ==
  \A p \in Peers : \A i \in 1..nextId[p] :
    i \in pending[p] \/ i \in Elements(got[Other(p)])

\* The message itself, not a resend of it, or its ACK is on its way.
Underway(p, i) ==
  \/ putting[p] = i
  \/ Data(i) \in Elements(outQ[p]) \cup Elements(wire[p]) \cup Elements(inQ[Other(p)])
  \/ Ack(i) \in Elements(outQ[Other(p)]) \cup Elements(wire[Other(p)]) \cup Elements(inQ[p])

\* While both ends are up no message that awaits an ACK has vanished: some
\* copy of it or its ACK is queued somewhere, with no help from the monitor.
NothingForgotten ==
  \A p \in Peers :
    running[p] /\ running[Other(p)] => \A i \in pending[p] : Underway(p, i)

\* As long as the connection lasts every message gets its ACK.
Settles ==
  \A p \in Peers : \A i \in UNION {1..l.msgs[p] : l \in Loads} :
    (i \in pending[p] /\ connected["client"]) ~>
      (i \notin pending[p] \/ ~running[p] \/ ~running[Other(p)])

\* When one end stops, a connected peer notices and stops as well.
StopReachesPeer ==
  \A p \in Peers : (~running[p] /\ connected[Other(p)]) ~> ~running[Other(p)]

----------------------------------------------------------------------------
(* Each direction implements ReliableLink, as long as no more messages are *)
(* sent than the window remembers.                                         *)

LinkState(p) ==
  IF ~connected[p] THEN "new" ELSE IF "dispatch" \in live[p] THEN "open" ELSE "closed"

\* A load that does not fit is left out of the comparison.
Fits(p) == load.msgs[p] <= load.window
Accepted(p)  == IF Fits(p) THEN nextId[p] ELSE 0
Delivered(p) == IF Fits(p) THEN got[Other(p)] ELSE <<>>
State(p)     == IF Fits(p) THEN LinkState(Other(p)) ELSE "new"

Commands  == INSTANCE ReliableLink WITH
               accepted <- Accepted("client"), delivered <- Delivered("client"),
               state <- State("client")
Telemetry == INSTANCE ReliableLink WITH
               accepted <- Accepted("server"), delivered <- Delivered("server"),
               state <- State("server")

\* Commands reach the robot in order and once.
CommandsInOrder == Commands!Spec

\* So does telemetry reach mission control.
TelemetryInOrder == Telemetry!Spec

----------------------------------------------------------------------------
(* What the documentation says and the code does not do                    *)

\* protocol.py: stop is to "Gracefully shut down the connection": when
\* nothing but the program's own stop() ends the connection, what _send had
\* accepted before it still reaches the other program.
GracefulStop ==
  \A p \in Stoppers :
    connected[Other(p)] /\ live[Other(p)] = {} =>
      \A i \in 1..nextId[p] : i \in Elements(got[Other(p)])
=============================================================================
