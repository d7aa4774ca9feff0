----------------------------- MODULE Localizer ------------------------------
(***************************************************************************)
(* UWBLocalizer's thread, which reads the two tags' serial ports and       *)
(* stores what it computes attribute by attribute, and the dashboard's     *)
(* sender thread, which looks at these attributes without a lock.          *)
(*                                                                         *)
(* A tag numbers its ranging packets; whatever is computed from a packet   *)
(* carries its number, and None is 0.  Whether circles meet and whether a  *)
(* pair of candidates fits is a choice here: see Trilateration.            *)
(***************************************************************************)
EXTENDS Naturals, Sequences

CONSTANT Packets      \* bound: how many lines each tag writes
ASSUME LocalizerAssumption == Packets \in Nat

Tags == {"left", "right"}
None == 0
NoneYet == [t \in Tags |-> None]
\* A range packet, one whose ranges are not both valid, a "$K" line or noise.
Kinds == {"ranges", "invalid", "other"}
MaxLines == 5         \* readline calls for one packet
LastLook == 5         \* attributes the overlay is made of

VARIABLES
  port,          \* lines of each tag that have not been read
  written,       \* how many lines it has written
  at,            \* where the localizer's thread is
  tries,         \* readline calls left for the packet it waits for
  range,         \* update's d_LA, d_LB and d_RA, d_RB
  ranges,        \* _last_d
  candidates,    \* _left_candidates, _right_candidates
  tag,           \* _left_tag, _right_tag
  pose,          \* _position, of the packets it comes from
  stopping,      \* _stop_event
  sending,       \* the dashboard's _running
  alive,         \* its sender thread has raised nothing
  look,          \* the attribute the thread is at, 0 when it sleeps
  checked        \* it has seen that this is not None

serial == <<port, written>>
attributes == <<ranges, candidates, tag, pose>>
locals == <<tries, range>>
dashboard == <<sending, alive, look, checked>>
localizerVars == <<serial, at, locals, attributes, stopping, dashboard>>

Pair == [Tags -> 0 .. Packets]
Complete(p) == \A t \in Tags : p[t] # None

LocalizerTypeOK ==
  /\ \A t \in Tags : \A i \in DOMAIN port[t] : port[t][i] \in Kinds \X (1 .. Packets)
  /\ at \in Tags \cup {"top", "store", "candL", "candR", "tagL", "tagR", "pose", "ended"}
  /\ tries \in 0 .. MaxLines /\ range \in Pair
  /\ candidates \in Pair /\ tag \in Pair
  /\ \A p \in {ranges, pose} : p = NoneYet \/ (p \in Pair /\ Complete(p))
  /\ stopping \in BOOLEAN /\ sending \in BOOLEAN /\ alive \in BOOLEAN
  /\ look \in 0 .. LastLook + 1 /\ checked \in BOOLEAN

LocalizerInit ==
  /\ port = [t \in Tags |-> <<>>] /\ written = NoneYet
  /\ at = "top" /\ tries = MaxLines /\ range = NoneYet
  /\ ranges = NoneYet /\ candidates = NoneYet /\ tag = NoneYet /\ pose = NoneYet
  /\ stopping = FALSE /\ sending = TRUE
  /\ alive = TRUE /\ look = 0 /\ checked = FALSE

----------------------------------------------------------------------------
(* The localizer                                                           *)

\* A tag writes a line when it likes.
Write(t, kind) ==
  /\ written[t] < Packets
  /\ written' = [written EXCEPT ![t] = @ + 1]
  /\ port' = [port EXCEPT ![t] = Append(@, <<kind, written'[t]>>)]
  /\ UNCHANGED <<at, locals, attributes, stopping, dashboard>>

\* stop(), from PIDDrive.shutdown.
Stop ==
  /\ ~stopping /\ stopping' = TRUE
  /\ UNCHANGED <<serial, at, locals, attributes, dashboard>>

\* Faulty variant: the ranges of the last update are still there.
BeginKeeps ==
  /\ at = "top"
  /\ at' = IF stopping THEN "ended" ELSE "left"
  /\ tries' = MaxLines
  /\ UNCHANGED <<range, serial, attributes, stopping, dashboard>>

\* _run's loop: the next update.
Begin ==
  /\ at = "top"
  /\ at' = IF stopping THEN "ended" ELSE "left"
  /\ tries' = MaxLines /\ range' = NoneYet
  /\ UNCHANGED <<serial, attributes, stopping, dashboard>>

\* _read_serial(t) returns n.
Returns(t, n) ==
  /\ range' = [range EXCEPT ![t] = IF n = None THEN @ ELSE n]
  /\ tries' = MaxLines
  /\ at' = IF t = "left" THEN "right" ELSE "store"

\* Faulty variant: it reads until there is a packet.
ReadLineForever(t) ==
  /\ at = t /\ tries > 0
  /\ IF port[t] = <<>>
       THEN UNCHANGED <<port, at, locals>>
       ELSE LET line == Head(port[t])
            IN /\ port' = [port EXCEPT ![t] = Tail(@)]
               /\ IF line[1] = "other"
                    THEN UNCHANGED <<at, locals>>
                    ELSE Returns(t, IF line[1] = "ranges" THEN line[2] ELSE None)
  /\ UNCHANGED <<written, attributes, stopping, dashboard>>

\* One readline: a line, or nothing within a second.
ReadLine(t) ==
  /\ at = t /\ tries > 0
  /\ IF port[t] = <<>>
       THEN tries' = tries - 1 /\ UNCHANGED <<port, at, range>>
       ELSE LET line == Head(port[t])
            IN /\ port' = [port EXCEPT ![t] = Tail(@)]
               /\ IF line[1] = "other"
                    THEN tries' = tries - 1 /\ UNCHANGED <<at, range>>
                    ELSE Returns(t, IF line[1] = "ranges" THEN line[2] ELSE None)
  /\ UNCHANGED <<written, attributes, stopping, dashboard>>

\* No packet in five lines.
GiveUp(t) ==
  /\ at = t /\ tries = 0
  /\ Returns(t, None)
  /\ UNCHANGED <<serial, attributes, stopping, dashboard>>

\* A SerialException.
PortFails(t) ==
  /\ at = t /\ tries > 0
  /\ Returns(t, None)
  /\ UNCHANGED <<serial, attributes, stopping, dashboard>>

\* Faulty variant: one tag's ranges are enough.
StoreEither ==
  /\ at = "store"
  /\ IF range # NoneYet THEN ranges' = range /\ at' = "candL"
                        ELSE UNCHANGED ranges /\ at' = "top"
  /\ UNCHANGED <<serial, locals, candidates, tag, pose, stopping, dashboard>>

\* Both tags answered: their ranges are stored, else update returns.
Store ==
  /\ at = "store"
  /\ IF Complete(range) THEN ranges' = range /\ at' = "candL"
                        ELSE UNCHANGED ranges /\ at' = "top"
  /\ UNCHANGED <<serial, locals, candidates, tag, pose, stopping, dashboard>>

\* Faulty variant: the pose is stored as soon as there is one.
StoreCandidatesEarly(t) ==
  /\ at = IF t = "left" THEN "candL" ELSE "candR"
  /\ \E n \in {None, range[t]} : candidates' = [candidates EXCEPT ![t] = n]
  /\ at' \in IF t = "left" THEN {"candR"}
             ELSE IF Complete(candidates') THEN {"top", "tagL"} ELSE {"top"}
  /\ pose' = IF at' = "tagL" THEN range ELSE pose
  /\ UNCHANGED <<serial, locals, ranges, tag, stopping, dashboard>>

\* _left_candidates, then _right_candidates; None when the tag's circles do
\* not meet.  Then update returns, also when no pair of candidates fits.
StoreCandidates(t) ==
  /\ at = IF t = "left" THEN "candL" ELSE "candR"
  /\ \E n \in {None, range[t]} : candidates' = [candidates EXCEPT ![t] = n]
  /\ at' \in IF t = "left" THEN {"candR"}
             ELSE IF Complete(candidates') THEN {"top", "tagL"} ELSE {"top"}
  /\ UNCHANGED <<serial, locals, ranges, tag, pose, stopping, dashboard>>

\* Faulty variant: a tag is stored as its candidates are, None included.
StoreTagOrNone(t) ==
  /\ at = IF t = "left" THEN "tagL" ELSE "tagR"
  /\ \E n \in {None, range[t]} : tag' = [tag EXCEPT ![t] = n]
  /\ at' = IF t = "left" THEN "tagR" ELSE "pose"
  /\ UNCHANGED <<serial, locals, ranges, candidates, pose, stopping, dashboard>>

StoreTag(t) ==
  /\ at = IF t = "left" THEN "tagL" ELSE "tagR"
  /\ tag' = [tag EXCEPT ![t] = range[t]]
  /\ at' = IF t = "left" THEN "tagR" ELSE "pose"
  /\ UNCHANGED <<serial, locals, ranges, candidates, pose, stopping, dashboard>>

StorePosition ==
  /\ at = "pose"
  /\ pose' = range
  /\ at' = "top"
  /\ UNCHANGED <<serial, locals, ranges, candidates, tag, stopping, dashboard>>

Thread ==
  \/ Begin \/ Store \/ StorePosition
  \/ \E t \in Tags : ReadLine(t) \/ GiveUp(t) \/ StoreCandidates(t) \/ StoreTag(t)

----------------------------------------------------------------------------
(* The dashboard's sender                                                  *)

\* Whether the attribute that set_uwb_overlay reads as its k-th has a value.
HasValue(k) ==
  CASE k = 1 -> ranges # NoneYet
    [] k = 2 -> candidates["left"] # None
    [] k = 3 -> candidates["right"] # None
    [] k = 4 -> tag["left"] # None
    [] k = 5 -> tag["right"] # None

\* The next of the sends at 10 Hz.
Wake ==
  /\ alive /\ sending /\ look = 0
  /\ look' = 1
  /\ UNCHANGED <<serial, at, locals, attributes, stopping, sending, alive, checked>>

\* Whether it is None ...
Check ==
  /\ alive /\ look \in 1 .. LastLook /\ ~checked
  /\ IF HasValue(look) THEN checked' = TRUE /\ UNCHANGED look
                       ELSE look' = look + 1 /\ UNCHANGED checked
  /\ UNCHANGED <<serial, at, locals, attributes, stopping, sending, alive>>

\* ... and the attribute again, to take it apart: a TypeError if it is None
\* by now, which nothing catches.
Use ==
  /\ alive /\ checked
  /\ IF HasValue(look)
       THEN look' = look + 1 /\ checked' = FALSE /\ UNCHANGED alive
       ELSE alive' = FALSE /\ UNCHANGED <<look, checked>>
  /\ UNCHANGED <<serial, at, locals, attributes, stopping, sending>>

\* set_circles, set_points and send_telemetry.
Send ==
  /\ alive /\ look = LastLook + 1
  /\ look' = 0
  /\ UNCHANGED <<serial, at, locals, attributes, stopping, sending, alive, checked>>

Shutdown ==
  /\ sending /\ sending' = FALSE
  /\ UNCHANGED <<serial, at, locals, attributes, stopping, alive, look, checked>>

Sender == Wake \/ Check \/ Use \/ Send

----------------------------------------------------------------------------
LocalizerNext ==
  \/ \E t \in Tags, kind \in Kinds : Write(t, kind)
  \/ \E t \in Tags : PortFails(t)
  \/ Thread \/ Stop
  \/ Sender \/ Shutdown

\* Both threads run; readline returns within a second.
LocalizerSpec ==
  LocalizerInit /\ [][LocalizerNext]_localizerVars
    /\ WF_localizerVars(Thread) /\ WF_localizerVars(Sender)

----------------------------------------------------------------------------
(* Properties                                                              *)

\* get_pose never goes back to None or to older ranges, and no packet of a
\* tag is in two poses (uwb_localizer.py:294-344): PIDDrive follows a pose
\* that moves on with both tags.
PoseAdvances ==
  [][pose' # pose => \A t \in Tags : pose'[t] > pose[t]]_pose

\* At every instant the tags' positions are as new as the pose, and the ranges
\* as new as they (uwb_localizer.py:307-343): who has a pose and then looks at
\* them finds nothing that came before it.  (The overlay goes the other way:
\* it has the ranges before it looks at the tags, dashboard.py:143-160, and
\* may draw newer tags with them.)
PoseIsLast ==
  \A t \in Tags : pose[t] <= tag[t] /\ tag[t] <= ranges[t]

\* After stop() the thread ends, whatever the tags send or do not send
\* (uwb_localizer.py:366-373, 400-409).
StopEnds == stopping ~> (at = "ended")

\* What the sender finds gone after it has checked that it is there, and ends
\* of, is never ranges or tags, only the candidates of circles that did not
\* meet (uwb_localizer.py:307-342, dashboard.py:143-165).
OnlyCandidatesVanish == ~alive => look \in {2, 3}
=============================================================================
