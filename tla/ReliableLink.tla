---------------------------- MODULE ReliableLink ----------------------------
(***************************************************************************)
(* What one direction of a Connection promises the program above it: the   *)
(* payloads handed to _send come out of _receive at the other end in the   *)
(* order of the calls, each of them once, as long as the connection lasts; *)
(* when it ends, the rest is lost.                                         *)
(***************************************************************************)
EXTENDS Naturals, Sequences

VARIABLES accepted,    \* how many payloads _send has taken
          delivered,   \* the payloads put on the other end's data queue
          state        \* of the receiving end: "new", "open" or "closed"

vars == <<accepted, delivered, state>>

Init == accepted = 0 /\ delivered = <<>> /\ state = "new"

Accept ==
  /\ accepted' = accepted + 1
  /\ UNCHANGED <<delivered, state>>

\* The oldest payload not delivered yet is the next; it can be the last one
\* that a closing end still delivers.
Deliver ==
  /\ state = "open" /\ state' \in {"open", "closed"}
  /\ Len(delivered) < accepted
  /\ delivered' = Append(delivered, Len(delivered) + 1)
  /\ UNCHANGED accepted

Open ==
  /\ state = "new" /\ state' = "open"
  /\ UNCHANGED <<accepted, delivered>>

Close ==
  /\ state = "open" /\ state' = "closed"
  /\ UNCHANGED <<accepted, delivered>>

Next == Accept \/ Deliver \/ Open \/ Close

SafeSpec == Init /\ [][Next]_vars

\* A payload is not held back for ever on a connection that stays open.
Spec == SafeSpec /\ WF_vars(Deliver)
=============================================================================
