-------------------------- MODULE ConnectionProofs --------------------------
(***************************************************************************)
(* Theorems about Connection, for every number of messages, of copies and  *)
(* of remembered ids, and wherever the connection breaks.                  *)
(*                                                                         *)
(* What one end has sent and the other has not dispatched yet lies in      *)
(* three queues.  Put one behind the other they are one sequence, the path *)
(* of that end, and a step of the connection appends to it, takes its      *)
(* head, or cuts off the part that a closed end no longer writes.          *)
(***************************************************************************)
EXTENDS Connection, SequenceTheorems, FiniteSetTheorems, TLAPS

----------------------------------------------------------------------------
(* Sequences and their elements                                            *)

\* A message that joins a queue.
LEMMA AppendFacts ==
  ASSUME NEW S, NEW s \in Seq(S), NEW e \in S
  PROVE  /\ Append(s, e) \in Seq(S) /\ Len(Append(s, e)) = Len(s) + 1
         /\ \A n \in 1..Len(s) : Append(s, e)[n] = s[n]
         /\ Append(s, e)[Len(s) + 1] = e
         /\ Elements(Append(s, e)) = Elements(s) \cup {e}
<1> DEFINE t == Append(s, e)
<1>1. /\ t \in Seq(S) /\ Len(t) = Len(s) + 1
      /\ \A n \in 1..Len(s) : t[n] = s[n]
      /\ t[Len(s) + 1] = e
  BY AppendProperties
<1>2. DOMAIN s = 1..Len(s) /\ DOMAIN t = 1..Len(s) + 1 /\ Len(s) \in Nat
  BY <1>1, LenProperties
<1> HIDE DEF t
<1>3. Elements(t) = Elements(s) \cup {e}
  BY <1>1, <1>2 DEF Elements
<1> QED  BY <1>1, <1>3 DEF t

\* A message that leaves it.
LEMMA TailFacts ==
  ASSUME NEW S, NEW s \in Seq(S), s # <<>>
  PROVE  /\ Tail(s) \in Seq(S) /\ Len(s) \in Nat \ {0} /\ Len(Tail(s)) = Len(s) - 1
         /\ \A n \in 1..Len(Tail(s)) : Tail(s)[n] = s[n + 1]
         /\ Head(s) = s[1] /\ Head(s) \in S
         /\ Elements(s) = {Head(s)} \cup Elements(Tail(s))
<1> DEFINE t == Tail(s)
<1>1. /\ t \in Seq(S) /\ Len(t) = Len(s) - 1 /\ Head(s) = s[1] /\ Head(s) \in S
      /\ \A n \in 1..Len(t) : t[n] = s[n + 1]
  BY HeadTailProperties
<1>2. DOMAIN s = 1..Len(s) /\ DOMAIN t = 1..Len(s) - 1 /\ Len(s) \in Nat \ {0}
  BY <1>1, LenProperties, EmptySeq
<1> HIDE DEF t
<1>3. \A n \in DOMAIN s : n = 1 \/ (n - 1 \in DOMAIN t /\ s[n] = t[n - 1])
  BY <1>1, <1>2
<1>4. \A n \in DOMAIN t : n + 1 \in DOMAIN s /\ t[n] = s[n + 1]
  BY <1>1, <1>2
<1>5. Elements(s) \subseteq {Head(s)} \cup Elements(t)
  BY <1>1, <1>3 DEF Elements
<1>6. Elements(t) \subseteq Elements(s)
  BY <1>4 DEF Elements
<1>7. Head(s) \in Elements(s)
  BY <1>1, <1>2 DEF Elements
<1> QED  BY <1>1, <1>2, <1>5, <1>6, <1>7 DEF t

LEMMA ElementsFacts ==
  ASSUME NEW S, NEW s \in Seq(S)
  PROVE  /\ Elements(s) \subseteq S /\ Elements(<<>>) = {}
         /\ DOMAIN s = 1..Len(s) /\ Len(s) \in Nat
         /\ \A n \in DOMAIN s : s[n] \in S /\ s[n] \in Elements(s)
         /\ \A e \in Elements(s) : \E n \in 1..Len(s) : s[n] = e
BY ElementOfSeq, LenProperties, EmptySeq DEF Elements

\* One queue behind another.
LEMMA ConcatFacts ==
  ASSUME NEW S, NEW s \in Seq(S), NEW t \in Seq(S)
  PROVE  /\ s \o t \in Seq(S) /\ Len(s \o t) = Len(s) + Len(t)
         /\ \A n \in 1..Len(s) : (s \o t)[n] = s[n]
         /\ \A n \in 1..Len(t) : (s \o t)[Len(s) + n] = t[n]
         /\ Elements(s \o t) = Elements(s) \cup Elements(t)
<1> DEFINE u == s \o t
<1>1. /\ u \in Seq(S) /\ Len(u) = Len(s) + Len(t)
      /\ \A n \in 1..Len(s) + Len(t) : u[n] = IF n <= Len(s) THEN s[n] ELSE t[n - Len(s)]
  BY ConcatProperties
<1>2. /\ DOMAIN s = 1..Len(s) /\ Len(s) \in Nat /\ DOMAIN t = 1..Len(t) /\ Len(t) \in Nat
      /\ DOMAIN u = 1..Len(s) + Len(t)
  BY <1>1, LenProperties
<1> HIDE DEF u
<1>3. /\ \A n \in 1..Len(s) : u[n] = s[n]
      /\ \A n \in 1..Len(t) : u[Len(s) + n] = t[n]
  BY <1>1, <1>2, SMTT(30)
<1>4. \A n \in DOMAIN u : n \in DOMAIN s \/ (n - Len(s) \in DOMAIN t /\ u[n] = t[n - Len(s)])
  BY <1>1, <1>2
<1>5. \A n \in DOMAIN t : Len(s) + n \in DOMAIN u
  BY <1>2
<1>6. \A n \in DOMAIN s : n \in DOMAIN u
  BY <1>2
<1>7. Elements(u) \subseteq Elements(s) \cup Elements(t)
  BY <1>2, <1>3, <1>4 DEF Elements
<1>8. Elements(s) \subseteq Elements(u) /\ Elements(t) \subseteq Elements(u)
  BY <1>2, <1>3, <1>5, <1>6 DEF Elements
<1> QED  BY <1>1, <1>3, <1>7, <1>8 DEF u

LEMMA ConcatAppend ==
  ASSUME NEW S, NEW s \in Seq(S), NEW t \in Seq(S), NEW e \in S
  PROVE  s \o Append(t, e) = Append(s \o t, e)
<1>1. <<e>> \in Seq(S)
  OBVIOUS
<1>2. s \o (t \o <<e>>) = (s \o t) \o <<e>>
  BY <1>1, ConcatAssociative
<1> QED  BY <1>2, AppendIsConcat, ConcatFacts

LEMMA ConcatTail ==
  ASSUME NEW S, NEW s \in Seq(S), NEW t \in Seq(S), s # <<>>
  PROVE  s \o t # <<>> /\ Head(s \o t) = Head(s) /\ Tail(s \o t) = Tail(s) \o t
<1>1. s \o t \in Seq(S) /\ s \o t # <<>>
  BY ConcatFacts, ConcatEqualIffEmpty, TailFacts, EmptySeq
<1>2. Head(s \o t) = Head(s)
  BY <1>1, TailFacts, ConcatFacts
<1> DEFINE u == Tail(s \o t)
           v == Tail(s) \o t
<1>3. /\ Tail(s) \in Seq(S) /\ Len(s) \in Nat \ {0} /\ Len(Tail(s)) = Len(s) - 1
      /\ \A n \in 1..Len(Tail(s)) : Tail(s)[n] = s[n + 1]
  BY TailFacts
<1>4. /\ u \in Seq(S) /\ Len(u) = Len(s) + Len(t) - 1 /\ Len(t) \in Nat
      /\ \A n \in 1..Len(u) : u[n] = (s \o t)[n + 1]
  BY <1>1, TailFacts, ConcatFacts, LenProperties
<1>5. /\ v \in Seq(S) /\ Len(v) = Len(s) - 1 + Len(t)
      /\ \A n \in 1..Len(s) + Len(t) - 1 :
           v[n] = IF n <= Len(s) - 1 THEN Tail(s)[n] ELSE t[n - (Len(s) - 1)]
  BY <1>3, ConcatProperties
<1>6. \A n \in 1..Len(s) + Len(t) :
        (s \o t)[n] = IF n <= Len(s) THEN s[n] ELSE t[n - Len(s)]
  BY ConcatProperties
<1> HIDE DEF u, v
<1>7. ASSUME NEW n \in 1..Len(u) PROVE u[n] = v[n]
  <2>1. CASE n <= Len(s) - 1
    BY <1>3, <1>4, <1>5, <1>6, <2>1
  <2>2. CASE ~(n <= Len(s) - 1)
    <3>1. n + 1 - Len(s) = n - (Len(s) - 1)
      BY <1>3, <1>4
    <3>2. u[n] = t[n + 1 - Len(s)]
      BY <1>3, <1>4, <1>6, <2>2
    <3> QED  BY <1>3, <1>4, <1>5, <2>2, <3>1, <3>2
  <2> QED  BY <2>1, <2>2
<1>8. u = v
  BY <1>3, <1>4, <1>5, <1>7, SeqEqual
<1> QED  BY <1>1, <1>2, <1>8 DEF u, v

\* A message that moves from the head of one queue to the end of the one
\* before it.
LEMMA ConcatMove ==
  ASSUME NEW S, NEW s \in Seq(S), NEW t \in Seq(S), t # <<>>
  PROVE  Append(s, Head(t)) \o Tail(t) = s \o t
<1>1. Head(t) \in S /\ Tail(t) \in Seq(S)
  BY TailFacts
<1>2. t = <<Head(t)>> \o Tail(t)
  <2>1. t = SubSeq(t, 1, Len(t)) /\ Tail(t) = SubSeq(t, 2, Len(t)) /\ Head(t) = t[1]
    BY SubSeqFull, TailIsSubSeq, TailFacts
  <2>2. 1 \in 1..Len(t) /\ Len(t) \in 1..Len(t)
    BY TailFacts
  <2>3. SubSeq(t, 1, Len(t)) = <<t[1]>> \o SubSeq(t, 1 + 1, Len(t))
    BY <2>2, SubSeqRecursiveFirst
  <2> QED  BY <2>1, <2>3
<1>3. <<Head(t)>> \in Seq(S)
  BY <1>1
<1>4. (s \o <<Head(t)>>) \o Tail(t) = s \o (<<Head(t)>> \o Tail(t))
  BY <1>1, <1>3, ConcatAssociative
<1> QED  BY <1>1, <1>2, <1>4, AppendIsConcat

----------------------------------------------------------------------------
(* The two peers, and the path from one to the other                       *)

LEMMA PeerFacts ==
  ASSUME NEW p \in Peers
  PROVE  Other(p) \in Peers /\ Other(p) # p /\ Other(Other(p)) = p
BY DEF Peers, Other

LEMMA LoadFacts ==
  ASSUME load \in Loads
  PROVE  /\ load.window \in Nat \ {0}
         /\ \A p \in Peers : load.msgs[p] \in Nat /\ load.copies[p] \in Nat
BY ConnectionAssumption

\* What p has sent and the other end has still to dispatch, oldest first.
\* What a closed end has not written it never writes.
Unwritten(p) == IF running[p] THEN outQ[p] ELSE <<>>
Path(p) == inQ[Other(p)] \o (wire[p] \o Unwritten(p))

\* The types without the bounds, which are invariants of their own.
Shape ==
  /\ running \in [Peers -> BOOLEAN] /\ connected \in [Peers -> BOOLEAN]
  /\ live \in [Peers -> SUBSET {"receiver", "dispatch"}]
  /\ nextId \in [Peers -> Nat] /\ putting \in [Peers -> Nat]
  /\ pending \in [Peers -> SUBSET Nat] /\ resend \in [Peers -> SUBSET Nat]
  /\ copies \in [Peers -> Nat] /\ taken \in [Peers -> Nat]
  /\ outQ \in [Peers -> Seq(Messages)]
  /\ wire \in [Peers -> Seq(Messages)]
  /\ inQ \in [Peers -> Seq(Messages)]
  /\ seen \in [Peers -> Seq(Nat)] /\ got \in [Peers -> Seq(Nat)]
  /\ load \in Loads

LEMMA MessageFacts ==
  /\ \A i \in Nat : Data(i) \in Messages /\ Ack(i) \in Messages
  /\ \A i, j \in Nat : (Data(i) = Data(j) <=> i = j) /\ Data(i) # Ack(j)
  /\ \A m \in Messages : /\ m.id \in Nat /\ m.ack \in BOOLEAN
                         /\ m = IF m.ack THEN Ack(m.id) ELSE Data(m.id)
<1>1. \A i \in Nat : Data(i) \in Messages /\ Ack(i) \in Messages
  BY DEF Data, Ack, Messages
<1>2. \A i, j \in Nat : (Data(i) = Data(j) <=> i = j) /\ Data(i) # Ack(j)
  <2> TAKE i, j \in Nat
  <2>1. Data(i).id = i /\ Data(j).id = j /\ Data(i).ack = FALSE /\ Ack(j).ack = TRUE
    BY DEF Data, Ack
  <2> QED  BY <2>1
<1>3. \A m \in Messages : /\ m.id \in Nat /\ m.ack \in BOOLEAN
                          /\ m = IF m.ack THEN Ack(m.id) ELSE Data(m.id)
  BY DEF Data, Ack, Messages
<1> QED  BY <1>1, <1>2, <1>3

\* The same facts for queues of messages.
LEMMA QueueFacts ==
  /\ \A s, t \in Seq(Messages), m \in Messages : s \o Append(t, m) = Append(s \o t, m)
  /\ \A s, t, u \in Seq(Messages) : (s \o t) \o u = s \o (t \o u)
BY ConcatAppend, ConcatAssociative

LEMMA PathType ==
  ASSUME Shape, NEW p \in Peers
  PROVE  /\ Unwritten(p) \in Seq(Messages) /\ Path(p) \in Seq(Messages)
         /\ wire[p] \o Unwritten(p) \in Seq(Messages)
         /\ Elements(Path(p)) =
              Elements(inQ[Other(p)]) \cup Elements(wire[p]) \cup Elements(Unwritten(p))
<1>1. Unwritten(p) \in Seq(Messages) /\ wire[p] \in Seq(Messages) /\ inQ[Other(p)] \in Seq(Messages)
  BY PeerFacts, EmptySeq DEF Shape, Unwritten
<1>2. /\ wire[p] \o Unwritten(p) \in Seq(Messages)
      /\ Elements(wire[p] \o Unwritten(p)) = Elements(wire[p]) \cup Elements(Unwritten(p))
  BY <1>1, ConcatFacts
<1> DEFINE t == wire[p] \o Unwritten(p)
<1>3. t \in Seq(Messages) /\ Elements(t) = Elements(wire[p]) \cup Elements(Unwritten(p))
  BY <1>2
<1> HIDE DEF t
<1>4. /\ inQ[Other(p)] \o t \in Seq(Messages)
      /\ Elements(inQ[Other(p)] \o t) = Elements(inQ[Other(p)]) \cup Elements(t)
  BY <1>1, <1>3, ConcatFacts
<1>5. Path(p) = inQ[Other(p)] \o t
  BY DEF Path, t
<1> QED  BY <1>1, <1>2, <1>3, <1>4, <1>5

\* The three things a step does to the path of p, besides leaving it alone.
Sends(p, m)  == Path(p)' = IF running[p] THEN Append(Path(p), m) ELSE Path(p)
Arrives(p)   == Path(p) # <<>> /\ Path(p)' = Tail(Path(p))
Cuts(p)      == /\ Path(p)' \in Seq(Messages)
                /\ \E t \in Seq(Messages) : Path(p) = Path(p)' \o t

\* A message put on the output queue is the last of the path.
LEMMA PutPath ==
  ASSUME Shape, NEW p \in Peers, NEW m \in Messages,
         UNCHANGED <<running, wire, inQ>>, outQ' = [outQ EXCEPT ![p] = Append(@, m)]
  PROVE  /\ Sends(p, m)
         /\ \A q \in Peers \ {p} : UNCHANGED Path(q)
<1>1. \A q \in Peers \ {p} : UNCHANGED Path(q)
  BY DEF Path, Unwritten, Shape
<1>2. CASE ~running[p]
  <2>1. Path(p)' = Path(p)
    BY <1>2 DEF Path, Unwritten
  <2> QED  BY <1>1, <1>2, <2>1 DEF Sends
<1>3. CASE running[p]
  <2>1. Unwritten(p)' = Append(Unwritten(p), m)
    BY <1>3 DEF Unwritten, Shape
  <2> DEFINE t == wire[p] \o Unwritten(p)
  <2>2. /\ wire[p] \in Seq(Messages) /\ inQ[Other(p)] \in Seq(Messages)
        /\ Unwritten(p) \in Seq(Messages) /\ t \in Seq(Messages)
    BY PeerFacts, PathType DEF Shape
  <2>3. wire[p] \o Append(Unwritten(p), m) = Append(t, m)
    BY <2>2, QueueFacts, ZenonT(60)
  <2> HIDE DEF t
  <2>4. inQ[Other(p)] \o Append(t, m) = Append(inQ[Other(p)] \o t, m)
    BY <2>2, QueueFacts, ZenonT(60)
  <2>5. Path(p)' = inQ[Other(p)] \o (wire[p] \o Unwritten(p)')
    BY DEF Path
  <2>6. Path(p) = inQ[Other(p)] \o t
    BY DEF Path, t
  <2>7. Path(p)' = Append(Path(p), m)
    BY <2>1, <2>3, <2>4, <2>5, <2>6
  <2> QED  BY <1>1, <1>3, <2>7 DEF Sends
<1> QED  BY <1>2, <1>3

\* A write and a read move the message along the path.
LEMMA WritePath ==
  ASSUME Shape, NEW p \in Peers, Write(p)
  PROVE  \A q \in Peers : UNCHANGED Path(q)
<1>1. \A q \in Peers \ {p} : UNCHANGED Path(q)
  BY DEF Path, Unwritten, Shape, Write, life
<1>2. /\ Unwritten(p) = outQ[p] /\ Unwritten(p)' = Tail(outQ[p]) /\ outQ[p] # <<>>
      /\ wire'[p] = Append(wire[p], Head(outQ[p])) /\ inQ' = inQ
      /\ wire[p] \in Seq(Messages) /\ outQ[p] \in Seq(Messages)
  BY DEF Write, Unwritten, Shape, IsConnected, life
<1>3. Append(wire[p], Head(outQ[p])) \o Tail(outQ[p]) = wire[p] \o outQ[p]
  BY <1>2, ConcatMove
<1>4. Path(p)' = inQ'[Other(p)] \o (wire'[p] \o Unwritten(p)')
  BY DEF Path
<1>5. Path(p)' = Path(p)
  BY <1>2, <1>3, <1>4 DEF Path
<1> QED  BY <1>1, <1>5

LEMMA ReadPath ==
  ASSUME Shape, NEW p \in Peers, ReadLine(p)
  PROVE  \A q \in Peers : UNCHANGED Path(q)
<1> DEFINE q == Other(p)
           w == wire[q]
           u == Unwritten(q)
<1>1. q \in Peers /\ q # p /\ Other(q) = p /\ \A r \in Peers : r = p \/ r = q
  BY DEF Peers, Other
<1>2. UNCHANGED Path(p)
  BY <1>1 DEF Path, Unwritten, Shape, ReadLine
<1>3. /\ w # <<>> /\ inQ'[p] = Append(inQ[p], Head(w)) /\ wire'[q] = Tail(w)
      /\ Unwritten(q)' = u
      /\ inQ[p] \in Seq(Messages) /\ w \in Seq(Messages) /\ u \in Seq(Messages)
  BY <1>1, PathType DEF ReadLine, Unwritten, Shape
<1> HIDE DEF q, w, u
<1>4. Head(w) \in Messages /\ Tail(w) \in Seq(Messages) /\ w \o u \in Seq(Messages)
  BY <1>3, TailFacts, ConcatFacts
<1>5. /\ w \o u # <<>> /\ Head(w \o u) = Head(w) /\ Tail(w \o u) = Tail(w) \o u
  BY <1>3, ConcatTail
<1>6. Append(inQ[p], Head(w)) \o (Tail(w) \o u) = inQ[p] \o (w \o u)
  BY <1>3, <1>4, <1>5, ConcatMove, ZenonT(60)
<1>7. Path(q)' = inQ'[p] \o (wire'[q] \o Unwritten(q)') /\ Path(q) = inQ[p] \o (w \o u)
  BY <1>1 DEF Path, w, u, q
<1>8. Path(q)' = Path(q)
  BY <1>3, <1>6, <1>7
<1> QED  BY <1>1, <1>2, <1>8

\* An end that closes cuts its path off behind what is written.
LEMMA ClosePath ==
  ASSUME Shape, NEW p \in Peers,
         running' = [running EXCEPT ![p] = FALSE], UNCHANGED <<wire, inQ>>,
         \A q \in Peers \ {p} : outQ'[q] = outQ[q]
  PROVE  /\ Cuts(p)
         /\ \A q \in Peers \ {p} : UNCHANGED Path(q)
<1>1. \A q \in Peers \ {p} : UNCHANGED Path(q)
  BY DEF Path, Unwritten, Shape
<1>2. wire[p] \in Seq(Messages) /\ inQ[Other(p)] \in Seq(Messages) /\ Unwritten(p) \in Seq(Messages)
  BY PeerFacts, PathType DEF Shape
<1>3. Unwritten(p)' = <<>>
  BY DEF Unwritten, Shape
<1>4. Path(p)' = inQ[Other(p)] \o (wire[p] \o <<>>)
  BY <1>3 DEF Path
<1>5. Path(p)' = inQ[Other(p)] \o wire[p]
  BY <1>2, <1>4, ConcatEmptySeq
<1>6. (inQ[Other(p)] \o wire[p]) \o Unwritten(p) = inQ[Other(p)] \o (wire[p] \o Unwritten(p))
  BY <1>2, QueueFacts
<1>7. Path(p) = inQ[Other(p)] \o (wire[p] \o Unwritten(p))
  BY DEF Path
<1>8. Path(p) = Path(p)' \o Unwritten(p)
  BY <1>5, <1>6, <1>7
<1>9. inQ[Other(p)] \o wire[p] \in Seq(Messages)
  BY <1>2, ConcatFacts
<1> QED  BY <1>1, <1>2, <1>5, <1>8, <1>9 DEF Cuts

\* The dispatch loop of the other end takes the head of the path.
LEMMA TakePath ==
  ASSUME Shape, NEW p \in Peers, Dispatch(p)
  PROVE  LET q == Other(p)
             m == Head(inQ[p])
         IN  /\ m = Head(Path(q)) /\ m \in Messages /\ Arrives(q)
             /\ IF m.ack THEN UNCHANGED Path(p) ELSE Sends(p, Ack(m.id))
<1> DEFINE q == Other(p)
           m == Head(inQ[p])
           t == wire[q] \o Unwritten(q)
<1>1. q \in Peers /\ q # p /\ Other(q) = p
  BY PeerFacts
<1>2. /\ inQ[p] # <<>> /\ inQ[p] \in Seq(Messages) /\ inQ'[p] = Tail(inQ[p])
      /\ inQ'[q] = inQ[q] /\ wire' = wire /\ running' = running
      /\ outQ' = IF m.ack THEN outQ ELSE [outQ EXCEPT ![p] = Append(@, Ack(m.id))]
  BY <1>1 DEF Dispatch, DispatchAck, DispatchData, Shape
<1>3. m \in Messages /\ Ack(m.id) \in Messages
  BY <1>2, TailFacts, MessageFacts
<1>4. t \in Seq(Messages) /\ UNCHANGED t
  BY <1>1, <1>2, PathType DEF Unwritten, Shape
<1>5. Path(q) = inQ[p] \o t /\ Path(q)' = inQ'[p] \o t
  BY <1>1, <1>4 DEF Path
<1> HIDE DEF t
<1>6. m = Head(Path(q)) /\ Arrives(q)
  <2>1. inQ[p] \o t # <<>> /\ Head(inQ[p] \o t) = m /\ Tail(inQ[p] \o t) = Tail(inQ[p]) \o t
    BY <1>2, <1>4, ConcatTail
  <2> QED  BY <1>2, <1>5, <2>1 DEF Arrives
<1>7. UNCHANGED <<inQ[q], wire[p], running[p]>>
  BY <1>2
<1>8. ASSUME m.ack PROVE UNCHANGED Path(p)
  <2>1. outQ' = outQ
    BY <1>2, <1>8
  <2> QED  BY <1>7, <2>1 DEF Path, Unwritten
<1>9. ASSUME ~m.ack PROVE Sends(p, Ack(m.id))
  <2>1. CASE ~running[p]
    <3>1. Path(p)' = Path(p)
      BY <1>7, <2>1 DEF Path, Unwritten
    <3> QED  BY <2>1, <3>1 DEF Sends
  <2>2. CASE running[p]
    <3> DEFINE a == wire[p] \o Unwritten(p)
               k == Ack(m.id)
    <3>1. Unwritten(p)' = Append(Unwritten(p), k)
      BY <1>2, <1>9, <2>2 DEF Unwritten, Shape
    <3>2. /\ wire[p] \in Seq(Messages) /\ inQ[q] \in Seq(Messages)
          /\ Unwritten(p) \in Seq(Messages) /\ a \in Seq(Messages) /\ k \in Messages
      BY <1>1, <1>3, PathType DEF Shape
    <3> HIDE DEF k
    <3>3. wire[p] \o Append(Unwritten(p), k) = Append(a, k)
      BY <3>2, QueueFacts, ZenonT(60)
    <3> HIDE DEF a
    <3>4. inQ[q] \o Append(a, k) = Append(inQ[q] \o a, k)
      BY <3>2, QueueFacts, ZenonT(60)
    <3>5. Path(p)' = inQ[q] \o (wire[p] \o Unwritten(p)')
      BY <1>2, <1>7 DEF Path
    <3>6. Path(p) = inQ[q] \o a
      BY DEF Path, a
    <3>7. Path(p)' = Append(Path(p), k)
      BY <3>1, <3>3, <3>4, <3>5, <3>6
    <3> QED  BY <2>2, <3>7 DEF Sends, k
  <2> QED  BY <2>1, <2>2
<1> QED  BY <1>3, <1>6, <1>8, <1>9

----------------------------------------------------------------------------
(* What a step does, told by the paths                                     *)

core == <<load, nextId, running>>

\* Nothing is sent, dispatched or lost.
Quiet ==
  /\ UNCHANGED <<core, putting, pending, seen, got>>
  /\ \A p \in Peers : UNCHANGED Path(p)

Registers(p) ==
  /\ UNCHANGED <<load, running, seen, got>> /\ putting[p] = 0
  /\ nextId' = [nextId EXCEPT ![p] = @ + 1]
  /\ pending' = [pending EXCEPT ![p] = @ \cup {nextId'[p]}]
  /\ putting' = [putting EXCEPT ![p] = nextId'[p]]
  /\ \A q \in Peers : UNCHANGED Path(q)

\* A message, or a copy of it, joins the path.
Emits(p, i) ==
  /\ UNCHANGED <<core, pending, seen, got>>
  /\ \/ i \in resend[p] /\ UNCHANGED putting
     \/ putting[p] # 0 /\ i = putting[p] /\ putting' = [putting EXCEPT ![p] = 0]
  /\ Sends(p, Data(i)) /\ \A q \in Peers \ {p} : UNCHANGED Path(q)

Closes(p) ==
  /\ UNCHANGED <<load, nextId, putting, pending, seen, got>>
  /\ running' = [running EXCEPT ![p] = FALSE]
  /\ Cuts(p) /\ \A q \in Peers \ {p} : UNCHANGED Path(q)

GetsAck(p, i) ==
  /\ UNCHANGED <<core, putting, seen, got>>
  /\ pending' = [pending EXCEPT ![p] = @ \ {i}]
  /\ Arrives(Other(p)) /\ Head(Path(Other(p))) = Ack(i)
  /\ UNCHANGED Path(p)

GetsData(p, i) ==
  /\ UNCHANGED <<core, putting, pending>>
  /\ IF i \in Elements(seen[p])
       THEN UNCHANGED <<seen, got>>
       ELSE /\ seen' = [seen EXCEPT ![p] = Remember(@, i)]
            /\ got' = [got EXCEPT ![p] = Append(@, i)]
  /\ Arrives(Other(p)) /\ Head(Path(Other(p))) = Data(i)
  /\ Sends(p, Ack(i))

Effect ==
  \/ Quiet
  \/ \E p \in Peers : Registers(p) \/ Closes(p)
  \/ \E p \in Peers, i \in Nat : Emits(p, i) \/ GetsAck(p, i) \/ GetsData(p, i)

LEMMA DispatchEffect ==
  ASSUME Shape, NEW p \in Peers, Dispatch(p), UNCHANGED load
  PROVE  \E i \in Nat : GetsAck(p, i) \/ GetsData(p, i)
<1> DEFINE q == Other(p)
           m == Head(inQ[p])
<1>1. /\ m = Head(Path(q)) /\ m \in Messages /\ Arrives(q)
      /\ IF m.ack THEN UNCHANGED Path(p) ELSE Sends(p, Ack(m.id))
  BY TakePath
<1>2. /\ UNCHANGED <<running, connected, app, wire>>
      /\ IF m.ack THEN DispatchAck(p, m.id) ELSE DispatchData(p, m.id)
  BY DEF Dispatch
<1> HIDE DEF m
<1>3. m.id \in Nat /\ m = IF m.ack THEN Ack(m.id) ELSE Data(m.id)
  BY <1>1, MessageFacts
<1>4. CASE m.ack
  <2>1. GetsAck(p, m.id)
    BY <1>1, <1>2, <1>3, <1>4 DEF GetsAck, DispatchAck, core, app, acks, data
  <2> QED  BY <1>3, <2>1
<1>5. CASE ~m.ack
  <2>1. GetsData(p, m.id)
    BY <1>1, <1>2, <1>3, <1>5 DEF GetsData, DispatchData, core, app, acks, data
  <2> QED  BY <1>3, <2>1
<1> QED  BY <1>4, <1>5

\* Every step is one of these.
LEMMA StepEffect ==
  ASSUME Shape, [Next]_vars
  PROVE  Effect
<1> USE DEF life, app, acks, data, steps
<1>1. ASSUME UNCHANGED <<core, putting, pending, seen, got, outQ, wire, inQ>>
      PROVE  Effect
  <2>1. \A p \in Peers : UNCHANGED Path(p)
    BY <1>1 DEF Path, Unwritten, core
  <2> QED  BY <1>1, <2>1 DEF Effect, Quiet
<1>2. ASSUME NEW p \in Peers, UNCHANGED load, Register(p) PROVE Effect
  <2>1. \A q \in Peers : UNCHANGED Path(q)
    BY <1>2 DEF Path, Unwritten, Register
  <2>2. Registers(p)
    BY <1>2, <2>1 DEF Register, Registers
  <2> QED  BY <2>2 DEF Effect
<1>3. ASSUME NEW p \in Peers, UNCHANGED load, Put(p) PROVE Effect
  <2>1. putting[p] \in Nat /\ Data(putting[p]) \in Messages
    BY MessageFacts DEF Shape
  <2>2. Sends(p, Data(putting[p])) /\ \A q \in Peers \ {p} : UNCHANGED Path(q)
    BY <1>3, <2>1, PutPath DEF Put
  <2>3. Emits(p, putting[p])
    BY <1>3, <2>2 DEF Put, Emits, core
  <2> QED  BY <2>1, <2>3 DEF Effect
<1>4. ASSUME NEW p \in Peers, UNCHANGED load, Requeue(p) PROVE Effect
  <2>1. PICK i \in resend[p] : outQ' = [outQ EXCEPT ![p] = Append(@, Data(i))]
    BY <1>4 DEF Requeue
  <2>2. i \in Nat /\ Data(i) \in Messages
    BY MessageFacts DEF Shape
  <2>3. Sends(p, Data(i)) /\ \A q \in Peers \ {p} : UNCHANGED Path(q)
    BY <1>4, <2>1, <2>2, PutPath DEF Requeue
  <2>4. Emits(p, i)
    BY <1>4, <2>1, <2>3 DEF Requeue, Emits, core
  <2> QED  BY <2>2, <2>4 DEF Effect
<1>5. ASSUME NEW p \in Peers, UNCHANGED load, Stop(p) \/ ReadEnds(p) \/ WriteFails(p) PROVE Effect
  <2>1. /\ running' = [running EXCEPT ![p] = FALSE] /\ UNCHANGED <<wire, inQ>>
        /\ UNCHANGED <<nextId, putting, pending, seen, got>>
        /\ \A q \in Peers \ {p} : outQ'[q] = outQ[q]
    BY <1>5 DEF Stop, ReadEnds, WriteFails, Shape
  <2>2. Cuts(p) /\ \A q \in Peers \ {p} : UNCHANGED Path(q)
    BY <2>1, ClosePath
  <2> QED  BY <1>5, <2>1, <2>2 DEF Effect, Closes
<1>6. ASSUME NEW p \in Peers, UNCHANGED load, Write(p) \/ ReadLine(p) PROVE Effect
  <2>1. \A q \in Peers : UNCHANGED Path(q)
    BY <1>6, WritePath, ReadPath
  <2>2. UNCHANGED <<core, putting, pending, seen, got>>
    BY <1>6 DEF Write, ReadLine, core
  <2> QED  BY <2>1, <2>2 DEF Effect, Quiet
<1>7. ASSUME NEW p \in Peers, UNCHANGED load,
             Establish(p) \/ ThreadEnds(p) \/ Receive(p) \/ Collect(p)
      PROVE  UNCHANGED <<core, putting, pending, seen, got, outQ, wire, inQ>>
  BY <1>7 DEF Establish, ThreadEnds, Receive, Collect, core
<1>8. ASSUME UNCHANGED vars \/ (UNCHANGED load /\ Terminated)
      PROVE  UNCHANGED <<core, putting, pending, seen, got, outQ, wire, inQ>>
  BY <1>8 DEF vars, Terminated, core
<1>9. ASSUME NEW p \in Peers, UNCHANGED load, Dispatch(p) PROVE Effect
  BY <1>9, DispatchEffect DEF Effect
<1> QED
  BY <1>1, <1>2, <1>3, <1>4, <1>5, <1>6, <1>7, <1>8, <1>9 DEF Next, Work

----------------------------------------------------------------------------
(* The window of remembered ids                                            *)

\* The window s holds the last ids of g, all of them until it is full.
Recent(s, g) ==
  /\ Len(s) <= load.window /\ Len(s) <= Len(g)
  /\ \A n \in 1..Len(s) : s[n] = g[Len(g) - Len(s) + n]
  /\ Len(s) < load.window => Len(s) = Len(g)

\* Equal ids in g are more than a window apart.
Spaced(g) ==
  \A m, n \in 1..Len(g) : m < n /\ g[m] = g[n] => n - m > load.window

\* An id that is not in the window may be delivered and remembered.
LEMMA RememberFacts ==
  ASSUME load.window \in Nat \ {0}, NEW s \in Seq(Nat), NEW g \in Seq(Nat), NEW i \in Nat,
         Recent(s, g), Spaced(g), i \notin Elements(s)
  PROVE  /\ Remember(s, i) \in Seq(Nat) /\ Append(g, i) \in Seq(Nat)
         /\ Recent(Remember(s, i), Append(g, i)) /\ Spaced(Append(g, i))
<1> DEFINE a == Append(s, i)
           h == Append(g, i)
           r == Remember(s, i)
<1>1. /\ a \in Seq(Nat) /\ Len(a) = Len(s) + 1 /\ Len(s) \in Nat
      /\ \A n \in 1..Len(s) : a[n] = s[n]
      /\ a[Len(s) + 1] = i
  BY AppendFacts, ElementsFacts
<1>2. /\ h \in Seq(Nat) /\ Len(h) = Len(g) + 1 /\ Len(g) \in Nat
      /\ \A n \in 1..Len(g) : h[n] = g[n]
      /\ h[Len(g) + 1] = i
  BY AppendFacts, ElementsFacts
<1>3. \A n \in 1..Len(s) : s[n] # i
  BY ElementsFacts
<1>4. Spaced(h)
  <2> SUFFICES ASSUME NEW m \in 1..Len(g) + 1, NEW n \in 1..Len(g) + 1, m < n, h[m] = h[n]
               PROVE  n - m > load.window
    BY <1>2 DEF Spaced
  <2>1. CASE n <= Len(g)
    BY <1>2, <2>1 DEF Spaced
  <2>2. CASE n = Len(g) + 1
    <3>1. m \in 1..Len(g) /\ g[m] = i
      BY <1>2, <2>2
    <3>2. CASE m > Len(g) - Len(s)
      <4>1. m - (Len(g) - Len(s)) \in 1..Len(s)
        BY <1>1, <1>2, <3>1, <3>2
      <4>2. s[m - (Len(g) - Len(s))] = g[Len(g) - Len(s) + (m - (Len(g) - Len(s)))]
        BY <4>1 DEF Recent
      <4>3. Len(g) - Len(s) + (m - (Len(g) - Len(s))) = m
        BY <1>1, <1>2, <3>1
      <4> QED  BY <1>3, <3>1, <4>1, <4>2, <4>3
    <3>3. CASE m <= Len(g) - Len(s)
      BY <1>1, <1>2, <2>2, <3>1, <3>3, SMTT(30) DEF Recent
    <3> QED  BY <1>1, <1>2, <3>1, <3>2, <3>3
  <2> QED  BY <1>2, <2>1, <2>2
<1>5. CASE Len(s) + 1 > load.window
  <2>1. a # <<>>
    BY <1>1, EmptySeq, SMTT(30)
  <2>2. r = Tail(a)
    BY <1>5 DEF Remember
  <2> HIDE DEF r, h, a
  <2>3. /\ r \in Seq(Nat) /\ Len(r) = Len(s)
        /\ \A n \in 1..Len(s) : r[n] = a[n + 1]
    <3>1. /\ Tail(a) \in Seq(Nat) /\ Len(Tail(a)) = Len(a) - 1
          /\ \A n \in 1..Len(Tail(a)) : Tail(a)[n] = a[n + 1]
      BY <1>1, <2>1, TailFacts
    <3> QED  BY <1>1, <2>2, <3>1
  <2>4. Len(s) = load.window
    BY <1>1, <1>5 DEF Recent
  <2>5. ASSUME NEW n \in 1..Len(s) PROVE r[n] = h[Len(h) - Len(r) + n]
    <3>1. Len(h) - Len(r) + n = Len(g) - Len(s) + (n + 1)
      BY <1>1, <1>2, <2>3
    <3>2. CASE n = Len(s)
      <4>1. r[n] = i
        BY <1>1, <2>3, <3>2
      <4>2. Len(g) - Len(s) + (n + 1) = Len(g) + 1
        BY <1>1, <1>2, <3>2
      <4> QED  BY <1>2, <3>1, <4>1, <4>2
    <3>3. CASE n < Len(s)
      <4>1. n + 1 \in 1..Len(s)
        BY <1>1, <3>3
      <4>2. r[n] = s[n + 1]
        BY <1>1, <2>3, <4>1
      <4>3. s[n + 1] = g[Len(g) - Len(s) + (n + 1)]
        BY <4>1 DEF Recent
      <4>4. Len(g) - Len(s) + (n + 1) \in 1..Len(g)
        BY <1>1, <1>2, <4>1 DEF Recent
      <4> QED  BY <1>2, <3>1, <4>2, <4>3, <4>4
    <3> QED  BY <1>1, <3>2, <3>3
  <2>6. Recent(r, h)
    BY <1>1, <1>2, <2>3, <2>4, <2>5 DEF Recent
  <2> QED  BY <1>2, <1>4, <2>3, <2>6 DEF r, h
<1>6. CASE ~(Len(s) + 1 > load.window)
  <2>1. r = a
    BY <1>6 DEF Remember
  <2>2. Len(s) = Len(g)
    BY <1>1, <1>6 DEF Recent
  <2> HIDE DEF r, h, a
  <2>3. ASSUME NEW n \in 1..Len(r) PROVE r[n] = h[Len(h) - Len(r) + n]
    <3>1. Len(h) - Len(r) + n = n
      <4>1. Len(r) = Len(s) + 1 /\ Len(h) = Len(s) + 1
        BY <1>1, <1>2, <2>1, <2>2
      <4> QED  BY <1>1, <4>1
    <3>2. CASE n = Len(s) + 1
      BY <1>1, <1>2, <2>1, <2>2, <3>1, <3>2
    <3>3. CASE n <= Len(s)
      <4>1. n \in 1..Len(s) /\ s[n] = g[Len(g) - Len(s) + n]
        BY <1>1, <2>1, <3>3 DEF Recent
      <4>2. Len(g) - Len(s) + n = n
        BY <1>1, <1>2, <2>1, <2>2
      <4> QED  BY <1>1, <1>2, <2>1, <2>2, <3>1, <4>1, <4>2
    <3> QED  BY <1>1, <2>1, <3>2, <3>3
  <2>4. Recent(r, h)
    BY <1>1, <1>2, <1>6, <2>1, <2>2, <2>3 DEF Recent
  <2> QED  BY <1>1, <1>2, <1>4, <2>1, <2>4 DEF r, h
<1> QED  BY <1>5, <1>6

\* Until the window overflows it holds everything that was delivered.
LEMMA RecentIsAll ==
  ASSUME load.window \in Nat \ {0}, NEW s \in Seq(Nat), NEW g \in Seq(Nat),
         Recent(s, g), Len(g) <= load.window
  PROVE  Elements(s) = Elements(g)
<1>1. Len(s) \in Nat /\ Len(g) \in Nat /\ DOMAIN s = 1..Len(s) /\ DOMAIN g = 1..Len(g)
  BY ElementsFacts
<1>2. Len(s) = Len(g)
  <2>1. /\ Len(s) <= load.window /\ Len(s) <= Len(g)
        /\ Len(s) < load.window => Len(s) = Len(g)
    BY DEF Recent
  <2>2. Len(s) \in Nat /\ Len(g) \in Nat /\ load.window \in Nat
    BY <1>1
  <2>3. CASE Len(s) < load.window
    BY <2>1, <2>3
  <2>4. CASE ~(Len(s) < load.window)
    <3>1. load.window <= Len(s)
      BY <2>2, <2>4
    <3> QED  BY <2>1, <2>2, <3>1
  <2> QED  BY <2>3, <2>4
<1>3. \A n \in 1..Len(s) : Len(g) - Len(s) + n = n
  BY <1>1, <1>2
<1>4. \A n \in 1..Len(s) : s[n] = g[n]
  BY <1>3 DEF Recent
<1> QED  BY <1>1, <1>2, <1>4 DEF Elements

\* The window holds nothing but what was delivered.
LEMMA RecentIsDelivered ==
  ASSUME NEW s \in Seq(Nat), NEW g \in Seq(Nat), Recent(s, g)
  PROVE  Elements(s) \subseteq Elements(g)
<1>1. Len(s) \in Nat /\ Len(g) \in Nat /\ DOMAIN s = 1..Len(s) /\ DOMAIN g = 1..Len(g)
  BY ElementsFacts
<1>2. Len(s) <= Len(g)
  BY DEF Recent
<1>3. \A n \in 1..Len(s) : Len(g) - Len(s) + n \in 1..Len(g)
  BY <1>1, <1>2
<1> QED  BY <1>1, <1>3 DEF Recent, Elements

----------------------------------------------------------------------------
(* Order along a path                                                      *)

\* When k payloads have been delivered, every message of the path s comes
\* after all the earlier ones that have not.
InOrder(s, k) ==
  \A n \in 1..Len(s), i \in Nat :
    s[n] = Data(i) => \A j \in 1..i - 1 : j <= k \/ \E m \in 1..n - 1 : s[m] = Data(j)

LEMMA InOrderAppend ==
  ASSUME NEW s \in Seq(Messages), NEW e \in Messages, NEW k \in Nat, InOrder(s, k),
         \A i \in Nat : e = Data(i) => \A j \in 1..i - 1 : j <= k \/ Data(j) \in Elements(s)
  PROVE  InOrder(Append(s, e), k)
<1> DEFINE t == Append(s, e)
<1>1. /\ Len(t) = Len(s) + 1 /\ Len(s) \in Nat /\ t[Len(s) + 1] = e
      /\ \A n \in 1..Len(s) : t[n] = s[n]
  BY AppendFacts, ElementsFacts
<1> HIDE DEF t
<1> SUFFICES ASSUME NEW n \in 1..Len(t), NEW i \in Nat, t[n] = Data(i), NEW j \in 1..i - 1, ~(j <= k)
             PROVE  \E m \in 1..n - 1 : t[m] = Data(j)
  BY DEF InOrder, t
<1>2. CASE n = Len(s) + 1
  <2>1. Data(j) \in Elements(s)
    BY <1>1, <1>2
  <2>2. PICK m \in 1..Len(s) : s[m] = Data(j)
    BY <2>1, ElementsFacts
  <2> QED  BY <1>1, <1>2, <2>2
<1>3. CASE n # Len(s) + 1
  <2>1. n \in 1..Len(s) /\ s[n] = Data(i)
    BY <1>1, <1>3
  <2>2. PICK m \in 1..n - 1 : s[m] = Data(j)
    BY <2>1 DEF InOrder
  <2>3. m \in 1..Len(s)
    BY <1>1, <2>1
  <2> QED  BY <1>1, <2>2, <2>3
<1> QED  BY <1>2, <1>3

LEMMA InOrderTail ==
  ASSUME NEW s \in Seq(Messages), s # <<>>, NEW k \in Nat, NEW l \in Nat, k <= l, InOrder(s, k),
         \A i \in Nat : Head(s) = Data(i) => i <= l
  PROVE  InOrder(Tail(s), l)
<1> DEFINE t == Tail(s)
<1>1. /\ Len(s) \in Nat \ {0} /\ Len(t) = Len(s) - 1 /\ Head(s) = s[1]
      /\ \A n \in 1..Len(t) : t[n] = s[n + 1]
  BY TailFacts
<1> HIDE DEF t
<1> SUFFICES ASSUME NEW n \in 1..Len(t), NEW i \in Nat, t[n] = Data(i), NEW j \in 1..i - 1, ~(j <= l)
             PROVE  \E m \in 1..n - 1 : t[m] = Data(j)
  BY DEF InOrder, t
<1>2. n + 1 \in 1..Len(s) /\ s[n + 1] = Data(i)
  BY <1>1
<1>3. j <= k \/ \E m \in 1..(n + 1) - 1 : s[m] = Data(j)
  BY <1>2 DEF InOrder
<1>4. PICK m \in 1..(n + 1) - 1 : s[m] = Data(j)
  BY <1>3
<1>5. m # 1
  BY <1>1, <1>4
<1>6. m - 1 \in 1..n - 1 /\ m - 1 \in 1..Len(t) /\ t[m - 1] = s[m]
  BY <1>1, <1>4, <1>5
<1> QED  BY <1>4, <1>6

LEMMA InOrderCut ==
  ASSUME NEW s \in Seq(Messages), NEW t \in Seq(Messages), NEW k \in Nat, InOrder(s \o t, k)
  PROVE  InOrder(s, k)
<1> DEFINE u == s \o t
<1>1. /\ Len(u) = Len(s) + Len(t) /\ Len(s) \in Nat /\ Len(t) \in Nat
      /\ \A n \in 1..Len(s) : u[n] = s[n]
  BY ConcatFacts, ElementsFacts
<1>2. InOrder(u, k)
  OBVIOUS
<1> HIDE DEF u
<1> SUFFICES ASSUME NEW n \in 1..Len(s), NEW i \in Nat, s[n] = Data(i), NEW j \in 1..i - 1, ~(j <= k)
             PROVE  \E m \in 1..n - 1 : s[m] = Data(j)
  BY DEF InOrder
<1>3. n \in 1..Len(u) /\ u[n] = Data(i)
  BY <1>1
<1>4. PICK m \in 1..n - 1 : u[m] = Data(j)
  BY <1>2, <1>3 DEF InOrder
<1>5. m \in 1..Len(s)
  BY <1>1
<1> QED  BY <1>1, <1>4, <1>5

LEMMA InOrderHead ==
  ASSUME NEW s \in Seq(Messages), s # <<>>, NEW k \in Nat, InOrder(s, k),
         NEW i \in Nat, Head(s) = Data(i)
  PROVE  i <= k + 1
<1>1. 1 \in 1..Len(s) /\ s[1] = Data(i)
  BY TailFacts
<1>2. \A j \in 1..i - 1 : j <= k \/ \E m \in 1..1 - 1 : s[m] = Data(j)
  BY <1>1 DEF InOrder
<1>3. i - 1 > 0 => i - 1 <= k
  BY <1>2
<1> QED  BY <1>3

----------------------------------------------------------------------------
(* The inductive invariant                                                 *)

On(p) == Elements(Path(p))

\* The bounds on the counters, and which threads there are before the
\* connection is.
Bounds ==
  \A p \in Peers :
    /\ nextId[p] <= load.msgs[p] /\ putting[p] \in {0, nextId[p]}
    /\ pending[p] \cup resend[p] \subseteq 1..nextId[p] /\ taken[p] <= Len(got[p])
    /\ live[p] # {} => connected[p]

\* Only what p has sent is on its path, and reaches the other program.
SentIsOwn ==
  \A p \in Peers, i \in Nat : Data(i) \in On(p) => i \in 1..nextId[p]
GotIsSent ==
  \A p \in Peers : Elements(got[p]) \subseteq 1..nextId[Other(p)]

\* An ACK on the path of p is for a payload that p's program has been given.
AckIsTrue ==
  \A p \in Peers, i \in Nat : Ack(i) \in On(p) => i \in Elements(got[p])

Windows == \A p \in Peers : Recent(seen[p], got[p]) /\ Spaced(got[p])

\* NothingForgotten, told by the paths.
NothingLost ==
  \A p \in Peers : running[p] /\ running[Other(p)] =>
    \A i \in pending[p] : putting[p] = i \/ Data(i) \in On(p) \/ Ack(i) \in On(Other(p))

\* What the window can remember arrives in order: everything sent is on the
\* path or delivered, none overtakes another, and what was delivered is an
\* initial part of what was sent.
InSequence(p) ==
  Fits(p) =>
    LET g == got[Other(p)]
    IN  /\ \A n \in 1..Len(g) : g[n] = n
        /\ InOrder(Path(p), Len(g))
        /\ running[p] => \A j \in 1..nextId[p] :
                           j = putting[p] \/ j <= Len(g) \/ Data(j) \in On(p)

LinkInv ==
  /\ Shape /\ Bounds
  /\ SentIsOwn /\ GotIsSent /\ AckIsTrue /\ Windows
  /\ AckedIsDelivered /\ NothingLost
  /\ \A p \in Peers : InSequence(p)

LEMMA InitLinkInv == Init => LinkInv
<1> SUFFICES ASSUME Init PROVE LinkInv
  OBVIOUS
<1>1. \A S : <<>> \in Seq(S) /\ Len(<<>>) = 0 /\ Elements(<<>>) = {}
  BY EmptySeq, ElementsFacts
<1>2. Shape
  BY <1>1 DEF Init, Shape
<1>3. \A p \in Peers : Path(p) = <<>>
  <2> TAKE p \in Peers
  <2>1. wire[p] = <<>> /\ inQ[Other(p)] = <<>> /\ Unwritten(p) = <<>>
    BY PeerFacts DEF Init, Unwritten
  <2>2. <<>> \o <<>> = <<>>
    BY ConcatEmptySeq, EmptySeq
  <2> QED  BY <2>1, <2>2 DEF Path
<1>4. \A p \in Peers : On(p) = {} /\ Elements(got[p]) = {} /\ Len(got[p]) = 0 /\ Len(seen[p]) = 0
  BY <1>1, <1>3 DEF On, Init
<1>5. Bounds
  BY <1>4, LoadFacts DEF Init, Bounds
<1>6. SentIsOwn /\ GotIsSent /\ AckIsTrue
  BY <1>4, PeerFacts DEF SentIsOwn, GotIsSent, AckIsTrue
<1>7. Windows
  BY <1>4, LoadFacts DEF Init, Windows, Recent, Spaced
<1>8. AckedIsDelivered /\ NothingLost
  BY DEF Init, AckedIsDelivered, NothingLost
<1>9. \A p \in Peers : InSequence(p)
  <2> TAKE p \in Peers
  <2>1. Len(got[Other(p)]) = 0 /\ Len(Path(p)) = 0 /\ nextId[p] = 0
    BY <1>1, <1>3, <1>4, PeerFacts DEF Init
  <2> QED  BY <2>1 DEF InSequence, InOrder
<1> QED  BY <1>2, <1>5, <1>6, <1>7, <1>8, <1>9 DEF LinkInv

----------------------------------------------------------------------------
(* Types and bounds                                                        *)

LEMMA QueueTypes ==
  ASSUME Shape, NEW p \in Peers, NEW q \in Peers
  PROVE  /\ \A m \in Messages : Append(outQ[p], m) \in Seq(Messages)
         /\ outQ[p] # <<>> => Tail(outQ[p]) \in Seq(Messages)
         /\ outQ[p] # <<>> => Append(wire[p], Head(outQ[p])) \in Seq(Messages)
         /\ inQ[p] # <<>> => Tail(inQ[p]) \in Seq(Messages) /\ Head(inQ[p]) \in Messages
         /\ wire[q] # <<>> => Tail(wire[q]) \in Seq(Messages)
         /\ wire[q] # <<>> => Append(inQ[p], Head(wire[q])) \in Seq(Messages)
<1>1. \A s \in Seq(Messages), m \in Messages : Append(s, m) \in Seq(Messages)
  BY AppendFacts
<1>2. \A s \in Seq(Messages) : s # <<>> => Tail(s) \in Seq(Messages) /\ Head(s) \in Messages
  BY TailFacts
<1>3. /\ outQ[p] \in Seq(Messages) /\ wire[p] \in Seq(Messages) /\ inQ[p] \in Seq(Messages)
      /\ wire[q] \in Seq(Messages)
  BY DEF Shape
<1> QED  BY <1>1, <1>2, <1>3

LEMMA WindowTypes ==
  ASSUME Shape, NEW p \in Peers, NEW i \in Nat
  PROVE  /\ Remember(seen[p], i) \in Seq(Nat)
         /\ Append(got[p], i) \in Seq(Nat) /\ Len(Append(got[p], i)) = Len(got[p]) + 1
         /\ Len(got[p]) \in Nat
<1>1. seen[p] \in Seq(Nat) /\ got[p] \in Seq(Nat)
  BY DEF Shape
<1>2. \A s \in Seq(Nat) : Append(s, i) \in Seq(Nat) /\ Append(s, i) # <<>>
  BY AppendProperties
<1>3. Append(seen[p], i) \in Seq(Nat) /\ Append(seen[p], i) # <<>>
  BY <1>1, <1>2
<1>4. Tail(Append(seen[p], i)) \in Seq(Nat)
  BY <1>3, TailFacts
<1> QED  BY <1>1, <1>3, <1>4, AppendFacts, ElementsFacts DEF Remember

LEMMA DispatchShape ==
  ASSUME Shape, Bounds, UNCHANGED load, NEW p \in Peers, Dispatch(p)
  PROVE  Shape' /\ Bounds'
<1> DEFINE m == Head(inQ[p])
<1>1. /\ m \in Messages /\ inQ' = [inQ EXCEPT ![p] = Tail(@)] /\ Tail(inQ[p]) \in Seq(Messages)
      /\ UNCHANGED <<running, connected, nextId, putting, taken, wire>>
      /\ live' = IF running[p] THEN live ELSE [live EXCEPT ![p] = @ \ {"dispatch"}]
      /\ IF m.ack THEN DispatchAck(p, m.id) ELSE DispatchData(p, m.id)
  BY QueueTypes DEF Dispatch, StillLive, app
<1> HIDE DEF m
<1>2. m.id \in Nat /\ Ack(m.id) \in Messages
  BY <1>1, MessageFacts
<1>3. live' \in [Peers -> SUBSET {"receiver", "dispatch"}] /\ \A q \in Peers : live'[q] \subseteq live[q]
  BY <1>1 DEF Shape
<1>4. CASE m.ack
  <2>1. pending' = [pending EXCEPT ![p] = @ \ {m.id}] /\ UNCHANGED <<resend, copies, seen, got, outQ>>
    BY <1>1, <1>4 DEF DispatchAck, data
  <2>2. Shape'
    BY <1>1, <1>3, <2>1 DEF Shape
  <2>3. Bounds'
    BY <1>1, <1>3, <2>1 DEF Bounds, Shape
  <2> QED  BY <2>2, <2>3
<1>5. CASE ~m.ack
  <2>1. UNCHANGED <<pending, resend, copies>> /\ outQ' = [outQ EXCEPT ![p] = Append(@, Ack(m.id))]
    BY <1>1, <1>5 DEF DispatchData, acks
  <2>2. Append(outQ[p], Ack(m.id)) \in Seq(Messages)
    BY <1>2, QueueTypes
  <2>3. /\ seen' \in [Peers -> Seq(Nat)] /\ got' \in [Peers -> Seq(Nat)]
        /\ \A q \in Peers : Len(got[q]) \in Nat /\ Len(got'[q]) \in {Len(got[q]), Len(got[q]) + 1}
    <3>1. /\ Remember(seen[p], m.id) \in Seq(Nat) /\ Append(got[p], m.id) \in Seq(Nat)
          /\ Len(Append(got[p], m.id)) = Len(got[p]) + 1 /\ \A q \in Peers : Len(got[q]) \in Nat
      BY <1>2, WindowTypes
    <3>2. CASE UNCHANGED data
      BY <3>1, <3>2 DEF data, Shape
    <3>3. CASE /\ seen' = [seen EXCEPT ![p] = Remember(@, m.id)]
               /\ got' = [got EXCEPT ![p] = Append(@, m.id)]
      BY <3>1, <3>3 DEF Shape
    <3> QED  BY <1>1, <1>5, <3>2, <3>3 DEF DispatchData
  <2>4. Shape'
    BY <1>1, <1>3, <2>1, <2>2, <2>3 DEF Shape
  <2>5. Bounds'
    <3> SUFFICES ASSUME NEW q \in Peers
                 PROVE  /\ nextId'[q] <= load'.msgs[q] /\ putting'[q] \in {0, nextId'[q]}
                        /\ pending'[q] \cup resend'[q] \subseteq 1..nextId'[q]
                        /\ taken'[q] <= Len(got'[q])
                        /\ live'[q] # {} => connected'[q]
      BY DEF Bounds
    <3>1. taken[q] \in Nat /\ taken[q] <= Len(got[q])
      BY DEF Bounds, Shape
    <3>2. taken'[q] <= Len(got'[q])
      <4>1. taken' = taken
        BY <1>1
      <4>2. Len(got[q]) \in Nat /\ (Len(got'[q]) = Len(got[q]) \/ Len(got'[q]) = Len(got[q]) + 1)
        BY <2>3
      <4> QED  BY <3>1, <4>1, <4>2
    <3>3. live'[q] # {} => connected'[q]
      BY <1>1, <1>3 DEF Bounds
    <3>4. /\ nextId[q] <= load.msgs[q] /\ putting[q] \in {0, nextId[q]}
          /\ pending[q] \cup resend[q] \subseteq 1..nextId[q]
      BY DEF Bounds
    <3> QED  BY <1>1, <2>1, <3>2, <3>3, <3>4
  <2> QED  BY <2>4, <2>5
<1> QED  BY <1>4, <1>5

LEMMA StepShape ==
  ASSUME Shape, Bounds, [Next]_vars
  PROVE  Shape' /\ Bounds'
<1> USE DEF life, app, acks, data, steps
<1>1. CASE UNCHANGED vars \/ (UNCHANGED load /\ Terminated)
  BY <1>1 DEF Shape, Bounds, vars, Terminated
<1>2. ASSUME NEW p \in Peers, UNCHANGED load, Register(p) PROVE Shape' /\ Bounds'
  <2>1. load.msgs[p] \in Nat
    BY LoadFacts DEF Shape
  <2>2. Shape'
    BY <1>2 DEF Register, Shape
  <2>3. nextId[p] \in Nat /\ nextId[p] < load.msgs[p]
    BY <1>2 DEF Register, Shape
  <2>4. Bounds'
    <3> SUFFICES ASSUME NEW q \in Peers
                 PROVE  /\ nextId'[q] <= load'.msgs[q] /\ putting'[q] \in {0, nextId'[q]}
                        /\ pending'[q] \cup resend'[q] \subseteq 1..nextId'[q]
                        /\ taken'[q] <= Len(got'[q])
                        /\ live'[q] # {} => connected'[q]
      BY DEF Bounds
    <3>1. CASE q # p
      BY <1>2, <3>1 DEF Register, Bounds, Shape
    <3>2. CASE q = p
      <4>1. nextId'[p] = nextId[p] + 1 /\ putting'[p] = nextId[p] + 1
            /\ pending'[p] = pending[p] \cup {nextId[p] + 1} /\ resend' = resend
        BY <1>2 DEF Register, Shape
      <4>2. pending[p] \cup resend[p] \subseteq 1..nextId[p]
        BY DEF Bounds
      <4>3. pending'[p] \cup resend'[p] \subseteq 1..nextId'[p]
        BY <2>3, <4>1, <4>2
      <4>4. nextId'[p] <= load'.msgs[p]
        BY <1>2, <2>1, <2>3, <4>1
      <4> QED  BY <1>2, <3>2, <4>1, <4>3, <4>4 DEF Register, Bounds
    <3> QED  BY <3>1, <3>2
  <2> QED  BY <2>2, <2>4
<1>3. ASSUME NEW p \in Peers, UNCHANGED load, Put(p) PROVE Shape' /\ Bounds'
  <2>1. Data(putting[p]) \in Messages
    BY MessageFacts DEF Shape
  <2>2. Shape'
    BY <1>3, <2>1, QueueTypes DEF Put, Shape
  <2>3. Bounds'
    BY <1>3 DEF Put, Bounds, Shape
  <2> QED  BY <2>2, <2>3
<1>4. ASSUME NEW p \in Peers, UNCHANGED load, Requeue(p) PROVE Shape' /\ Bounds'
  <2>1. PICK i \in resend[p] : /\ outQ' = [outQ EXCEPT ![p] = Append(@, Data(i))]
                               /\ resend' = [resend EXCEPT ![p] = @ \ {i}]
    BY <1>4 DEF Requeue
  <2>2. Data(i) \in Messages
    BY MessageFacts DEF Shape
  <2>3. Shape'
    BY <1>4, <2>1, <2>2, QueueTypes DEF Requeue, Shape
  <2>4. Bounds'
    BY <1>4, <2>1 DEF Requeue, Bounds, Shape
  <2> QED  BY <2>3, <2>4
<1>5. ASSUME NEW p \in Peers, UNCHANGED load, Stop(p) \/ ReadEnds(p) \/ WriteFails(p)
      PROVE  Shape' /\ Bounds'
  <2>1. Shape'
    BY <1>5, QueueTypes, ZenonT(60) DEF Stop, ReadEnds, WriteFails, Shape
  <2>2. Bounds'
    BY <1>5 DEF Stop, ReadEnds, WriteFails, Bounds, Shape
  <2> QED  BY <2>1, <2>2
<1>6. ASSUME NEW p \in Peers, UNCHANGED load, Write(p) PROVE Shape' /\ Bounds'
  <2>1. Shape'
    BY <1>6, QueueTypes DEF Write, Shape
  <2>2. Bounds'
    BY <1>6 DEF Write, Bounds
  <2> QED  BY <2>1, <2>2
<1>7. ASSUME NEW p \in Peers, UNCHANGED load, ReadLine(p) PROVE Shape' /\ Bounds'
  <2>1. Shape'
    BY <1>7, PeerFacts, QueueTypes DEF ReadLine, StillLive, Shape
  <2>2. Bounds'
    BY <1>7 DEF ReadLine, StillLive, Bounds, Shape
  <2> QED  BY <2>1, <2>2
<1>8. ASSUME NEW p \in Peers, UNCHANGED load, Establish(p) \/ ThreadEnds(p)
      PROVE  Shape' /\ Bounds'
  <2>1. Shape'
    BY <1>8, ZenonT(60) DEF Establish, ThreadEnds, Shape
  <2>2. Bounds'
    BY <1>8 DEF Establish, ThreadEnds, Bounds, Shape
  <2> QED  BY <2>1, <2>2
<1>9. ASSUME NEW p \in Peers, UNCHANGED load, Receive(p) PROVE Shape' /\ Bounds'
  <2>1. Len(got[p]) \in Nat
    BY ElementsFacts DEF Shape
  <2>2. taken[p] \in Nat /\ taken[p] + 1 <= Len(got[p])
    BY <1>9, <2>1 DEF Receive, Shape
  <2>3. taken' = [taken EXCEPT ![p] = taken[p] + 1]
    BY <1>9 DEF Receive
  <2>4. taken' \in [Peers -> Nat]
    BY <2>2, <2>3 DEF Shape
  <2>5. Shape'
    BY <1>9, <2>4 DEF Receive, Shape
  <2>6. UNCHANGED <<load, nextId, putting, pending, resend, live, connected, got>>
    BY <1>9 DEF Receive
  <2>7. \A q \in Peers : taken'[q] <= Len(got'[q])
    BY <1>9, <2>2, <2>6 DEF Receive, Bounds, Shape
  <2>8. Bounds'
    BY <2>6, <2>7 DEF Bounds
  <2> QED  BY <2>5, <2>8
<1>10. ASSUME NEW p \in Peers, UNCHANGED load, Collect(p) PROVE Shape' /\ Bounds'
  <2>1. PICK S \in SUBSET pending[p] \ {{}} :
          /\ copies[p] + Cardinality(S) <= load.copies[p]
          /\ copies' = [copies EXCEPT ![p] = @ + Cardinality(S)]
          /\ resend' = [resend EXCEPT ![p] = S]
    BY <1>10 DEF Collect
  <2>2. Cardinality(S) \in Nat
    <3>1. pending[p] \subseteq 1..nextId[p] /\ nextId[p] \in Nat
      BY DEF Bounds, Shape
    <3>2. IsFiniteSet(1..nextId[p])
      BY <3>1, FS_Interval
    <3>3. S \subseteq 1..nextId[p]
      BY <3>1
    <3>4. IsFiniteSet(S)
      BY <3>2, <3>3, FS_Subset
    <3> QED  BY <3>4, FS_CardinalityType
  <2>3. Shape'
    BY <1>10, <2>1, <2>2, SMTT(30) DEF Collect, Shape
  <2>4. Bounds'
    BY <1>10, <2>1 DEF Collect, Bounds, Shape
  <2> QED  BY <2>3, <2>4
<1> QED
  BY <1>1, <1>2, <1>3, <1>4, <1>5, <1>6, <1>7, <1>8, <1>9, <1>10, DispatchShape DEF Next, Work

----------------------------------------------------------------------------
(* Each effect keeps the invariant                                         *)

LEMMA OnFacts ==
  ASSUME Shape, NEW p \in Peers
  PROVE  /\ \A m \in Messages : Sends(p, m) =>
              On(p)' = IF running[p] THEN On(p) \cup {m} ELSE On(p)
         /\ Arrives(p) => On(p) = {Head(Path(p))} \cup On(p)'
         /\ Cuts(p) => On(p)' \subseteq On(p)
<1>1. Path(p) \in Seq(Messages)
  BY PathType
<1>2. ASSUME NEW m \in Messages, Sends(p, m)
      PROVE  On(p)' = IF running[p] THEN On(p) \cup {m} ELSE On(p)
  <2>1. Elements(Append(Path(p), m)) = Elements(Path(p)) \cup {m}
    BY <1>1, AppendFacts
  <2> QED  BY <1>2, <2>1 DEF Sends, On
<1>3. ASSUME Arrives(p) PROVE On(p) = {Head(Path(p))} \cup On(p)'
  <2>1. Elements(Path(p)) = {Head(Path(p))} \cup Elements(Tail(Path(p)))
    BY <1>1, <1>3, TailFacts DEF Arrives
  <2> QED  BY <1>3, <2>1 DEF Arrives, On
<1>4. ASSUME Cuts(p) PROVE On(p)' \subseteq On(p)
  <2>1. PICK t \in Seq(Messages) : Path(p)' \in Seq(Messages) /\ Path(p) = Path(p)' \o t
    BY <1>4 DEF Cuts
  <2>2. Elements(Path(p)' \o t) = Elements(Path(p)') \cup Elements(t)
    BY <2>1, ConcatFacts
  <2> QED  BY <2>1, <2>2 DEF On
<1> QED  BY <1>2, <1>3, <1>4

\* Unchanged: the direction from p, in a step that leaves its path alone.
LEMMA SameSequence ==
  ASSUME NEW p \in Peers, InSequence(p), UNCHANGED <<load, Path(p)>>,
         nextId'[p] = nextId[p], putting'[p] = putting[p],
         running'[p] = running[p], got'[Other(p)] = got[Other(p)]
  PROVE  InSequence(p)'
<1>1. On(p)' = On(p) /\ Fits(p)' = Fits(p)
  BY DEF On, Fits
<1> QED  BY <1>1 DEF InSequence, InOrder

LEMMA QuietInv ==
  ASSUME LinkInv, Quiet, Shape', Bounds'
  PROVE  LinkInv'
<1> USE DEF core
<1>1. UNCHANGED <<load, nextId, running, putting, pending, seen, got>>
  BY DEF Quiet
<1>2. \A p \in Peers : On(p)' = On(p)
  BY DEF Quiet, On
<1>3. SentIsOwn' /\ GotIsSent' /\ AckIsTrue'
  BY <1>1, <1>2 DEF LinkInv, SentIsOwn, GotIsSent, AckIsTrue
<1>4. Windows' /\ AckedIsDelivered'
  BY <1>1 DEF LinkInv, Windows, Recent, Spaced, AckedIsDelivered
<1>5. NothingLost'
  BY <1>1, <1>2, PeerFacts DEF LinkInv, NothingLost
<1>6. \A p \in Peers : InSequence(p)'
  BY <1>1, SameSequence DEF LinkInv, Quiet
<1> QED  BY <1>3, <1>4, <1>5, <1>6 DEF LinkInv

LEMMA RegistersInv ==
  ASSUME LinkInv, NEW p \in Peers, Registers(p), Shape', Bounds'
  PROVE  LinkInv'
<1>1. /\ UNCHANGED <<load, running, seen, got>> /\ putting[p] = 0
      /\ nextId' = [nextId EXCEPT ![p] = nextId[p] + 1]
      /\ putting' = [putting EXCEPT ![p] = nextId[p] + 1]
      /\ pending' = [pending EXCEPT ![p] = pending[p] \cup {nextId[p] + 1}]
      /\ \A q \in Peers : UNCHANGED Path(q) /\ On(q)' = On(q)
  BY DEF Registers, LinkInv, Shape, On
<1>2. /\ nextId \in [Peers -> Nat] /\ putting \in [Peers -> Nat]
      /\ pending \in [Peers -> SUBSET Nat]
      /\ \A q \in Peers : 1..nextId[q] \subseteq 1..nextId'[q]
  BY <1>1 DEF LinkInv, Shape
<1>3. SentIsOwn' /\ GotIsSent' /\ AckIsTrue'
  <2>1. SentIsOwn'
    BY <1>1, <1>2 DEF LinkInv, SentIsOwn
  <2>2. GotIsSent'
    BY <1>1, <1>2, PeerFacts DEF LinkInv, GotIsSent
  <2>3. AckIsTrue'
    BY <1>1 DEF LinkInv, AckIsTrue
  <2> QED  BY <2>1, <2>2, <2>3
<1>4. Windows'
  BY <1>1 DEF LinkInv, Windows, Recent, Spaced
<1>5. AckedIsDelivered'
  BY <1>1, <1>2 DEF LinkInv, AckedIsDelivered
<1>6. NothingLost'
  <2> SUFFICES ASSUME NEW q \in Peers, running[q], running[Other(q)], NEW i \in pending'[q]
               PROVE  putting'[q] = i \/ Data(i) \in On(q) \/ Ack(i) \in On(Other(q))
    BY <1>1, PeerFacts DEF NothingLost
  <2>1. CASE q = p /\ i = nextId[p] + 1
    BY <1>1, <1>2, <2>1
  <2>2. CASE ~(q = p /\ i = nextId[p] + 1)
    <3>1. i \in pending[q]
      BY <1>1, <1>2, <2>2
    <3>2. i # 0
      BY <3>1, <1>2 DEF LinkInv, Bounds
    <3>3. putting[q] = i \/ Data(i) \in On(q) \/ Ack(i) \in On(Other(q))
      BY <3>1 DEF LinkInv, NothingLost
    <3> QED  BY <1>1, <3>2, <3>3
  <2> QED  BY <2>1, <2>2
<1>7. ASSUME NEW q \in Peers PROVE InSequence(q)'
  <2>1. CASE q # p
    BY <1>1, <2>1, SameSequence DEF LinkInv
  <2>2. CASE q = p
    <3> SUFFICES ASSUME Fits(p)
                 PROVE  LET g == got[Other(p)]
                        IN  /\ \A n \in 1..Len(g) : g[n] = n
                            /\ InOrder(Path(p), Len(g))
                            /\ running[p] => \A j \in 1..nextId'[p] :
                                               j = putting'[p] \/ j <= Len(g) \/ Data(j) \in On(p)
      BY <1>1, <2>2 DEF InSequence, Fits, InOrder
    <3>1. InSequence(p)
      BY DEF LinkInv
    <3>2. ASSUME running[p], NEW j \in 1..nextId'[p]
          PROVE  j = putting'[p] \/ j <= Len(got[Other(p)]) \/ Data(j) \in On(p)
      <4>1. CASE j = nextId[p] + 1
        BY <1>1, <1>2, <4>1
      <4>2. CASE j # nextId[p] + 1
        <5>1. j \in 1..nextId[p] /\ j # putting[p]
          BY <1>1, <1>2, <4>2
        <5> QED  BY <3>1, <3>2, <5>1 DEF InSequence
      <4> QED  BY <4>1, <4>2
    <3> QED  BY <3>1, <3>2 DEF InSequence
  <2> QED  BY <2>1, <2>2
<1> QED  BY <1>3, <1>4, <1>5, <1>6, <1>7 DEF LinkInv

LEMMA EmitsInv ==
  ASSUME LinkInv, NEW p \in Peers, NEW i \in Nat, Emits(p, i), Shape', Bounds'
  PROVE  LinkInv'
<1>1. /\ UNCHANGED <<load, nextId, running, pending, seen, got>>
      /\ \A q \in Peers \ {p} : UNCHANGED Path(q) /\ On(q)' = On(q)
  BY DEF Emits, core, On
<1>2. i \in 1..nextId[p]
  BY SMTT(30) DEF Emits, LinkInv, Bounds, Shape
<1>3. Data(i) \in Messages
  BY MessageFacts
<1>4. On(p)' = IF running[p] THEN On(p) \cup {Data(i)} ELSE On(p)
  BY <1>3, OnFacts DEF Emits, LinkInv
<1>5. \A q \in Peers : putting'[q] = putting[q] \/ (q = p /\ putting[q] = i /\ putting'[q] = 0)
  BY DEF Emits, LinkInv, Shape
<1>6. SentIsOwn' /\ GotIsSent' /\ AckIsTrue'
  <2>1. SentIsOwn'
    BY <1>1, <1>2, <1>4, MessageFacts DEF LinkInv, SentIsOwn
  <2>2. GotIsSent'
    BY <1>1 DEF LinkInv, GotIsSent
  <2>3. AckIsTrue'
    BY <1>1, <1>4, MessageFacts DEF LinkInv, AckIsTrue
  <2> QED  BY <2>1, <2>2, <2>3
<1>7. Windows' /\ AckedIsDelivered'
  BY <1>1 DEF LinkInv, Windows, Recent, Spaced, AckedIsDelivered
<1>8. NothingLost'
  <2> SUFFICES ASSUME NEW q \in Peers, running[q], running[Other(q)], NEW j \in pending[q]
               PROVE  putting'[q] = j \/ Data(j) \in On(q)' \/ Ack(j) \in On(Other(q))'
    BY <1>1, PeerFacts DEF NothingLost
  <2>1. putting[q] = j \/ Data(j) \in On(q) \/ Ack(j) \in On(Other(q))
    BY DEF LinkInv, NothingLost
  <2>2. On(q) \subseteq On(q)' /\ On(Other(q)) \subseteq On(Other(q))'
    BY <1>1, <1>4, PeerFacts
  <2> QED  BY <1>4, <1>5, <2>1, <2>2
<1>9. ASSUME NEW q \in Peers PROVE InSequence(q)'
  <2>1. CASE q # p
    BY <1>1, <1>5, <2>1, SameSequence DEF LinkInv
  <2>2. CASE q = p
    <3> DEFINE k == Len(got[Other(p)])
    <3> SUFFICES ASSUME Fits(p)
                 PROVE  /\ \A n \in 1..k : got[Other(p)][n] = n
                        /\ InOrder(Path(p)', k)
                        /\ running[p] => \A j \in 1..nextId[p] :
                                           j = putting'[p] \/ j <= k \/ Data(j) \in On(p)'
      BY <1>1, <2>2 DEF InSequence, Fits, InOrder
    <3>1. /\ \A n \in 1..k : got[Other(p)][n] = n
          /\ InOrder(Path(p), k)
          /\ running[p] => \A j \in 1..nextId[p] : j = putting[p] \/ j <= k \/ Data(j) \in On(p)
      BY DEF LinkInv, InSequence
    <3>2. CASE ~running[p]
      BY <3>1, <3>2 DEF Emits, Sends
    <3>3. CASE running[p]
      <4>1. Path(p) \in Seq(Messages) /\ k \in Nat /\ nextId[p] \in Nat
        <5>1. got[Other(p)] \in Seq(Nat) /\ nextId[p] \in Nat
          BY PeerFacts DEF LinkInv, Shape
        <5>2. k \in Nat
          BY <5>1, ElementsFacts
        <5> QED  BY <5>1, <5>2, PathType DEF LinkInv
      <4>2. ASSUME NEW n \in Nat, Data(i) = Data(n), NEW j \in 1..n - 1
            PROVE  j <= k \/ Data(j) \in Elements(Path(p))
        <5>1. n = i
          BY <4>2, MessageFacts
        <5>2. j \in 1..nextId[p] /\ j # nextId[p] /\ j # 0
          BY <1>2, <4>1, <5>1
        <5>3. j # putting[p]
          BY <5>2 DEF LinkInv, Bounds
        <5> QED  BY <3>1, <3>3, <5>2, <5>3 DEF On
      <4> HIDE DEF k
      <4>3. InOrder(Append(Path(p), Data(i)), k)
        BY <1>3, <3>1, <4>1, <4>2, InOrderAppend
      <4>4. Path(p)' = Append(Path(p), Data(i))
        BY <3>3 DEF Emits, Sends
      <4> QED  BY <1>4, <1>5, <3>1, <3>3, <4>3, <4>4
    <3> QED  BY <3>2, <3>3
  <2> QED  BY <2>1, <2>2
<1> QED  BY <1>6, <1>7, <1>8, <1>9 DEF LinkInv

LEMMA ClosesInv ==
  ASSUME LinkInv, NEW p \in Peers, Closes(p), Shape', Bounds'
  PROVE  LinkInv'
<1>1. /\ UNCHANGED <<load, nextId, putting, pending, seen, got>>
      /\ running' = [running EXCEPT ![p] = FALSE]
      /\ \A q \in Peers \ {p} : UNCHANGED Path(q) /\ On(q)' = On(q)
  BY DEF Closes, On
<1>2. \A q \in Peers : On(q)' \subseteq On(q)
  BY <1>1, OnFacts DEF Closes, LinkInv
<1>3. SentIsOwn' /\ GotIsSent' /\ AckIsTrue'
  BY <1>1, <1>2 DEF LinkInv, SentIsOwn, GotIsSent, AckIsTrue
<1>4. Windows' /\ AckedIsDelivered'
  BY <1>1 DEF LinkInv, Windows, Recent, Spaced, AckedIsDelivered
<1>5. \A q \in Peers : ~(running'[q] /\ running'[Other(q)])
  BY <1>1 DEF Peers, Other, LinkInv, Shape
<1>6. NothingLost'
  BY <1>5 DEF NothingLost
<1>7. ASSUME NEW q \in Peers PROVE InSequence(q)'
  <2>1. CASE q # p
    BY <1>1, <2>1, SameSequence DEF LinkInv, Shape
  <2>2. CASE q = p
    <3> DEFINE k == Len(got[Other(p)])
    <3> SUFFICES ASSUME Fits(p)
                 PROVE  /\ \A n \in 1..k : got[Other(p)][n] = n
                        /\ InOrder(Path(p)', k) /\ ~running'[p]
      BY <1>1, <2>2 DEF InSequence, Fits, InOrder
    <3>1. PICK t \in Seq(Messages) : Path(p)' \in Seq(Messages) /\ Path(p) = Path(p)' \o t
      BY DEF Closes, Cuts
    <3>2. ~running'[p] /\ k \in Nat
      BY <1>1, PeerFacts, ElementsFacts DEF LinkInv, Shape
    <3>3. InOrder(Path(p), k) /\ \A n \in 1..k : got[Other(p)][n] = n
      BY DEF LinkInv, InSequence
    <3> HIDE DEF k
    <3>4. InOrder(Path(p)', k)
      BY <3>1, <3>2, <3>3, InOrderCut
    <3> QED  BY <3>2, <3>3, <3>4
  <2> QED  BY <2>1, <2>2
<1> QED  BY <1>3, <1>4, <1>6, <1>7 DEF LinkInv

LEMMA GetsAckInv ==
  ASSUME LinkInv, NEW p \in Peers, NEW i \in Nat, GetsAck(p, i), Shape', Bounds'
  PROVE  LinkInv'
<1> DEFINE q == Other(p)
<1>1. /\ UNCHANGED <<load, nextId, running, putting, seen, got>>
      /\ pending' = [pending EXCEPT ![p] = @ \ {i}]
      /\ Arrives(q) /\ Head(Path(q)) = Ack(i) /\ UNCHANGED Path(p) /\ On(p)' = On(p)
  BY DEF GetsAck, core, On
<1>2. q \in Peers /\ q # p /\ Other(q) = p /\ \A r \in Peers : r = p \/ r = q
  BY DEF Peers, Other
<1>3. On(q) = {Ack(i)} \cup On(q)'
  BY <1>1, <1>2, OnFacts DEF LinkInv
<1>4. \A j \in Nat : Data(j) \in On(q) => Data(j) \in On(q)'
  BY <1>3, MessageFacts
<1>5. \A r \in Peers : On(r)' \subseteq On(r)
  BY <1>1, <1>2, <1>3
<1>6. \A r \in Peers : pending'[r] \subseteq pending[r]
  BY <1>1 DEF LinkInv, Shape
<1> HIDE DEF q
<1>7. SentIsOwn' /\ GotIsSent' /\ AckIsTrue' /\ Windows'
  <2>1. SentIsOwn'
    BY <1>1, <1>5 DEF LinkInv, SentIsOwn
  <2>2. GotIsSent' /\ Windows'
    BY <1>1 DEF LinkInv, GotIsSent, Windows, Recent, Spaced
  <2>3. AckIsTrue'
    BY <1>1, <1>5 DEF LinkInv, AckIsTrue
  <2> QED  BY <2>1, <2>2, <2>3
<1>8. AckedIsDelivered'
  <2> SUFFICES ASSUME NEW r \in Peers, NEW j \in 1..nextId[r], j \notin pending'[r]
               PROVE  j \in Elements(got[Other(r)])
    BY <1>1 DEF AckedIsDelivered
  <2>1. CASE j \notin pending[r]
    BY <2>1 DEF LinkInv, AckedIsDelivered
  <2>2. CASE j \in pending[r]
    <3>1. r = p /\ j = i
      BY <1>1, <2>2 DEF LinkInv, Shape
    <3>2. i \in Elements(got[q])
      BY <1>2, <1>3 DEF LinkInv, AckIsTrue
    <3> QED  BY <3>1, <3>2 DEF q
  <2> QED  BY <2>1, <2>2
<1>9. NothingLost'
  <2> SUFFICES ASSUME NEW r \in Peers, running[r], running[Other(r)], NEW j \in pending'[r]
               PROVE  putting[r] = j \/ Data(j) \in On(r)' \/ Ack(j) \in On(Other(r))'
    BY <1>1, PeerFacts DEF NothingLost
  <2>1. putting[r] = j \/ Data(j) \in On(r) \/ Ack(j) \in On(Other(r))
    BY <1>6 DEF LinkInv, NothingLost
  <2>2. j \in Nat
    BY <1>6 DEF LinkInv, Shape
  <2>3. CASE r = q
    BY <1>1, <1>2, <1>4, <2>1, <2>2, <2>3
  <2>4. CASE r = p
    <3>1. j # i
      BY <1>1, <2>4 DEF LinkInv, Shape
    <3>2. Ack(j) # Ack(i)
      <4>1. Ack(j).id = j /\ Ack(i).id = i
        BY DEF Ack
      <4> QED  BY <3>1, <4>1
    <3> QED  BY <1>1, <1>3, <2>1, <2>4, <3>2 DEF q
  <2> QED  BY <1>2, <2>3, <2>4
<1>10. InSequence(p)'
  BY <1>1, SameSequence DEF LinkInv
<1>11. InSequence(q)'
  <2> DEFINE k == Len(got[p])
  <2> SUFFICES ASSUME Fits(q)
               PROVE  /\ \A n \in 1..k : got[p][n] = n
                      /\ InOrder(Path(q)', k)
                      /\ running[q] => \A j \in 1..nextId[q] :
                                         j = putting[q] \/ j <= k \/ Data(j) \in On(q)'
    BY <1>1, <1>2 DEF InSequence, Fits, InOrder
  <2>1. /\ \A n \in 1..k : got[p][n] = n
        /\ InOrder(Path(q), k)
        /\ running[q] => \A j \in 1..nextId[q] : j = putting[q] \/ j <= k \/ Data(j) \in On(q)
    BY <1>2 DEF LinkInv, InSequence
  <2>2. got[p] \in Seq(Nat) /\ nextId[q] \in Nat
    BY <1>2 DEF LinkInv, Shape
  <2>3. k \in Nat /\ Path(q) \in Seq(Messages)
    BY <1>2, <2>2, ElementsFacts, PathType DEF LinkInv
  <2>4. Path(q) # <<>> /\ Path(q)' = Tail(Path(q))
    BY <1>1 DEF Arrives
  <2>5. \A n \in Nat : Head(Path(q)) # Data(n)
    BY <1>1, MessageFacts
  <2> HIDE DEF k
  <2>6. InOrder(Tail(Path(q)), k)
    BY <2>1, <2>3, <2>4, <2>5, InOrderTail
  <2> QED  BY <1>4, <2>1, <2>2, <2>4, <2>6
<1> QED  BY <1>2, <1>7, <1>8, <1>9, <1>10, <1>11 DEF LinkInv

\* What is remembered and delivered when Data(i) is dispatched.
LEMMA DeliveryFacts ==
  ASSUME LinkInv, NEW p \in Peers, NEW i \in Nat, GetsData(p, i)
  PROVE  /\ i \in 1..nextId[Other(p)]
         /\ Recent(seen'[p], got'[p]) /\ Spaced(got'[p])
         /\ Elements(got'[p]) = Elements(got[p]) \cup {i}
         /\ \A r \in Peers \ {p} : seen'[r] = seen[r] /\ got'[r] = got[r]
<1>1. /\ seen[p] \in Seq(Nat) /\ got[p] \in Seq(Nat) /\ load.window \in Nat \ {0}
      /\ Recent(seen[p], got[p]) /\ Spaced(got[p])
  BY LoadFacts DEF LinkInv, Shape, Windows
<1>2. i \in 1..nextId[Other(p)]
  <2>1. Data(i) \in On(Other(p))
    BY PeerFacts, OnFacts DEF LinkInv, GetsData
  <2> QED  BY <2>1, PeerFacts DEF LinkInv, SentIsOwn
<1>3. \A r \in Peers \ {p} : seen'[r] = seen[r] /\ got'[r] = got[r]
  BY DEF GetsData, LinkInv, Shape
<1>4. CASE i \in Elements(seen[p])
  <2>1. UNCHANGED <<seen, got>>
    BY <1>4 DEF GetsData
  <2>2. i \in Elements(got[p])
    BY <1>1, <1>4, RecentIsDelivered
  <2> QED  BY <1>1, <1>2, <1>3, <2>1, <2>2
<1>5. CASE i \notin Elements(seen[p])
  <2>1. seen'[p] = Remember(seen[p], i) /\ got'[p] = Append(got[p], i)
    BY <1>5 DEF GetsData, LinkInv, Shape
  <2>2. Recent(Remember(seen[p], i), Append(got[p], i)) /\ Spaced(Append(got[p], i))
    BY <1>1, <1>5, RememberFacts
  <2>3. Elements(Append(got[p], i)) = Elements(got[p]) \cup {i}
    BY <1>1, AppendFacts
  <2> QED  BY <1>2, <1>3, <2>1, <2>2, <2>3
<1> QED  BY <1>4, <1>5

\* As long as the window remembers everything, what comes next is a copy of
\* what was delivered, or the first that was not.
LEMMA DeliveryInOrder ==
  ASSUME LinkInv, NEW p \in Peers, NEW i \in Nat, GetsData(p, i), Fits(Other(p))
  PROVE  LET k == Len(got[p])
         IN  /\ k \in Nat
             /\ i \in Elements(seen[p]) => i <= k /\ got' = got
             /\ i \notin Elements(seen[p]) =>
                  i = k + 1 /\ got'[p] = Append(got[p], i) /\ Len(got'[p]) = k + 1
             /\ \A n \in 1..Len(got'[p]) : got'[p][n] = n
<1> DEFINE q == Other(p)
           k == Len(got[p])
<1>1. q \in Peers /\ Other(q) = p
  BY PeerFacts
<1>2. /\ seen[p] \in Seq(Nat) /\ got[p] \in Seq(Nat) /\ load.window \in Nat \ {0}
      /\ Recent(seen[p], got[p]) /\ nextId[q] \in Nat /\ load.msgs[q] \in Nat
  BY <1>1, LoadFacts DEF LinkInv, Shape, Windows
<1>3. k \in Nat /\ DOMAIN got[p] = 1..k
  BY <1>2, ElementsFacts
<1>4. /\ \A n \in 1..k : got[p][n] = n
      /\ InOrder(Path(q), k)
  BY <1>1 DEF LinkInv, InSequence
<1>5. k <= nextId[q]
  <2>1. CASE k = 0
    BY <1>2, <2>1
  <2>2. CASE k # 0
    <3>1. k \in DOMAIN got[p] /\ got[p][k] = k
      <4> HIDE DEF k
      <4> QED  BY <1>3, <1>4, <2>2
    <3>2. k \in Elements(got[p])
      BY <3>1 DEF Elements
    <3>3. Elements(got[p]) \subseteq 1..nextId[q]
      BY DEF LinkInv, GotIsSent
    <3> QED  BY <1>2, <3>2, <3>3
  <2> QED  BY <2>1, <2>2
<1>6. nextId[q] <= load.msgs[q] /\ load.msgs[q] <= load.window
  BY <1>1 DEF LinkInv, Bounds, Fits
<1>7. k <= load.window
  BY <1>2, <1>3, <1>5, <1>6
<1>8. Elements(seen[p]) = Elements(got[p])
  BY <1>2, <1>7, RecentIsAll
<1>9. i <= k + 1
  <2>1. Path(q) # <<>> /\ Head(Path(q)) = Data(i) /\ Path(q) \in Seq(Messages)
    BY <1>1, PathType DEF GetsData, Arrives, LinkInv
  <2> HIDE DEF k
  <2> QED  BY <1>3, <1>4, <2>1, InOrderHead
<1>10. i \in 1..nextId[q]
  BY DeliveryFacts
<1>11. CASE i \in Elements(seen[p])
  <2>1. got' = got
    BY <1>11 DEF GetsData
  <2>2. PICK n \in 1..k : got[p][n] = i
    BY <1>3, <1>8, <1>11 DEF Elements
  <2>3. i <= k
    BY <1>3, <1>4, <2>2
  <2> QED  BY <1>3, <1>4, <1>11, <2>1, <2>3
<1>12. CASE i \notin Elements(seen[p])
  <2>1. got'[p] = Append(got[p], i)
    BY <1>12 DEF GetsData, LinkInv, Shape
  <2>2. ~(i <= k)
    <3>1. ASSUME i <= k PROVE FALSE
      <4>1. i \in DOMAIN got[p] /\ got[p][i] = i
        BY <1>3, <1>4, <1>10, <3>1
      <4> QED  BY <1>8, <1>12, <4>1 DEF Elements
    <3> QED  BY <3>1
  <2>3. i = k + 1
    BY <1>3, <1>9, <2>2
  <2>4. /\ Len(Append(got[p], i)) = k + 1 /\ Append(got[p], i)[k + 1] = i
        /\ \A n \in 1..k : Append(got[p], i)[n] = got[p][n]
    BY <1>2, AppendFacts
  <2>5. \A n \in 1..k + 1 : Append(got[p], i)[n] = n
    BY <1>3, <1>4, <2>3, <2>4
  <2> QED  BY <1>3, <1>12, <2>1, <2>3, <2>4, <2>5
<1> QED  BY <1>11, <1>12

LEMMA GetsDataInv ==
  ASSUME LinkInv, NEW p \in Peers, NEW i \in Nat, GetsData(p, i), Shape', Bounds'
  PROVE  LinkInv'
<1> DEFINE q == Other(p)
<1>1. /\ UNCHANGED <<load, nextId, running, putting, pending>>
      /\ Arrives(q) /\ Head(Path(q)) = Data(i) /\ Sends(p, Ack(i))
  BY DEF GetsData, core
<1>2. q \in Peers /\ q # p /\ Other(q) = p /\ \A r \in Peers : r = p \/ r = q
  BY DEF Peers, Other
<1>3. On(q) = {Data(i)} \cup On(q)'
  BY <1>1, <1>2, OnFacts DEF LinkInv
<1>4. On(p)' = IF running[p] THEN On(p) \cup {Ack(i)} ELSE On(p)
  BY <1>1, OnFacts, MessageFacts DEF LinkInv
<1>5. /\ i \in 1..nextId[q]
      /\ Recent(seen'[p], got'[p]) /\ Spaced(got'[p])
      /\ Elements(got'[p]) = Elements(got[p]) \cup {i}
      /\ seen'[q] = seen[q] /\ got'[q] = got[q]
  BY <1>2, DeliveryFacts
<1>6. \A j \in Nat : /\ Data(j) \in On(p)' <=> Data(j) \in On(p)
                     /\ Ack(j) \in On(q)' <=> Ack(j) \in On(q)
                     /\ Ack(j) \in On(p)' => j = i \/ Ack(j) \in On(p)
                     /\ Data(j) \in On(q) => j = i \/ Data(j) \in On(q)'
  <2> TAKE j \in Nat
  <2>1. Data(j) # Ack(i) /\ Ack(j) # Data(i)
    BY MessageFacts
  <2>2. Ack(j) = Ack(i) => j = i
    <3>1. Ack(j).id = j /\ Ack(i).id = i
      BY DEF Ack
    <3> QED  BY <3>1
  <2>3. Data(j) = Data(i) => j = i
    BY MessageFacts
  <2> QED  BY <1>3, <1>4, <2>1, <2>2, <2>3
<1> HIDE DEF q
<1>7. SentIsOwn'
  <2> SUFFICES ASSUME NEW r \in Peers, NEW j \in Nat, Data(j) \in On(r)'
               PROVE  j \in 1..nextId[r]
    BY <1>1 DEF SentIsOwn
  <2>1. Data(j) \in On(r)
    BY <1>2, <1>3, <1>6
  <2> QED  BY <2>1 DEF LinkInv, SentIsOwn
<1>8. GotIsSent'
  <2> SUFFICES ASSUME NEW r \in Peers PROVE Elements(got'[r]) \subseteq 1..nextId[Other(r)]
    BY <1>1 DEF GotIsSent
  <2>1. Elements(got[r]) \subseteq 1..nextId[Other(r)]
    BY DEF LinkInv, GotIsSent
  <2>2. CASE r = p
    BY <1>5, <2>1, <2>2 DEF q
  <2>3. CASE r = q
    BY <1>5, <2>1, <2>3
  <2> QED  BY <1>2, <2>2, <2>3
<1>9. \A r \in Peers : Elements(got[r]) \subseteq Elements(got'[r])
  BY <1>2, <1>5
<1>10. AckIsTrue'
  <2> SUFFICES ASSUME NEW r \in Peers, NEW j \in Nat, Ack(j) \in On(r)'
               PROVE  j \in Elements(got'[r])
    BY DEF AckIsTrue
  <2>1. (r = p /\ j = i) \/ Ack(j) \in On(r)
    BY <1>2, <1>6
  <2>2. CASE r = p /\ j = i
    BY <1>5, <2>2
  <2>3. CASE Ack(j) \in On(r)
    BY <1>9, <2>3 DEF LinkInv, AckIsTrue
  <2> QED  BY <2>1, <2>2, <2>3
<1>11. Windows'
  <2> SUFFICES ASSUME NEW r \in Peers PROVE Recent(seen'[r], got'[r]) /\ Spaced(got'[r])
    BY <1>1 DEF Windows, Recent, Spaced
  <2> QED  BY <1>2, <1>5 DEF LinkInv, Windows
<1>12. AckedIsDelivered'
  BY <1>1, <1>9, PeerFacts DEF LinkInv, AckedIsDelivered
<1>13. NothingLost'
  <2> SUFFICES ASSUME NEW r \in Peers, running[r], running[Other(r)], NEW j \in pending[r]
               PROVE  putting[r] = j \/ Data(j) \in On(r)' \/ Ack(j) \in On(Other(r))'
    BY <1>1, PeerFacts DEF NothingLost
  <2>1. (putting[r] = j \/ Data(j) \in On(r) \/ Ack(j) \in On(Other(r))) /\ j \in Nat
    BY DEF LinkInv, NothingLost, Shape
  <2>2. CASE r = p
    BY <1>6, <2>1, <2>2 DEF q
  <2>3. CASE r = q
    <3>1. CASE j = i
      BY <1>2, <1>4, <2>3, <3>1
    <3>2. CASE j # i
      BY <1>2, <1>4, <1>6, <2>1, <2>3, <3>2
    <3> QED  BY <3>1, <3>2
  <2> QED  BY <1>2, <2>2, <2>3
<1>14. InSequence(p)'
  <2> DEFINE k == Len(got[q])
  <2> SUFFICES ASSUME Fits(p)
               PROVE  /\ \A n \in 1..k : got[q][n] = n
                      /\ InOrder(Path(p)', k)
                      /\ running[p] => \A j \in 1..nextId[p] :
                                         j = putting[p] \/ j <= k \/ Data(j) \in On(p)'
    BY <1>1, <1>5 DEF InSequence, Fits, InOrder, q
  <2>1. /\ \A n \in 1..k : got[q][n] = n
        /\ InOrder(Path(p), k)
        /\ running[p] => \A j \in 1..nextId[p] : j = putting[p] \/ j <= k \/ Data(j) \in On(p)
    BY DEF LinkInv, InSequence, q
  <2>2. got[q] \in Seq(Nat) /\ nextId[p] \in Nat
    BY <1>2 DEF LinkInv, Shape
  <2>3. k \in Nat /\ Path(p) \in Seq(Messages) /\ Ack(i) \in Messages
    BY <2>2, ElementsFacts, PathType, MessageFacts DEF LinkInv
  <2>4. \A n \in Nat : Ack(i) # Data(n)
    BY MessageFacts
  <2> HIDE DEF k
  <2>5. InOrder(Append(Path(p), Ack(i)), k)
    BY <2>1, <2>3, <2>4, InOrderAppend
  <2>6. InOrder(Path(p)', k)
    BY <1>1, <2>1, <2>5 DEF Sends
  <2> QED  BY <1>4, <2>1, <2>6
<1>15. InSequence(q)'
  <2> DEFINE k == Len(got[p])
             l == Len(got'[p])
  <2> SUFFICES ASSUME Fits(q)
               PROVE  /\ \A n \in 1..l : got'[p][n] = n
                      /\ InOrder(Path(q)', l)
                      /\ running[q] => \A j \in 1..nextId[q] :
                                         j = putting[q] \/ j <= l \/ Data(j) \in On(q)'
    BY <1>1, <1>2 DEF InSequence, Fits, InOrder
  <2>1. /\ k \in Nat /\ l \in {k, k + 1} /\ i <= l
        /\ \A n \in 1..l : got'[p][n] = n
    BY DeliveryInOrder DEF q
  <2>2. /\ InOrder(Path(q), k)
        /\ running[q] => \A j \in 1..nextId[q] : j = putting[q] \/ j <= k \/ Data(j) \in On(q)
    BY <1>2 DEF LinkInv, InSequence
  <2>3. Path(q) \in Seq(Messages) /\ nextId[q] \in Nat
    BY <1>2, PathType DEF LinkInv, Shape
  <2>4. Path(q) # <<>> /\ Path(q)' = Tail(Path(q))
    BY <1>1 DEF Arrives
  <2>5. \A n \in Nat : Head(Path(q)) = Data(n) => n <= l
    BY <1>1, <2>1, MessageFacts
  <2> HIDE DEF k, l
  <2>6. InOrder(Tail(Path(q)), l)
    BY <2>1, <2>2, <2>3, <2>4, <2>5, InOrderTail
  <2>7. ASSUME running[q], NEW j \in 1..nextId[q]
        PROVE  j = putting[q] \/ j <= l \/ Data(j) \in On(q)'
    BY <1>6, <2>1, <2>2, <2>3, <2>7
  <2> QED  BY <2>1, <2>4, <2>6, <2>7 DEF l
<1> QED  BY <1>2, <1>7, <1>8, <1>10, <1>11, <1>12, <1>13, <1>14, <1>15 DEF LinkInv

LEMMA StepLinkInv == LinkInv /\ [Next]_vars => LinkInv'
<1> SUFFICES ASSUME LinkInv, [Next]_vars PROVE LinkInv'
  OBVIOUS
<1>1. Shape' /\ Bounds'
  BY StepShape DEF LinkInv
<1>2. Effect
  BY StepEffect DEF LinkInv
<1> QED
  BY <1>1, <1>2, QuietInv, RegistersInv, EmitsInv, ClosesInv, GetsAckInv, GetsDataInv DEF Effect

----------------------------------------------------------------------------
(* Each direction implements ReliableLink                                  *)

\* The steps of ReliableLink, for the direction from p.
LinkNext(p) ==
  \/ /\ Accepted(p)' = Accepted(p) + 1
     /\ UNCHANGED <<Delivered(p), State(p)>>
  \/ /\ State(p) = "open" /\ State(p)' \in {"open", "closed"}
     /\ Len(Delivered(p)) < Accepted(p)
     /\ Delivered(p)' = Append(Delivered(p), Len(Delivered(p)) + 1)
     /\ UNCHANGED Accepted(p)
  \/ /\ State(p) = "new" /\ State(p)' = "open"
     /\ UNCHANGED <<Accepted(p), Delivered(p)>>
  \/ /\ State(p) = "open" /\ State(p)' = "closed"
     /\ UNCHANGED <<Accepted(p), Delivered(p)>>

LinkStutters(p) == UNCHANGED <<Accepted(p), Delivered(p), State(p)>>

\* A load that does not fit is left out.
LEMMA LeftOut ==
  ASSUME UNCHANGED load, NEW p \in Peers, ~Fits(p)
  PROVE  LinkStutters(p)
BY DEF LinkStutters, Accepted, Delivered, State, Fits

\* The dispatch of a message at the end of the direction.
LEMMA DispatchLink ==
  ASSUME LinkInv, UNCHANGED load, NEW p \in Peers, Fits(p), Dispatch(Other(p))
  PROVE  LinkNext(p) \/ LinkStutters(p)
<1> DEFINE q == Other(p)
<1>1. q \in Peers /\ Other(q) = p
  BY PeerFacts
<1>2. PICK i \in Nat : GetsAck(q, i) \/ GetsData(q, i)
  BY <1>1, DispatchEffect DEF LinkInv
<1>3. /\ "dispatch" \in live[q] /\ UNCHANGED <<connected, nextId>>
      /\ live' = IF running[q] THEN live ELSE [live EXCEPT ![q] = @ \ {"dispatch"}]
  BY DEF Dispatch, StillLive, app
<1>4. connected[q]
  BY <1>1, <1>3 DEF LinkInv, Bounds
<1>5. /\ Fits(p)' /\ Accepted(p) = nextId[p] /\ UNCHANGED Accepted(p)
      /\ Delivered(p) = got[q] /\ Delivered(p)' = got'[q]
  BY <1>3 DEF Fits, Accepted, Delivered
<1>6. LinkState(q) = "open" /\ LinkState(q)' \in {"open", "closed"}
  BY <1>1, <1>3, <1>4 DEF LinkState, LinkInv, Shape
<1>7. State(p) = "open" /\ State(p)' \in {"open", "closed"}
  BY <1>5, <1>6 DEF State
<1>8. CASE got'[q] = got[q]
  BY <1>5, <1>7, <1>8 DEF LinkNext, LinkStutters
<1>9. CASE got'[q] # got[q]
  <2>1. GetsData(q, i)
    BY <1>2, <1>9 DEF GetsAck
  <2>2. i \notin Elements(seen[q])
    BY <1>9, <2>1 DEF GetsData
  <2>3. Len(got[q]) \in Nat /\ i = Len(got[q]) + 1 /\ got'[q] = Append(got[q], i)
    BY <1>1, <2>1, <2>2, DeliveryInOrder
  <2>4. i \in 1..nextId[p] /\ nextId[p] \in Nat
    BY <1>1, <2>1, DeliveryFacts DEF LinkInv, Shape
  <2>5. Len(got[q]) < nextId[p]
    BY <2>3, <2>4
  <2> QED  BY <1>5, <1>7, <2>3, <2>5 DEF LinkNext
<1> QED  BY <1>8, <1>9

LEMMA StepLink ==
  ASSUME LinkInv, [Next]_vars, NEW p \in Peers
  PROVE  LinkNext(p) \/ LinkStutters(p)
<1> USE DEF life, app, acks, data, steps
<1>1. UNCHANGED load
  BY DEF Next, vars
<1>2. CASE ~Fits(p)
  BY <1>1, <1>2, LeftOut
<1>3. CASE Fits(p)
  <2> DEFINE q == Other(p)
  <2>1. /\ q \in Peers /\ q # p /\ \A r \in Peers : r = p \/ r = q
        /\ Fits(p)' /\ Shape
    BY <1>1, <1>3 DEF Peers, Other, Fits, LinkInv
  <2>2. ASSUME UNCHANGED <<nextId[p], got[q], connected[q]>>,
               "dispatch" \in live'[q] <=> "dispatch" \in live[q]
        PROVE  LinkStutters(p)
    BY <1>3, <2>1, <2>2 DEF LinkStutters, Accepted, Delivered, State, LinkState
  <2>3. CASE UNCHANGED vars \/ Terminated
    BY <2>2, <2>3 DEF vars, Terminated
  <2>4. ASSUME NEW r \in Peers,
               \/ Stop(r) \/ Put(r) \/ Receive(r) \/ Write(r) \/ WriteFails(r)
               \/ ReadLine(r) \/ ReadEnds(r) \/ Collect(r) \/ Requeue(r)
        PROVE  LinkStutters(p)
    <3>1. UNCHANGED <<nextId, got, connected>>
      BY <2>4 DEF Stop, Put, Receive, Write, WriteFails, ReadLine, ReadEnds, Collect, Requeue
    <3>2. "dispatch" \in live'[q] <=> "dispatch" \in live[q]
      BY <2>1, <2>4, ZenonT(60) DEF Stop, Put, Receive, Write, WriteFails, ReadLine, ReadEnds, Collect,
           Requeue, StillLive, Shape
    <3> QED  BY <2>2, <3>1, <3>2
  <2>5. ASSUME NEW r \in Peers, Register(r) PROVE LinkNext(p) \/ LinkStutters(p)
    <3>1. UNCHANGED <<got, connected, live>> /\ nextId' = [nextId EXCEPT ![r] = @ + 1]
      BY <2>5 DEF Register
    <3>2. CASE r = q
      BY <2>1, <2>2, <3>1, <3>2 DEF Shape
    <3>3. CASE r = p
      <4>1. nextId'[p] = nextId[p] + 1
        BY <2>1, <3>1, <3>3 DEF Shape
      <4> QED  BY <1>3, <2>1, <3>1, <4>1 DEF LinkNext, Accepted, Delivered, State, LinkState
    <3> QED  BY <2>1, <3>2, <3>3
  <2>6. ASSUME NEW r \in Peers, Establish(r) PROVE LinkNext(p) \/ LinkStutters(p)
    <3>1. /\ UNCHANGED <<nextId, got>> /\ ~connected[r]
          /\ connected' = [connected EXCEPT ![r] = TRUE]
          /\ live' = [live EXCEPT ![r] = {"receiver", "dispatch"}]
      BY <2>6 DEF Establish
    <3>2. CASE r = p
      BY <2>1, <2>2, <3>1, <3>2 DEF Shape
    <3>3. CASE r = q
      <4>1. LinkState(q) = "new" /\ LinkState(q)' = "open"
        BY <2>1, <3>1, <3>3 DEF LinkState, Shape
      <4> QED  BY <1>3, <2>1, <3>1, <4>1 DEF LinkNext, Accepted, Delivered, State
    <3> QED  BY <2>1, <3>2, <3>3
  <2>7. ASSUME NEW r \in Peers, ThreadEnds(r) PROVE LinkNext(p) \/ LinkStutters(p)
    <3>1. PICK thread \in live[r] : live' = [live EXCEPT ![r] = @ \ {thread}]
      BY <2>7 DEF ThreadEnds
    <3>2. UNCHANGED <<nextId, got, connected>>
      BY <2>7 DEF ThreadEnds
    <3>3. CASE r = q /\ thread = "dispatch"
      <4>1. connected[q]
        BY <2>1, <3>1, <3>3 DEF LinkInv, Bounds
      <4>2. LinkState(q) = "open" /\ LinkState(q)' = "closed"
        BY <2>1, <3>1, <3>2, <3>3, <4>1 DEF LinkState, Shape
      <4> QED  BY <1>3, <2>1, <3>2, <4>2 DEF LinkNext, Accepted, Delivered, State
    <3>4. CASE ~(r = q /\ thread = "dispatch")
      BY <2>1, <2>2, <3>1, <3>2, <3>4 DEF Shape
    <3> QED  BY <3>3, <3>4
  <2>8. ASSUME NEW r \in Peers, Dispatch(r) PROVE LinkNext(p) \/ LinkStutters(p)
    <3>1. CASE r = q
      BY <1>1, <1>3, <2>8, <3>1, DispatchLink
    <3>2. CASE r = p
      <4>1. PICK i \in Nat : GetsAck(p, i) \/ GetsData(p, i)
        BY <1>1, <2>1, <2>8, <3>2, DispatchEffect
      <4>2. got'[q] = got[q]
        BY <2>1, <4>1 DEF GetsAck, GetsData, Shape
      <4>3. /\ UNCHANGED <<connected, nextId>>
            /\ live' = IF running[p] THEN live ELSE [live EXCEPT ![p] = @ \ {"dispatch"}]
        BY <2>8, <3>2 DEF Dispatch, StillLive
      <4> QED  BY <2>1, <2>2, <4>2, <4>3 DEF Shape
    <3> QED  BY <2>1, <3>1, <3>2
  <2> QED
    BY <2>3, <2>4, <2>5, <2>6, <2>7, <2>8 DEF Next, Work
<1> QED  BY <1>2, <1>3

----------------------------------------------------------------------------
(* The theorems                                                            *)

\* LinkInv holds in every reachable state.
THEOREM LinkInvariance == Spec => []LinkInv
BY InitLinkInv, StepLinkInv, PTL DEF Spec

\* The types, and the bounds that the window and the message count set.
THEOREM TypeCorrect == Spec => []TypeOK
<1>1. LinkInv => TypeOK
  <2> SUFFICES ASSUME LinkInv PROVE TypeOK
    OBVIOUS
  <2>1. \A p \in Peers : putting[p] <= nextId[p]
    <3> TAKE p \in Peers
    <3>1. nextId[p] \in Nat /\ putting[p] \in {0, nextId[p]}
      BY DEF LinkInv, Bounds, Shape
    <3> QED  BY <3>1
  <2>2. \A p \in Peers : Len(seen[p]) <= load.window
    BY DEF LinkInv, Windows, Recent
  <2> QED  BY <2>1, <2>2 DEF LinkInv, Shape, Bounds, TypeOK
<1> QED  BY <1>1, LinkInvariance, PTL

\* No resend is taken for a new message until a windowful of others came in
\* between.
THEOREM Deduplication == Spec => []DedupWindow
<1>1. LinkInv => DedupWindow
  <2> SUFFICES ASSUME LinkInv, NEW p \in Peers, NEW i \in DOMAIN got[p], NEW j \in DOMAIN got[p],
                      i < j, got[p][i] = got[p][j]
               PROVE  j - i > load.window
    BY DEF DedupWindow
  <2>1. DOMAIN got[p] = 1..Len(got[p])
    BY ElementsFacts DEF LinkInv, Shape
  <2> QED  BY <2>1 DEF LinkInv, Windows, Spaced
<1> QED  BY <1>1, LinkInvariance, PTL

\* What is not waiting for an ACK any more has been delivered.
THEOREM NoFalseAck == Spec => []AckedIsDelivered
<1>1. LinkInv => AckedIsDelivered
  BY DEF LinkInv
<1> QED  BY <1>1, LinkInvariance, PTL

\* While both ends are up, a message that awaits its ACK is queued somewhere,
\* or its ACK is.
THEOREM NoLoss == Spec => []NothingForgotten
<1>1. LinkInv => NothingForgotten
  <2> SUFFICES ASSUME LinkInv, NEW p \in Peers, running[p], running[Other(p)], NEW i \in pending[p]
               PROVE  Underway(p, i)
    BY DEF NothingForgotten
  <2> DEFINE q == Other(p)
  <2>1. q \in Peers /\ Other(q) = p /\ Shape
    BY PeerFacts DEF LinkInv
  <2>2. On(p) = Elements(inQ[q]) \cup Elements(wire[p]) \cup Elements(outQ[p])
    BY <2>1, PathType DEF On, Unwritten
  <2>3. On(q) = Elements(inQ[p]) \cup Elements(wire[q]) \cup Elements(outQ[q])
    BY <2>1, PathType DEF On, Unwritten
  <2>4. putting[p] = i \/ Data(i) \in On(p) \/ Ack(i) \in On(q)
    BY DEF LinkInv, NothingLost
  <2> QED  BY <2>2, <2>3, <2>4 DEF Underway
<1> QED  BY <1>1, LinkInvariance, PTL

LEMMA LinkInit ==
  ASSUME Init, NEW p \in Peers
  PROVE  Accepted(p) = 0 /\ Delivered(p) = <<>> /\ State(p) = "new"
BY PeerFacts DEF Init, Accepted, Delivered, State, LinkState

\* Commands are delivered in the order of the calls of _send, each once.
THEOREM CommandsImplementLink == Spec => Commands!SafeSpec
<1>1. "client" \in Peers
  BY DEF Peers
<1>2. Init => Commands!Init
  BY <1>1, LinkInit DEF Commands!Init
<1>3. LinkInv /\ [Next]_vars => [Commands!Next]_(Commands!vars)
  <2> SUFFICES ASSUME LinkInv, [Next]_vars PROVE [Commands!Next]_(Commands!vars)
    OBVIOUS
  <2>1. LinkNext("client") \/ LinkStutters("client")
    BY <1>1, StepLink
  <2> QED
    BY <2>1 DEF LinkNext, LinkStutters, Commands!Next, Commands!vars,
         Commands!Accept, Commands!Deliver, Commands!Open, Commands!Close
<1> QED  BY <1>2, <1>3, LinkInvariance, PTL DEF Spec, Commands!SafeSpec

\* So is telemetry, in the other direction.
THEOREM TelemetryImplementsLink == Spec => Telemetry!SafeSpec
<1>1. "server" \in Peers
  BY DEF Peers
<1>2. Init => Telemetry!Init
  BY <1>1, LinkInit DEF Telemetry!Init
<1>3. LinkInv /\ [Next]_vars => [Telemetry!Next]_(Telemetry!vars)
  <2> SUFFICES ASSUME LinkInv, [Next]_vars PROVE [Telemetry!Next]_(Telemetry!vars)
    OBVIOUS
  <2>1. LinkNext("server") \/ LinkStutters("server")
    BY <1>1, StepLink
  <2> QED
    BY <2>1 DEF LinkNext, LinkStutters, Telemetry!Next, Telemetry!vars,
         Telemetry!Accept, Telemetry!Deliver, Telemetry!Open, Telemetry!Close
<1> QED  BY <1>2, <1>3, LinkInvariance, PTL DEF Spec, Telemetry!SafeSpec
=============================================================================
