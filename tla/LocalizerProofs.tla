-------------------------- MODULE LocalizerProofs ---------------------------
(***************************************************************************)
(* Theorems about Localizer, for every number of packets and wherever the  *)
(* dashboard's thread looks: the pose moves on with both tags, no          *)
(* attribute is older than the one it is computed into, and only the       *)
(* candidates can vanish under the reader.                                 *)
(***************************************************************************)
EXTENDS Localizer, SequenceTheorems, TLAPS

----------------------------------------------------------------------------
(* The inductive invariant                                                 *)

Lines == Kinds \X (1 .. Packets)
StoredOrNone(p) == p = NoneYet \/ (p \in Pair /\ Complete(p))

LocalizerShape ==
  /\ port \in [Tags -> Seq(Lines)] /\ written \in Pair
  /\ at \in Tags \cup {"top", "store", "candL", "candR", "tagL", "tagR", "pose", "ended"}
  /\ tries \in 0 .. MaxLines /\ range \in Pair
  /\ candidates \in Pair /\ tag \in Pair /\ ranges \in Pair /\ pose \in Pair
  /\ StoredOrNone(ranges) /\ StoredOrNone(pose)
  /\ stopping \in BOOLEAN /\ sending \in BOOLEAN /\ alive \in BOOLEAN
  /\ look \in 0 .. LastLook + 1 /\ checked \in BOOLEAN

\* The lines of a tag that wait in its port are in the order of writing, and
\* newer than all that were read.
PortIsFresh ==
  \A t \in Tags :
    /\ range[t] <= written[t] /\ ranges[t] <= written[t]
    /\ \A i \in 1 .. Len(port[t]) :
         /\ port[t][i][2] <= written[t]
         /\ range[t] < port[t][i][2] /\ ranges[t] < port[t][i][2]
    /\ \A i, j \in 1 .. Len(port[t]) : i < j => port[t][i][2] < port[t][j][2]

\* What an update has read so far is newer than what the last one stored.
ReadIsNew ==
  at \in {"left", "right", "store"} =>
    \A t \in Tags : range[t] = None \/ ranges[t] < range[t]

\* Between the ranges and the pose an update stores what both tags sent, and
\* the pose is still of older packets.
StoresWhole ==
  /\ at \in {"candL", "candR", "tagL", "tagR", "pose"} =>
       range = ranges /\ Complete(range) /\ \A t \in Tags : pose[t] < range[t]
  /\ at \in {"tagR", "pose"} => tag["left"] = range["left"]
  /\ at = "pose" => tag["right"] = range["right"]

\* Unless it looks at the candidates, the sender still finds what it has seen.
SeenIsThere ==
  /\ checked => look \in 1 .. LastLook /\ (look \in {2, 3} \/ HasValue(look))
  /\ ~alive => look \in {2, 3}

LocalizerInv ==
  /\ LocalizerShape /\ PortIsFresh /\ ReadIsNew /\ StoresWhole
  /\ PoseIsLast /\ SeenIsThere

LEMMA TagFacts ==
  /\ "left" \in Tags /\ "right" \in Tags /\ "left" # "right"
  /\ \A t \in Tags : t = "left" \/ t = "right"
BY DEF Tags

LEMMA PairFacts ==
  /\ NoneYet \in Pair /\ StoredOrNone(NoneYet)
  /\ \A p \in Pair, t \in Tags : p[t] \in Nat /\ p[t] \in 0 .. Packets
  /\ \A p \in Pair : Complete(p) => p # NoneYet
BY LocalizerAssumption DEF NoneYet, Pair, None, StoredOrNone, Complete, Tags

\* A line more at the end of a port, and one less at its head.
LEMMA LineWritten ==
  ASSUME NEW s \in Seq(Lines), NEW e \in Lines
  PROVE  /\ Append(s, e) \in Seq(Lines) /\ Len(Append(s, e)) = Len(s) + 1 /\ Len(s) \in Nat
         /\ \A i \in 1 .. Len(s) : Append(s, e)[i] = s[i]
         /\ Append(s, e)[Len(s) + 1] = e
BY AppendProperties, LenProperties

LEMMA LineRead ==
  ASSUME NEW s \in Seq(Lines), s # <<>>
  PROVE  /\ Tail(s) \in Seq(Lines) /\ Len(s) \in Nat \ {0} /\ Len(Tail(s)) = Len(s) - 1
         /\ \A i \in 1 .. Len(Tail(s)) : Tail(s)[i] = s[i + 1]
         /\ Head(s) = s[1] /\ Head(s) \in Lines
BY HeadTailProperties, EmptySeq

LEMMA LineFacts ==
  ASSUME NEW s \in Seq(Lines)
  PROVE  \A i \in 1 .. Len(s) : s[i] \in Lines /\ s[i][2] \in 1 .. Packets
BY ElementOfSeq DEF Lines

LEMMA InitLocalizerInv == LocalizerInit => LocalizerInv
<1> SUFFICES ASSUME LocalizerInit PROVE LocalizerInv
  OBVIOUS
<1> USE DEF LocalizerInit
<1>1. <<>> \in Seq(Lines) /\ Len(<<>>) = 0
  BY EmptySeq
<1>2. LocalizerShape
  <2>1. port \in [Tags -> Seq(Lines)]
    BY <1>1
  <2>2. tries \in 0 .. MaxLines /\ look \in 0 .. LastLook + 1
    BY DEF MaxLines, LastLook
  <2> QED  BY <2>1, <2>2, PairFacts DEF LocalizerShape
<1>3. PortIsFresh
  BY <1>1 DEF PortIsFresh, NoneYet, None
<1>4. ReadIsNew /\ StoresWhole /\ SeenIsThere
  BY DEF ReadIsNew, StoresWhole, SeenIsThere, Tags
<1>5. PoseIsLast
  BY DEF PoseIsLast, NoneYet, None
<1> QED  BY <1>2, <1>3, <1>4, <1>5 DEF LocalizerInv

----------------------------------------------------------------------------
(* The localizer's steps                                                   *)

\* Nothing changes but where the threads are and what the candidates are.
LEMMA SameValues ==
  ASSUME LocalizerInv, UNCHANGED <<serial, range, ranges, tag, pose>>
  PROVE  PortIsFresh' /\ PoseIsLast'
BY DEF LocalizerInv, serial, PortIsFresh, PoseIsLast

LEMMA SameDashboard ==
  ASSUME LocalizerInv, UNCHANGED dashboard,
         ranges # NoneYet => ranges' # NoneYet,
         \A t \in Tags : tag[t] # None => tag'[t] # None
  PROVE  SeenIsThere'
<1>1. SeenIsThere
  BY DEF LocalizerInv
<1>2. UNCHANGED <<alive, look, checked>>
  BY DEF dashboard
<1>3. ASSUME checked PROVE look \in {2, 3} \/ HasValue(look)'
  <2>1. look \in 1 .. 5 /\ (look \in {2, 3} \/ HasValue(look))
    BY <1>1, <1>3 DEF SeenIsThere, LastLook
  <2>2. CASE look = 1
    BY <1>2, <2>1, <2>2 DEF HasValue
  <2>3. CASE look = 4
    BY <1>2, <2>1, <2>3, TagFacts DEF HasValue
  <2>4. CASE look = 5
    BY <1>2, <2>1, <2>4, TagFacts DEF HasValue
  <2> QED  BY <2>1, <2>2, <2>3, <2>4
<1> QED  BY <1>1, <1>2, <1>3 DEF SeenIsThere

LEMMA WriteInv ==
  ASSUME LocalizerInv, NEW t \in Tags, NEW kind \in Kinds, Write(t, kind)
  PROVE  LocalizerInv'
<1> DEFINE s == port[t]
           n == written[t] + 1
           e == <<kind, n>>
<1>1. /\ UNCHANGED <<at, locals, attributes, stopping, dashboard>> /\ n - 1 < Packets
      /\ written' = [written EXCEPT ![t] = n] /\ port' = [port EXCEPT ![t] = Append(s, e)]
  BY DEF Write, LocalizerInv, LocalizerShape, Pair
<1>2. n \in 1 .. Packets /\ e \in Lines /\ s \in Seq(Lines)
  BY <1>1, PairFacts, LocalizerAssumption DEF LocalizerInv, LocalizerShape, Lines
<1>3. UNCHANGED <<range, ranges, candidates, tag, pose, tries>>
  BY <1>1 DEF locals, attributes
<1> HIDE DEF s, e
<1>4. LocalizerShape'
  <2>1. port' \in [Tags -> Seq(Lines)]
    <3>1. Append(s, e) \in Seq(Lines)
      BY <1>2, LineWritten
    <3> QED  BY <1>1, <3>1 DEF LocalizerInv, LocalizerShape
  <2>2. written' \in Pair
    <3>1. n \in 0 .. Packets
      BY <1>2, LocalizerAssumption
    <3>2. written \in [Tags -> 0 .. Packets]
      BY DEF LocalizerInv, LocalizerShape, Pair
    <3> HIDE DEF n
    <3> QED  BY <1>1, <3>1, <3>2 DEF Pair
  <2>3. StoredOrNone(ranges)' /\ StoredOrNone(pose)'
    BY <1>3 DEF LocalizerInv, LocalizerShape, StoredOrNone, Complete
  <2>4. UNCHANGED <<at, stopping, sending, alive, look, checked>>
    BY <1>1 DEF dashboard
  <2> QED  BY <1>3, <2>1, <2>2, <2>3, <2>4 DEF LocalizerInv, LocalizerShape
<1>5. PortIsFresh'
  <2> SUFFICES ASSUME NEW u \in Tags
               PROVE  /\ range[u] <= written'[u] /\ ranges[u] <= written'[u]
                      /\ \A i \in 1 .. Len(port'[u]) :
                           /\ port'[u][i][2] <= written'[u]
                           /\ range[u] < port'[u][i][2] /\ ranges[u] < port'[u][i][2]
                      /\ \A i, j \in 1 .. Len(port'[u]) : i < j => port'[u][i][2] < port'[u][j][2]
    BY <1>3 DEF PortIsFresh
  <2>1. /\ range[u] <= written[u] /\ ranges[u] <= written[u]
        /\ \A i \in 1 .. Len(port[u]) :
             /\ port[u][i][2] <= written[u]
             /\ range[u] < port[u][i][2] /\ ranges[u] < port[u][i][2]
        /\ \A i, j \in 1 .. Len(port[u]) : i < j => port[u][i][2] < port[u][j][2]
    BY DEF LocalizerInv, PortIsFresh
  <2>2. range[u] \in Nat /\ ranges[u] \in Nat /\ written[u] \in Nat
    BY PairFacts DEF LocalizerInv, LocalizerShape
  <2>3. CASE u # t
    <3>1. port'[u] = port[u] /\ written'[u] = written[u]
      BY <1>1, <2>3 DEF LocalizerInv, LocalizerShape, Pair
    <3> QED  BY <2>1, <3>1
  <2>4. CASE u = t
    <3>1. port'[t] = Append(s, e) /\ written'[t] = n /\ n = written[t] + 1
      BY <1>1 DEF LocalizerInv, LocalizerShape, Pair
    <3>2. /\ Len(port'[t]) = Len(s) + 1 /\ Len(s) \in Nat
          /\ \A i \in 1 .. Len(s) : port'[t][i] = s[i] /\ s[i][2] \in 1 .. Packets
          /\ port'[t][Len(s) + 1] = e
      BY <1>2, <3>1, LineWritten, LineFacts
    <3>3. port'[t][Len(s) + 1][2] = n
      BY <3>2 DEF e
    <3>4. s = port[u]
      BY <2>4 DEF s
    <3>5. ASSUME NEW i \in 1 .. Len(port'[u])
          PROVE  /\ port'[u][i][2] <= written'[u]
                 /\ range[u] < port'[u][i][2] /\ ranges[u] < port'[u][i][2]
      <4>1. CASE i = Len(s) + 1
        BY <2>1, <2>2, <2>4, <3>1, <3>3, <4>1
      <4>2. CASE i # Len(s) + 1
        <5>1. i \in 1 .. Len(s)
          BY <2>4, <3>2, <4>2
        <5>2. port'[u][i][2] = port[u][i][2] /\ port[u][i][2] \in Nat
          BY <2>4, <3>2, <3>4, <5>1
        <5> QED  BY <2>1, <2>2, <2>4, <3>1, <3>4, <5>1, <5>2
      <4> QED  BY <4>1, <4>2
    <3>6. ASSUME NEW i \in 1 .. Len(port'[u]), NEW j \in 1 .. Len(port'[u]), i < j
          PROVE  port'[u][i][2] < port'[u][j][2]
      <4>1. i \in 1 .. Len(s)
        BY <2>4, <3>2, <3>6
      <4>2. port'[u][i][2] = port[u][i][2] /\ port[u][i][2] \in Nat
        BY <2>4, <3>2, <3>4, <4>1
      <4>3. CASE j = Len(s) + 1
        BY <2>1, <2>2, <2>4, <3>1, <3>3, <3>4, <4>1, <4>2, <4>3
      <4>4. CASE j # Len(s) + 1
        <5>1. j \in 1 .. Len(s)
          BY <2>4, <3>2, <4>4
        <5>2. port'[u][j][2] = port[u][j][2]
          BY <2>4, <3>2, <3>4, <5>1
        <5> QED  BY <2>1, <3>4, <3>6, <4>1, <4>2, <5>1, <5>2
      <4> QED  BY <4>3, <4>4
    <3>7. range[u] <= written'[u] /\ ranges[u] <= written'[u]
      BY <2>1, <2>2, <2>4, <3>1
    <3> QED  BY <3>5, <3>6, <3>7
  <2> QED  BY <2>3, <2>4
<1>6. ReadIsNew' /\ StoresWhole' /\ PoseIsLast'
  BY <1>1, <1>3 DEF LocalizerInv, ReadIsNew, StoresWhole, PoseIsLast, Complete
<1>7. SeenIsThere'
  BY <1>1, <1>3, SameDashboard
<1> QED  BY <1>4, <1>5, <1>6, <1>7 DEF LocalizerInv

LEMMA StopInv == LocalizerInv /\ Stop => LocalizerInv'
<1> SUFFICES ASSUME LocalizerInv, Stop PROVE LocalizerInv'
  OBVIOUS
<1>1. UNCHANGED <<port, written, at, tries, range, ranges, candidates, tag, pose>>
  BY DEF Stop, serial, locals, attributes
<1>2. UNCHANGED dashboard /\ UNCHANGED <<sending, alive, look, checked>> /\ stopping' = TRUE
  BY DEF Stop, dashboard
<1>3. LocalizerShape'
  BY <1>1, <1>2 DEF LocalizerInv, LocalizerShape, StoredOrNone, Complete
<1>4. PortIsFresh' /\ PoseIsLast'
  BY <1>1, SameValues DEF serial
<1>5. ReadIsNew' /\ StoresWhole'
  BY <1>1 DEF LocalizerInv, ReadIsNew, StoresWhole, Complete
<1>6. SeenIsThere'
  BY <1>1, <1>2, SameDashboard
<1> QED  BY <1>3, <1>4, <1>5, <1>6 DEF LocalizerInv

\* A step of update before it stores: it has read what is newer than what is
\* stored, or nothing.
LEMMA ReadingInv ==
  ASSUME LocalizerInv, at \in {"top", "left", "right"},
         at' \in {"left", "right", "store", "ended"}, tries' \in 0 .. MaxLines,
         UNCHANGED <<written, attributes, stopping, dashboard>>,
         port' \in [Tags -> Seq(Lines)], range' \in Pair, PortIsFresh',
         \A t \in Tags : range'[t] = None \/ ranges[t] < range'[t]
  PROVE  LocalizerInv'
<1>1. UNCHANGED <<ranges, candidates, tag, pose, sending, alive, look, checked>>
  BY DEF attributes, dashboard
<1>2. LocalizerShape'
  <2>1. at' \in Tags \cup {"top", "store", "candL", "candR", "tagL", "tagR", "pose", "ended"}
    BY DEF Tags
  <2>2. StoredOrNone(ranges)' /\ StoredOrNone(pose)'
    BY <1>1 DEF LocalizerInv, LocalizerShape, StoredOrNone, Complete
  <2> QED  BY <1>1, <2>1, <2>2 DEF LocalizerInv, LocalizerShape
<1>3. ReadIsNew' /\ StoresWhole'
  BY <1>1 DEF ReadIsNew, StoresWhole
<1>4. PoseIsLast'
  BY <1>1 DEF LocalizerInv, PoseIsLast
<1>5. SeenIsThere'
  BY <1>1, SameDashboard
<1> QED  BY <1>2, <1>3, <1>4, <1>5 DEF LocalizerInv

LEMMA BeginInv == LocalizerInv /\ Begin => LocalizerInv'
<1> SUFFICES ASSUME LocalizerInv, Begin PROVE LocalizerInv'
  OBVIOUS
<1>1. /\ at = "top" /\ at' \in {"left", "ended"} /\ tries' \in 0 .. MaxLines
      /\ range' = NoneYet /\ UNCHANGED <<port, written, ranges>>
      /\ UNCHANGED <<attributes, stopping, dashboard>>
  BY DEF Begin, MaxLines, serial, attributes
<1>2. range' \in Pair /\ \A t \in Tags : range'[t] = 0
  BY <1>1, PairFacts DEF NoneYet, None
<1>3. PortIsFresh'
  <2> SUFFICES ASSUME NEW t \in Tags
               PROVE  /\ range'[t] <= written[t] /\ ranges[t] <= written[t]
                      /\ \A i \in 1 .. Len(port[t]) :
                           /\ port[t][i][2] <= written[t]
                           /\ range'[t] < port[t][i][2] /\ ranges[t] < port[t][i][2]
                      /\ \A i, j \in 1 .. Len(port[t]) : i < j => port[t][i][2] < port[t][j][2]
    BY <1>1 DEF PortIsFresh
  <2>1. written[t] \in Nat /\ \A i \in 1 .. Len(port[t]) : port[t][i][2] \in 1 .. Packets
    BY LineFacts, PairFacts DEF LocalizerInv, LocalizerShape
  <2> QED  BY <1>2, <2>1, LocalizerAssumption DEF LocalizerInv, PortIsFresh
<1>4. port' \in [Tags -> Seq(Lines)]
  BY <1>1 DEF LocalizerInv, LocalizerShape
<1> QED  BY <1>1, <1>2, <1>3, <1>4, ReadingInv DEF None

\* The line that is read is newer than all that is stored, older than the rest.
LEMMA PortRead ==
  ASSUME LocalizerInv, NEW t \in Tags, port[t] # <<>>,
         port' = [port EXCEPT ![t] = Tail(@)], UNCHANGED <<written, ranges>>,
         NEW m \in {range[t], Head(port[t])[2]}, range' = [range EXCEPT ![t] = m]
  PROVE  /\ port' \in [Tags -> Seq(Lines)] /\ range' \in Pair /\ PortIsFresh'
         /\ m = range[t] \/ ranges[t] < m
<1> DEFINE s == port[t]
           r == Tail(s)
           h == Head(s)[2]
<1>1. s \in Seq(Lines) /\ port \in [Tags -> Seq(Lines)] /\ range \in Pair
  BY DEF LocalizerInv, LocalizerShape
<1>2. /\ r \in Seq(Lines) /\ Len(s) \in Nat \ {0} /\ Len(r) = Len(s) - 1
      /\ \A i \in 1 .. Len(r) : r[i] = s[i + 1]
      /\ h = s[1][2]
  BY <1>1, LineRead
<1>3. /\ range[t] <= written[t] /\ ranges[t] <= written[t]
      /\ \A i \in 1 .. Len(s) : /\ s[i][2] <= written[t]
                                /\ range[t] < s[i][2] /\ ranges[t] < s[i][2]
      /\ \A i, j \in 1 .. Len(s) : i < j => s[i][2] < s[j][2]
  BY DEF LocalizerInv, PortIsFresh
<1>4. /\ range[t] \in 0 .. Packets /\ ranges[t] \in Nat /\ written[t] \in Nat
      /\ \A i \in 1 .. Len(s) : s[i][2] \in 1 .. Packets
  BY <1>1, PairFacts, LineFacts DEF LocalizerInv, LocalizerShape
<1> HIDE DEF s, r, h
<1>5. h \in 1 .. Packets /\ range[t] < h /\ ranges[t] < h /\ h <= written[t]
  BY <1>2, <1>3, <1>4
<1>6. m \in {range[t], h}
  BY DEF h, s
<1>7. m \in 0 .. Packets /\ m <= written[t] /\ m <= h
  BY <1>3, <1>4, <1>5, <1>6, LocalizerAssumption
<1>8. port'[t] = r /\ range'[t] = m /\ port' \in [Tags -> Seq(Lines)]
  BY <1>1, <1>2 DEF r, s, Pair
<1>9. range' \in Pair
  BY <1>1, <1>7 DEF Pair
<1>10. ASSUME NEW i \in 1 .. Len(r)
       PROVE  /\ r[i][2] <= written[t] /\ m < r[i][2] /\ ranges[t] < r[i][2]
  <2>1. r[i][2] = s[i + 1][2] /\ i + 1 \in 1 .. Len(s) /\ 1 < i + 1
    BY <1>2
  <2>2. h < r[i][2]
    BY <1>2, <1>3, <2>1
  <2> QED  BY <1>3, <1>4, <1>5, <1>7, <2>1, <2>2
<1>11. ASSUME NEW i \in 1 .. Len(r), NEW j \in 1 .. Len(r), i < j
       PROVE  r[i][2] < r[j][2]
  <2>1. /\ r[i] = s[i + 1] /\ r[j] = s[j + 1] /\ i + 1 < j + 1
        /\ i + 1 \in 1 .. Len(s) /\ j + 1 \in 1 .. Len(s)
    BY <1>2, <1>11
  <2> QED  BY <1>3, <2>1
<1>12. PortIsFresh'
  <2> SUFFICES ASSUME NEW u \in Tags
               PROVE  /\ range'[u] <= written[u] /\ ranges[u] <= written[u]
                      /\ \A i \in 1 .. Len(port'[u]) :
                           /\ port'[u][i][2] <= written[u]
                           /\ range'[u] < port'[u][i][2] /\ ranges[u] < port'[u][i][2]
                      /\ \A i, j \in 1 .. Len(port'[u]) : i < j => port'[u][i][2] < port'[u][j][2]
    BY DEF PortIsFresh
  <2>1. CASE u = t
    BY <1>3, <1>7, <1>8, <1>10, <1>11, <2>1
  <2>2. CASE u # t
    <3>1. port'[u] = port[u] /\ range'[u] = range[u]
      BY <1>1, <2>2 DEF Pair
    <3> QED  BY <3>1 DEF LocalizerInv, PortIsFresh
  <2> QED  BY <2>1, <2>2
<1> QED  BY <1>5, <1>6, <1>8, <1>9, <1>12

\* _read_serial returned nothing.
LEMMA NothingReadInv ==
  ASSUME LocalizerInv, NEW t \in Tags, at = t, Returns(t, None),
         UNCHANGED <<serial, attributes, stopping, dashboard>>
  PROVE  LocalizerInv'
<1>1. range \in Pair /\ port \in [Tags -> Seq(Lines)] /\ PortIsFresh
  BY DEF LocalizerInv, LocalizerShape
<1>2. range' = range /\ UNCHANGED <<port, written, ranges>>
  BY <1>1 DEF Returns, serial, attributes, Pair
<1>3. at' \in {"left", "right", "store", "ended"} /\ tries' \in 0 .. MaxLines
  BY DEF Returns, MaxLines
<1>4. PortIsFresh'
  BY <1>1, <1>2 DEF PortIsFresh
<1>5. \A u \in Tags : range[u] = None \/ ranges[u] < range[u]
  BY TagFacts DEF LocalizerInv, ReadIsNew
<1>6. at \in {"top", "left", "right"}
  BY TagFacts
<1> QED  BY <1>1, <1>2, <1>3, <1>4, <1>5, <1>6, ReadingInv

LEMMA ReadLineInv ==
  ASSUME LocalizerInv, NEW t \in Tags, ReadLine(t)
  PROVE  LocalizerInv'
<1>1. at = t /\ at \in {"top", "left", "right"} /\ tries \in 0 .. MaxLines /\ tries > 0
  BY TagFacts DEF ReadLine, LocalizerInv, LocalizerShape
<1>2. UNCHANGED <<written, attributes, stopping, dashboard>> /\ UNCHANGED ranges
  BY DEF ReadLine, attributes
<1>3. range \in Pair /\ port \in [Tags -> Seq(Lines)] /\ PortIsFresh
  BY DEF LocalizerInv, LocalizerShape
<1>4. \A u \in Tags : range[u] = None \/ ranges[u] < range[u]
  BY <1>1, TagFacts DEF LocalizerInv, ReadIsNew
<1>5. tries - 1 \in 0 .. MaxLines /\ MaxLines \in 0 .. MaxLines
  BY <1>1 DEF MaxLines
<1>6. CASE port[t] = <<>>
  <2>1. tries' = tries - 1 /\ UNCHANGED <<port, at, range>>
    BY <1>6 DEF ReadLine
  <2>2. PortIsFresh'
    BY <1>2, <1>3, <2>1 DEF PortIsFresh
  <2> QED  BY <1>1, <1>2, <1>3, <1>4, <1>5, <2>1, <2>2, TagFacts, ReadingInv
<1>7. CASE port[t] # <<>>
  <2> DEFINE line == Head(port[t])
  <2>1. port' = [port EXCEPT ![t] = Tail(@)]
    BY <1>7 DEF ReadLine
  <2>2. CASE line[1] = "other"
    <3>1. tries' = tries - 1 /\ UNCHANGED <<at, range>>
      BY <1>7, <2>2 DEF ReadLine
    <3>2. range' = [range EXCEPT ![t] = range[t]]
      BY <1>3, <3>1 DEF Pair
    <3>3. port' \in [Tags -> Seq(Lines)] /\ PortIsFresh'
      BY <1>2, <1>7, <2>1, <3>2, PortRead
    <3> QED  BY <1>1, <1>2, <1>3, <1>4, <1>5, <3>1, <3>3, TagFacts, ReadingInv
  <2>3. CASE line[1] # "other"
    <3> DEFINE n == IF line[1] = "ranges" THEN line[2] ELSE None
               m == IF n = None THEN range[t] ELSE n
    <3>1. Returns(t, n)
      BY <1>7, <2>3 DEF ReadLine
    <3>2. m \in {range[t], line[2]}
      OBVIOUS
    <3>3. /\ range' = [range EXCEPT ![t] = m] /\ tries' = MaxLines
          /\ at' \in {"left", "right", "store", "ended"}
      BY <3>1 DEF Returns
    <3> HIDE DEF m, n
    <3>4. /\ port' \in [Tags -> Seq(Lines)] /\ range' \in Pair /\ PortIsFresh'
          /\ m = range[t] \/ ranges[t] < m
      BY <1>2, <1>7, <2>1, <3>2, <3>3, PortRead
    <3>5. \A u \in Tags : range'[u] = None \/ ranges[u] < range'[u]
      BY <1>3, <1>4, <3>3, <3>4 DEF Pair
    <3> QED  BY <1>1, <1>2, <1>5, <3>3, <3>4, <3>5, ReadingInv
  <2> QED  BY <2>2, <2>3
<1> QED  BY <1>6, <1>7

\* What the stores leave alone.
LEMMA StoringInv ==
  ASSUME LocalizerInv, UNCHANGED <<serial, locals, stopping, dashboard>>,
         at' \in {"top", "candL", "candR", "tagL", "tagR", "pose"},
         candidates' \in Pair, tag' \in Pair, ranges' \in Pair, pose' \in Pair,
         StoredOrNone(ranges'), StoredOrNone(pose'),
         PortIsFresh', StoresWhole', PoseIsLast',
         ranges # NoneYet => ranges' # NoneYet,
         \A t \in Tags : tag[t] # None => tag'[t] # None
  PROVE  LocalizerInv'
<1>1. UNCHANGED <<port, written, tries, range, sending, alive, look, checked>>
  BY DEF serial, locals, dashboard
<1>2. LocalizerShape'
  <2>1. at' \in Tags \cup {"top", "store", "candL", "candR", "tagL", "tagR", "pose", "ended"}
    BY DEF Tags
  <2>2. StoredOrNone(ranges)' /\ StoredOrNone(pose)'
    BY DEF StoredOrNone, Complete
  <2> QED  BY <1>1, <2>1, <2>2 DEF LocalizerInv, LocalizerShape
<1>3. ReadIsNew'
  BY DEF ReadIsNew
<1>4. SeenIsThere'
  BY SameDashboard
<1> QED  BY <1>2, <1>3, <1>4 DEF LocalizerInv

LEMMA StoreInv == LocalizerInv /\ Store => LocalizerInv'
<1> SUFFICES ASSUME LocalizerInv, Store PROVE LocalizerInv'
  OBVIOUS
<1>1. /\ at = "store" /\ UNCHANGED <<serial, locals, stopping, dashboard>>
      /\ UNCHANGED <<port, written, range, candidates, tag, pose>>
  BY DEF Store, serial, locals
<1>2. /\ candidates \in Pair /\ tag \in Pair /\ ranges \in Pair /\ pose \in Pair
      /\ StoredOrNone(ranges) /\ StoredOrNone(pose) /\ range \in Pair
  BY DEF LocalizerInv, LocalizerShape
<1>3. CASE ~Complete(range)
  <2>1. at' = "top" /\ ranges' = ranges
    BY <1>3 DEF Store
  <2>2. PortIsFresh' /\ PoseIsLast'
    BY <1>1, <2>1, SameValues DEF serial
  <2>3. StoresWhole'
    BY <2>1 DEF StoresWhole
  <2> QED  BY <1>1, <1>2, <2>1, <2>2, <2>3, StoringInv
<1>4. CASE Complete(range)
  <2>1. at' = "candL" /\ ranges' = range
    BY <1>4 DEF Store
  <2>2. \A t \in Tags : ranges[t] < range[t]
    BY <1>1, <1>4 DEF LocalizerInv, ReadIsNew, Complete
  <2>3. \A t \in Tags : pose[t] <= tag[t] /\ tag[t] <= ranges[t]
    BY DEF LocalizerInv, PoseIsLast
  <2>4. \A t \in Tags : /\ pose[t] \in Nat /\ tag[t] \in Nat
                        /\ range[t] \in Nat /\ ranges[t] \in Nat
    BY <1>2, PairFacts
  <2>5. PortIsFresh'
    BY <1>1, <2>1 DEF LocalizerInv, PortIsFresh
  <2>6. PoseIsLast'
    BY <1>1, <2>1, <2>2, <2>3, <2>4 DEF PoseIsLast
  <2>7. StoresWhole'
    <3>1. \A t \in Tags : pose[t] < range[t]
      BY <2>2, <2>3, <2>4
    <3> QED  BY <1>1, <1>4, <2>1, <3>1 DEF StoresWhole, Complete
  <2>8. StoredOrNone(range) /\ range # NoneYet
    BY <1>2, <1>4, PairFacts DEF StoredOrNone
  <2> QED  BY <1>1, <1>2, <2>1, <2>5, <2>6, <2>7, <2>8, StoringInv
<1> QED  BY <1>3, <1>4

LEMMA StoreCandidatesInv ==
  ASSUME LocalizerInv, NEW t \in Tags, StoreCandidates(t)
  PROVE  LocalizerInv'
<1>1. /\ at \in {"candL", "candR"} /\ at' \in {"candR", "top", "tagL"}
      /\ UNCHANGED <<serial, locals, stopping, dashboard>>
      /\ UNCHANGED <<port, written, range, ranges, tag, pose>>
  BY DEF StoreCandidates, serial, locals
<1>2. /\ candidates \in Pair /\ tag \in Pair /\ ranges \in Pair /\ pose \in Pair
      /\ StoredOrNone(ranges) /\ StoredOrNone(pose) /\ range \in Pair
  BY DEF LocalizerInv, LocalizerShape
<1>3. candidates' \in Pair
  <2>1. PICK n \in {None, range[t]} : candidates' = [candidates EXCEPT ![t] = n]
    BY DEF StoreCandidates
  <2>2. n \in 0 .. Packets
    BY <1>2, PairFacts, LocalizerAssumption DEF None
  <2> QED  BY <1>2, <2>1, <2>2 DEF Pair
<1>4. PortIsFresh' /\ PoseIsLast'
  BY <1>1, SameValues DEF serial
<1>5. StoresWhole'
  BY <1>1 DEF LocalizerInv, StoresWhole, Complete
<1> QED  BY <1>1, <1>2, <1>3, <1>4, <1>5, StoringInv

LEMMA StoreTagInv ==
  ASSUME LocalizerInv, NEW t \in Tags, StoreTag(t)
  PROVE  LocalizerInv'
<1>1. /\ at = (IF t = "left" THEN "tagL" ELSE "tagR")
      /\ at' = (IF t = "left" THEN "tagR" ELSE "pose")
      /\ tag' = [tag EXCEPT ![t] = range[t]]
      /\ UNCHANGED <<serial, locals, stopping, dashboard>>
      /\ UNCHANGED <<port, written, range, ranges, candidates, pose>>
  BY DEF StoreTag, serial, locals
<1>2. /\ candidates \in Pair /\ tag \in Pair /\ ranges \in Pair /\ pose \in Pair
      /\ StoredOrNone(ranges) /\ StoredOrNone(pose) /\ range \in Pair
  BY DEF LocalizerInv, LocalizerShape
<1>3. /\ range = ranges /\ Complete(range) /\ \A u \in Tags : pose[u] < range[u]
      /\ t = "right" => tag["left"] = range["left"]
  BY <1>1 DEF LocalizerInv, StoresWhole
<1>4. /\ tag' \in Pair /\ tag'[t] = range[t]
      /\ \A u \in Tags : u # t => tag'[u] = tag[u]
  BY <1>1, <1>2 DEF Pair
<1>5. PortIsFresh'
  BY <1>1 DEF LocalizerInv, PortIsFresh
<1>6. \A u \in Tags : pose[u] <= tag'[u] /\ tag'[u] <= ranges[u]
  <2>1. \A u \in Tags : pose[u] <= tag[u] /\ tag[u] <= ranges[u]
    BY DEF LocalizerInv, PoseIsLast
  <2>2. \A u \in Tags : pose[u] \in Nat /\ range[u] \in Nat
    BY <1>2, PairFacts
  <2> QED  BY <1>3, <1>4, <2>1, <2>2
<1>7. PoseIsLast'
  BY <1>1, <1>6 DEF PoseIsLast
<1>8. StoresWhole'
  BY <1>1, <1>3, <1>4, TagFacts DEF StoresWhole, Complete
<1>9. \A u \in Tags : tag[u] # None => tag'[u] # None
  BY <1>3, <1>4 DEF Complete
<1> QED  BY <1>1, <1>2, <1>4, <1>5, <1>7, <1>8, <1>9, StoringInv

LEMMA StorePositionInv == LocalizerInv /\ StorePosition => LocalizerInv'
<1> SUFFICES ASSUME LocalizerInv, StorePosition PROVE LocalizerInv'
  OBVIOUS
<1>1. /\ at = "pose" /\ at' = "top" /\ pose' = range
      /\ UNCHANGED <<serial, locals, stopping, dashboard>>
      /\ UNCHANGED <<port, written, range, ranges, candidates, tag>>
  BY DEF StorePosition, serial, locals
<1>2. /\ candidates \in Pair /\ tag \in Pair /\ ranges \in Pair /\ range \in Pair
      /\ StoredOrNone(ranges)
  BY DEF LocalizerInv, LocalizerShape
<1>3. /\ range = ranges /\ Complete(range)
      /\ tag["left"] = range["left"] /\ tag["right"] = range["right"]
  BY <1>1 DEF LocalizerInv, StoresWhole
<1>4. PortIsFresh'
  BY <1>1 DEF LocalizerInv, PortIsFresh
<1>5. PoseIsLast'
  BY <1>1, <1>2, <1>3, PairFacts, TagFacts DEF PoseIsLast
<1>6. StoresWhole'
  BY <1>1 DEF StoresWhole
<1>7. StoredOrNone(range)
  BY <1>2, <1>3 DEF StoredOrNone
<1> QED  BY <1>1, <1>2, <1>4, <1>5, <1>6, <1>7, StoringInv

----------------------------------------------------------------------------
(* The sender's steps                                                      *)

LEMMA LookingInv ==
  ASSUME LocalizerInv, UNCHANGED <<serial, at, locals, attributes, stopping>>,
         sending' \in BOOLEAN, alive' \in BOOLEAN,
         look' \in 0 .. LastLook + 1, checked' \in BOOLEAN, SeenIsThere'
  PROVE  LocalizerInv'
<1>1. UNCHANGED <<port, written, tries, range, ranges, candidates, tag, pose>>
  BY DEF serial, locals, attributes
<1>2. LocalizerShape'
  BY <1>1 DEF LocalizerInv, LocalizerShape, StoredOrNone, Complete
<1>3. PortIsFresh' /\ PoseIsLast'
  BY <1>1, SameValues
<1>4. ReadIsNew' /\ StoresWhole'
  BY <1>1 DEF LocalizerInv, ReadIsNew, StoresWhole, Complete
<1> QED  BY <1>2, <1>3, <1>4 DEF LocalizerInv

LEMMA SenderInv == LocalizerInv /\ (Sender \/ Shutdown) => LocalizerInv'
<1> SUFFICES ASSUME LocalizerInv, Sender \/ Shutdown PROVE LocalizerInv'
  OBVIOUS
<1>1. /\ look \in 0 .. 6 /\ alive \in BOOLEAN /\ checked \in BOOLEAN /\ sending \in BOOLEAN
      /\ SeenIsThere
  BY DEF LocalizerInv, LocalizerShape, LastLook
<1>2. \A k \in 1 .. 5 : UNCHANGED attributes => HasValue(k)' = HasValue(k)
  BY DEF attributes, HasValue
<1>3. CASE Wake
  <2>1. SeenIsThere' /\ look' \in 0 .. LastLook + 1
    BY <1>1, <1>3 DEF Wake, SeenIsThere, LastLook
  <2> QED  BY <1>1, <1>3, <2>1, LookingInv DEF Wake
<1>4. CASE Check
  <2>1. /\ alive /\ look \in 1 .. 5 /\ ~checked
        /\ UNCHANGED <<serial, at, locals, attributes, stopping, sending, alive>>
    BY <1>4 DEF Check, LastLook
  <2>2. CASE HasValue(look)
    <3>1. checked' = TRUE /\ look' = look
      BY <1>4, <2>2 DEF Check
    <3>2. HasValue(look)'
      BY <1>2, <2>1, <2>2, <3>1
    <3>3. SeenIsThere' /\ look' \in 0 .. LastLook + 1
      BY <2>1, <3>1, <3>2 DEF SeenIsThere, LastLook
    <3> QED  BY <1>1, <2>1, <3>1, <3>3, LookingInv
  <2>3. CASE ~HasValue(look)
    <3>1. look' = look + 1 /\ checked' = checked
      BY <1>4, <2>3 DEF Check
    <3>2. SeenIsThere' /\ look' \in 0 .. LastLook + 1
      BY <2>1, <3>1 DEF SeenIsThere, LastLook
    <3> QED  BY <1>1, <2>1, <3>1, <3>2, LookingInv
  <2> QED  BY <2>2, <2>3
<1>5. CASE Use
  <2>1. /\ alive /\ checked /\ look \in 1 .. 5 /\ (look \in {2, 3} \/ HasValue(look))
        /\ UNCHANGED <<serial, at, locals, attributes, stopping, sending>>
    BY <1>1, <1>5 DEF Use, SeenIsThere, LastLook
  <2>2. CASE HasValue(look)
    <3>1. look' = look + 1 /\ checked' = FALSE /\ alive' = alive
      BY <1>5, <2>2 DEF Use
    <3>2. SeenIsThere' /\ look' \in 0 .. LastLook + 1
      BY <2>1, <3>1 DEF SeenIsThere, LastLook
    <3> QED  BY <1>1, <2>1, <3>1, <3>2, LookingInv
  <2>3. CASE ~HasValue(look)
    <3>1. alive' = FALSE /\ look' = look /\ checked' = checked /\ look \in {2, 3}
      BY <1>5, <2>1, <2>3 DEF Use
    <3>2. SeenIsThere' /\ look' \in 0 .. LastLook + 1
      BY <3>1 DEF SeenIsThere, LastLook
    <3> QED  BY <1>1, <2>1, <3>1, <3>2, LookingInv
  <2> QED  BY <2>2, <2>3
<1>6. CASE Send
  <2>1. SeenIsThere' /\ look' \in 0 .. LastLook + 1
    BY <1>1, <1>6 DEF Send, SeenIsThere, LastLook
  <2> QED  BY <1>1, <1>6, <2>1, LookingInv DEF Send
<1>7. CASE Shutdown
  <2>1. /\ UNCHANGED <<serial, at, locals, attributes, stopping, alive, look, checked>>
        /\ sending' = FALSE
    BY <1>7 DEF Shutdown
  <2>2. checked => look \in 1 .. 5
    BY <1>1 DEF SeenIsThere, LastLook
  <2>3. SeenIsThere' /\ look' \in 0 .. LastLook + 1
    BY <1>1, <1>2, <2>1, <2>2 DEF SeenIsThere, LastLook
  <2> QED  BY <1>1, <2>1, <2>3, LookingInv
<1> QED  BY <1>3, <1>4, <1>5, <1>6, <1>7 DEF Sender

----------------------------------------------------------------------------
(* The theorems                                                            *)

LEMMA StepLocalizerInv == LocalizerInv /\ [LocalizerNext]_localizerVars => LocalizerInv'
<1> SUFFICES ASSUME LocalizerInv, [LocalizerNext]_localizerVars PROVE LocalizerInv'
  OBVIOUS
<1>1. CASE \E t \in Tags, kind \in Kinds : Write(t, kind)
  BY <1>1, WriteInv
<1>2. CASE \E t \in Tags : PortFails(t)
  <2>1. PICK t \in Tags : PortFails(t)
    BY <1>2
  <2> QED  BY <2>1, NothingReadInv DEF PortFails
<1>3. CASE Thread
  <2>1. CASE Begin
    BY <2>1, BeginInv
  <2>2. CASE Store
    BY <2>2, StoreInv
  <2>3. CASE StorePosition
    BY <2>3, StorePositionInv
  <2>4. ASSUME NEW t \in Tags, GiveUp(t) PROVE LocalizerInv'
    BY <2>4, NothingReadInv DEF GiveUp
  <2>5. ASSUME NEW t \in Tags, ReadLine(t) \/ StoreCandidates(t) \/ StoreTag(t)
        PROVE  LocalizerInv'
    BY <2>5, ReadLineInv, StoreCandidatesInv, StoreTagInv
  <2> QED  BY <1>3, <2>1, <2>2, <2>3, <2>4, <2>5 DEF Thread
<1>4. CASE Stop
  BY <1>4, StopInv
<1>5. CASE Sender \/ Shutdown
  BY <1>5, SenderInv
<1>6. CASE UNCHANGED localizerVars
  <2>1. /\ UNCHANGED <<serial, at, locals, attributes, stopping, dashboard>>
        /\ UNCHANGED <<sending, alive, look, checked>>
        /\ UNCHANGED <<ranges, tag>>
    BY <1>6 DEF localizerVars, dashboard, attributes
  <2>2. SeenIsThere'
    BY <2>1, SameDashboard
  <2>3. /\ sending' \in BOOLEAN /\ alive' \in BOOLEAN
        /\ look' \in 0 .. LastLook + 1 /\ checked' \in BOOLEAN
    BY <2>1 DEF LocalizerInv, LocalizerShape
  <2> QED  BY <2>1, <2>2, <2>3, LookingInv
<1> QED  BY <1>1, <1>2, <1>3, <1>4, <1>5, <1>6 DEF LocalizerNext

\* The inductive invariant holds in every state of the two threads.
THEOREM LocalizerInvariance == LocalizerSpec => []LocalizerInv
<1> QED  BY InitLocalizerInv, StepLocalizerInv, PTL DEF LocalizerSpec

LEMMA LocalizerTyped == LocalizerInv => LocalizerTypeOK
<1> SUFFICES ASSUME LocalizerInv PROVE LocalizerTypeOK
  OBVIOUS
<1>1. LocalizerShape
  BY DEF LocalizerInv
<1>2. \A t \in Tags : \A i \in DOMAIN port[t] : port[t][i] \in Kinds \X (1 .. Packets)
  BY <1>1, LineFacts, LenProperties DEF LocalizerShape, Lines
<1>3. \A p \in {ranges, pose} : p = NoneYet \/ (p \in Pair /\ Complete(p))
  BY <1>1 DEF LocalizerShape, StoredOrNone
<1> QED  BY <1>1, <1>2, <1>3 DEF LocalizerShape, LocalizerTypeOK

\* Every variable has its type, and ranges and pose are whole or None
\* (uwb_localizer.py:294-344).
THEOREM LocalizerTypeCorrect == LocalizerSpec => []LocalizerTypeOK
<1> QED  BY LocalizerTyped, LocalizerInvariance, PTL

\* At any time the tags' positions are as new as the pose, and the ranges as
\* new as they (uwb_localizer.py:307-343).
THEOREM PoseComesLast == LocalizerSpec => []PoseIsLast
<1>1. LocalizerInv => PoseIsLast
  BY DEF LocalizerInv
<1> QED  BY <1>1, LocalizerInvariance, PTL

\* The sender ends only of candidates that are gone when it uses them, never
\* of ranges or tags (uwb_localizer.py:307-342, dashboard.py:143-165).
THEOREM RangesAndTagsStay == LocalizerSpec => []OnlyCandidatesVanish
<1>1. LocalizerInv => OnlyCandidatesVanish
  BY DEF LocalizerInv, SeenIsThere, OnlyCandidatesVanish
<1> QED  BY <1>1, LocalizerInvariance, PTL

\* Every new pose is of newer packets of both tags than the last
\* (uwb_localizer.py:294-344).
THEOREM PoseMovesOn == LocalizerSpec => PoseAdvances
<1>1. LocalizerInv /\ [LocalizerNext]_localizerVars
        => [pose' # pose => \A t \in Tags : pose'[t] > pose[t]]_pose
  <2> SUFFICES ASSUME LocalizerInv, [LocalizerNext]_localizerVars, pose' # pose
               PROVE  \A t \in Tags : pose'[t] > pose[t]
    OBVIOUS
  <2>1. StorePosition
    BY DEF LocalizerNext, localizerVars, Thread, Sender, attributes, Write, PortFails, Begin,
           Store, ReadLine, GiveUp, StoreCandidates, StoreTag, Stop, Wake, Check, Use, Send,
           Shutdown
  <2>2. pose' = range /\ \A t \in Tags : pose[t] < range[t]
    BY <2>1 DEF StorePosition, LocalizerInv, StoresWhole
  <2>3. \A t \in Tags : pose[t] \in Nat /\ range[t] \in Nat
    BY PairFacts DEF LocalizerInv, LocalizerShape
  <2> QED  BY <2>2, <2>3
<1> QED  BY <1>1, LocalizerInvariance, PTL DEF LocalizerSpec, PoseAdvances
=============================================================================
