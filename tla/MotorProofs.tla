----------------------------- MODULE MotorProofs -----------------------------
(***************************************************************************)
(* Theorems about MotorController, for every set of motors, every queue    *)
(* length and every program: what its status structures and its feedback   *)
(* hold (MotorInv), and what the SPARKs store, what Update has sent and    *)
(* what getters return (CallsInv).                                         *)
(***************************************************************************)
EXTENDS MotorController, SequenceTheorems, FiniteSetTheorems, TLAPS

----------------------------------------------------------------------------
(* Arbitration ids                                                         *)

\* The ids of two status frames are equal only for one motor and one period:
\* CreateArbId keeps its fields apart.
LEMMA PeriodIdInjective ==
  ASSUME NEW p \in Periods, NEW q \in Periods, NEW m \in Motors, NEW k \in Motors,
         PeriodId(p, m) = PeriodId(q, k)
  PROVE  p = q /\ m = k
BY SparkBaseAssumption, SMT DEF PeriodId, CreateArbId, IdPrefix

\* The numbers of the parameters, of each without slots and of slot 0 of each
\* with slots.
LEMMA ParameterIdIsNat == \A n \in DOMAIN ParameterId : ParameterId[n] \in Nat
BY SMT DEF ParameterId

LEMMA SlotIdIsNat == \A n \in DOMAIN SlotIds : SlotIds[n][1] \in Nat
BY SMT DEF SlotIds

\* A setter's or getter's name is that of a parameter.
LEMMA SetterNamed ==
  ASSUME NEW n \in SetterNames
  PROVE  n \in DOMAIN SlotIds \cup DOMAIN ParameterId
BY SMTT(30)
   DEF SlotIds, ParameterId, SetterNames, Setters, BasicSetters, PIDFSetters, LimitSetters,
       EncoderSetters, MotionSetters, SensorSetters, Plain, Ranged, Unbounded

LEMMA GetterNamed ==
  ASSUME NEW n \in GetterNames
  PROVE  n \in DOMAIN SlotIds \cup DOMAIN ParameterId
BY SMTT(30)
   DEF SlotIds, ParameterId, GetterNames, Getters, BasicGetters, PIDFGetters, LimitGetters,
       EncoderGetters, MotionGetters, SensorGetters, As

\* The enum's numbers: parameters with slots and without keep apart, and no
\* number stands for two of them.
LEMMA PlainNumbers ==
  ASSUME NEW n \in DOMAIN ParameterId
  PROVE  /\ ParameterId[n] \in (1 .. 12) \cup (45 .. 75) \cup (112 .. 154)
         /\ n \notin DOMAIN SlotIds
BY SMTT(30) DEF ParameterId, SlotIds

LEMMA PlainInjective ==
  ASSUME NEW n \in DOMAIN ParameterId, NEW k \in DOMAIN ParameterId,
         ParameterId[n] = ParameterId[k]
  PROVE  n = k
BY SMTT(30) DEF ParameterId

LEMMA SlotNumbers ==
  ASSUME NEW n \in DOMAIN SlotIds, NEW s \in 0 .. 3
  PROVE  /\ SlotIds[n][s + 1] \in (13 .. 44) \cup (76 .. 111)
         /\ SlotIds[n][1] + s \in (13 .. 44) \cup (76 .. 111)
BY SMTT(30) DEF SlotIds

LEMMA SlotInjective ==
  ASSUME NEW n \in DOMAIN SlotIds, NEW k \in DOMAIN SlotIds, NEW s \in 0 .. 3, NEW t \in 0 .. 3,
         SlotIds[n][s + 1] = SlotIds[k][t + 1]
  PROVE  n = k /\ s = t
BY SMTT(60) DEF SlotIds

\* No two setters, and no two slots of one, write the same parameter.
LEMMA SetterIdInjective ==
  ASSUME NEW n \in SetterNames, NEW k \in SetterNames, NEW s \in Nat, NEW t \in Nat,
         ValidSlot(n, s), ValidSlot(k, t), SetterId(n, s) = SetterId(k, t)
  PROVE  n = k /\ s = t
<1>1. /\ n \in DOMAIN SlotIds => s \in 0 .. 3
      /\ k \in DOMAIN SlotIds => t \in 0 .. 3
  BY DEF ValidSlot
<1>2. CASE n \in DOMAIN SlotIds /\ k \in DOMAIN SlotIds
  BY <1>1, <1>2, SlotInjective DEF SetterId
<1>3. CASE n \notin DOMAIN SlotIds /\ k \notin DOMAIN SlotIds
  <2>1. n \in DOMAIN ParameterId /\ k \in DOMAIN ParameterId
    BY <1>3, SetterNamed
  <2>2. s = 0 /\ t = 0
    BY <1>3 DEF ValidSlot
  <2>3. ParameterId[n] = ParameterId[k]
    BY <1>3 DEF SetterId
  <2> QED  BY <2>1, <2>2, <2>3, PlainInjective
<1>4. CASE n \in DOMAIN SlotIds /\ k \notin DOMAIN SlotIds
  <2>1. k \in DOMAIN ParameterId
    BY <1>4, SetterNamed
  <2>2. SlotIds[n][s + 1] = ParameterId[k]
    BY <1>4 DEF SetterId
  <2>3. ParameterId[k] \in (1 .. 12) \cup (45 .. 75) \cup (112 .. 154)
    BY <2>1, PlainNumbers
  <2>4. SlotIds[n][s + 1] \in (13 .. 44) \cup (76 .. 111)
    BY <1>1, <1>4, SlotNumbers
  <2> QED  BY <2>2, <2>3, <2>4
<1>5. CASE n \notin DOMAIN SlotIds /\ k \in DOMAIN SlotIds
  <2>1. n \in DOMAIN ParameterId
    BY <1>5, SetterNamed
  <2>2. ParameterId[n] = SlotIds[k][t + 1]
    BY <1>5 DEF SetterId
  <2>3. ParameterId[n] \in (1 .. 12) \cup (45 .. 75) \cup (112 .. 154)
    BY <2>1, PlainNumbers
  <2>4. SlotIds[k][t + 1] \in (13 .. 44) \cup (76 .. 111)
    BY <1>1, <1>5, SlotNumbers
  <2> QED  BY <2>2, <2>3, <2>4
<1> QED  BY <1>2, <1>3, <1>4, <1>5

LEMMA SetterIdRange ==
  ASSUME NEW n \in SetterNames, NEW s \in Nat, ValidSlot(n, s)
  PROVE  SetterId(n, s) \in 1 .. 154
<1>1. CASE n \in DOMAIN SlotIds
  BY <1>1, SlotNumbers DEF SetterId, ValidSlot
<1>2. CASE n \notin DOMAIN SlotIds
  BY <1>2, SetterNamed, PlainNumbers DEF SetterId
<1> QED  BY <1>1, <1>2

LEMMA GetterIdRange ==
  ASSUME NEW n \in GetterNames, NEW s \in Nat, ValidSlot(n, s)
  PROVE  GetterId(n, s) \in 1 .. 154
<1>1. CASE n \in DOMAIN SlotIds
  BY <1>1, SlotNumbers DEF GetterId, ValidSlot
<1>2. CASE n \notin DOMAIN SlotIds
  BY <1>2, GetterNamed, PlainNumbers DEF GetterId
<1> QED  BY <1>1, <1>2

\* A setter and the getter of its name agree on the type; all parameters with
\* slots are floats.
LEMMA TypesAgree ==
  ASSUME NEW s \in Setters, NEW g \in Getters
  PROVE  /\ s.name = g.name => s.type = g.type
         /\ s.name \in DOMAIN SlotIds => s.type = "float"
         /\ g.name \in DOMAIN SlotIds => g.type = "float"
<1> USE DEF Setters, BasicSetters, PIDFSetters, LimitSetters, EncoderSetters, MotionSetters,
            SensorSetters, Plain, Ranged, Unbounded, Getters, BasicGetters, PIDFGetters,
            LimitGetters, EncoderGetters, MotionGetters, SensorGetters, As
<1>1. s.name = g.name => s.type = g.type
  BY SMTT(60)
<1>2. s.name \in DOMAIN SlotIds => s.type = "float"
  BY SMTT(60) DEF SlotIds
<1>3. g.name \in DOMAIN SlotIds => g.type = "float"
  BY SMTT(60) DEF SlotIds
<1> QED  BY <1>1, <1>2, <1>3

\* So whichever setter wrote the parameter a getter reads has its type, also
\* where the getter's number is that of another slot or parameter.
LEMMA ReadAsWritten ==
  ASSUME NEW n \in SetterNames, NEW g \in GetterNames, NEW s \in Nat, NEW t \in Nat,
         ValidSlot(n, s), ValidSlot(g, t), SetterId(n, s) = GetterId(g, t)
  PROVE  SetterOf(n).type = GetterType(g)
<1> DEFINE a == SetterOf(n)
           b == CHOOSE x \in Getters : x.name = g
<1>1. a \in Setters /\ a.name = n
  BY DEF SetterOf, SetterNames
<1>2. b \in Getters /\ b.name = g /\ GetterType(g) = b.type
  BY DEF GetterNames, GetterType
<1> HIDE DEF a, b
<1>3. CASE n \in DOMAIN SlotIds /\ g \in DOMAIN SlotIds
  BY <1>1, <1>2, <1>3, TypesAgree DEF a
<1>4. CASE n \notin DOMAIN SlotIds /\ g \notin DOMAIN SlotIds
  <2>1. n \in DOMAIN ParameterId /\ g \in DOMAIN ParameterId
    BY <1>4, SetterNamed, GetterNamed
  <2>2. ParameterId[n] = ParameterId[g]
    BY <1>4 DEF SetterId, GetterId
  <2>3. n = g
    BY <2>1, <2>2, PlainInjective
  <2> QED  BY <1>1, <1>2, <2>3, TypesAgree DEF a
<1>5. CASE n \in DOMAIN SlotIds /\ g \notin DOMAIN SlotIds
  <2>1. g \in DOMAIN ParameterId /\ s \in 0 .. 3
    BY <1>5, GetterNamed DEF ValidSlot
  <2>2. SlotIds[n][s + 1] = ParameterId[g]
    BY <1>5 DEF SetterId, GetterId
  <2>3. ParameterId[g] \in (1 .. 12) \cup (45 .. 75) \cup (112 .. 154)
    BY <2>1, PlainNumbers
  <2>4. SlotIds[n][s + 1] \in (13 .. 44) \cup (76 .. 111)
    BY <1>5, <2>1, SlotNumbers
  <2> QED  BY <2>2, <2>3, <2>4
<1>6. CASE n \notin DOMAIN SlotIds /\ g \in DOMAIN SlotIds
  <2>1. n \in DOMAIN ParameterId /\ t \in 0 .. 3
    BY <1>6, SetterNamed DEF ValidSlot
  <2>2. ParameterId[n] = SlotIds[g][1] + t
    BY <1>6 DEF SetterId, GetterId
  <2>3. ParameterId[n] \in (1 .. 12) \cup (45 .. 75) \cup (112 .. 154)
    BY <2>1, PlainNumbers
  <2>4. SlotIds[g][1] + t \in (13 .. 44) \cup (76 .. 111)
    BY <1>6, <2>1, SlotNumbers
  <2> QED  BY <2>2, <2>3, <2>4
<1> QED  BY <1>3, <1>4, <1>5, <1>6

\* No answer to a getter has the id of a status frame.
LEMMA RequestApart ==
  ASSUME NEW c \in KnownCalls, c.op = "get", NEW p \in Periods, NEW m \in Motors
  PROVE  RequestId(c) # PeriodId(p, m)
<1>1. c.motor \in 0 .. 62 /\ p \in 0 .. 4 /\ m \in 0 .. 62
  BY SparkBaseAssumption, ScenariosAssumption
<1>2. CASE c.name = "Firmware"
  <2>1. RequestId(c) = IdPrefix + 9 * 1024 + 8 * 64 + c.motor
    BY <1>2 DEF RequestId, FirmwareId, CreateArbId, APICommand
  <2> QED  BY <1>1, <2>1 DEF PeriodId, CreateArbId, IdPrefix
<1>3. CASE c.name # "Firmware"
  <2>1. GetterId(c.name, c.slot) \in Nat
    <3>1. c.name \in GetterNames /\ c.slot \in Nat
      BY <1>3, ScenariosAssumption
    <3>2. c.name \in DOMAIN SlotIds \cup DOMAIN ParameterId
      BY <3>1, GetterNamed
    <3> QED  BY <3>1, <3>2, ParameterIdIsNat, SlotIdIsNat DEF GetterId
  <2>2. RequestId(c) = IdPrefix + 48 * 1024 + GetterId(c.name, c.slot) * 64 + c.motor
    BY <1>3 DEF RequestId, CreateParamArbId
  <2> QED  BY <1>1, <2>1, <2>2 DEF PeriodId, CreateArbId, IdPrefix
<1> QED  BY <1>2, <1>3

----------------------------------------------------------------------------
(* Sequences                                                               *)

LEMMA SequenceFacts ==
  ASSUME NEW s, IsSequence(s)
  PROVE  /\ Len(s) \in Nat
         /\ DOMAIN s = 1 .. Len(s)
         /\ s # <<>> => Len(s) > 0
BY LenProperties, EmptySeq DEF IsSequence

LEMMA SequenceOf ==
  ASSUME NEW S, NEW t \in Seq(S)
  PROVE  IsSequence(t)
<1>1. PICK n \in Nat : t \in [1 .. n -> S]
  BY SeqDef
<1>2. t \in [1 .. n -> {t[i] : i \in DOMAIN t}]
  BY <1>1
<1> QED  BY <1>2, SeqDef, SMTT(30) DEF IsSequence

\* A queue that got one more element.
LEMMA AppendFacts ==
  ASSUME NEW s, IsSequence(s), NEW e
  PROVE  /\ IsSequence(Append(s, e))
         /\ Len(Append(s, e)) = Len(s) + 1
         /\ \A i \in 1 .. Len(s) : Append(s, e)[i] = s[i]
         /\ Append(s, e)[Len(s) + 1] = e
<1> DEFINE S == {s[i] : i \in DOMAIN s}
           T == S \cup {e}
           t == Append(s, e)
<1>1. s \in Seq(T)
  BY SeqMonotonic DEF IsSequence
<1>2. /\ Len(t) = Len(s) + 1 /\ t \in Seq(T)
      /\ \A i \in 1 .. Len(s) : t[i] = s[i]
      /\ t[Len(s) + 1] = e
  BY <1>1, AppendProperties
<1> QED  BY <1>2, SequenceOf

\* A queue whose first element was taken.
LEMMA TailFacts ==
  ASSUME NEW s, IsSequence(s), s # <<>>
  PROVE  /\ IsSequence(Tail(s))
         /\ Len(Tail(s)) = Len(s) - 1
         /\ \A i \in 1 .. Len(Tail(s)) : Tail(s)[i] = s[i + 1]
         /\ Head(s) = s[1] /\ Len(s) \in Nat \ {0}
<1> DEFINE t == Tail(s)
<1>1. /\ Len(t) = Len(s) - 1 /\ t \in Seq({s[i] : i \in DOMAIN s})
      /\ \A i \in 1 .. Len(t) : t[i] = s[i + 1]
      /\ Head(s) = s[1] /\ Len(s) \in Nat \ {0}
  BY HeadTailProperties, EmptySeq DEF IsSequence
<1> QED  BY <1>1, SequenceOf

LEMMA EmptyFacts == IsSequence(<<>>) /\ Len(<<>>) = 0
BY EmptySeq DEF IsSequence

----------------------------------------------------------------------------
(* The driver's part of the invariant                                      *)

LEMMA InitInv == Init => MotorInv
<1> SUFFICES ASSUME Init PROVE MotorInv
  OBVIOUS
<1> USE DEF Init, DriverInit
<1>1. Shape
  BY ScenariosAssumption, EmptyFacts DEF Shape, Versions
<1>2. AnswersApart /\ QueuedIsOwn /\ QueuedInOrder
  BY EmptyFacts DEF AnswersApart, QueuedIsOwn, QueuedInOrder
<1>3. StatusIsOwn /\ FormerGetFirst
  BY DEF StatusIsOwn, FormerGetFirst
<1>4. HeldIsOld /\ FeedbackShape
  BY SparkBaseAssumption DEF HeldIsOld, FeedbackShape, NoFeedback
<1> QED  BY <1>1, <1>2, <1>3, <1>4 DEF MotorInv, DriverInv

\* What the program does to calls in every step.
Proceeds ==
  /\ calls' \in {calls, <<>>} \/ (calls # <<>> /\ calls' = Tail(calls))
  /\ pc' \notin {"call", "join", "exit"} => calls' = calls /\ calls # <<>>

LEMMA CallsStaySequence ==
  ASSUME Shape, Proceeds
  PROVE  calls' \in Seq(KnownCalls) /\ (pc' \notin {"call", "join", "exit"} => calls' # <<>>)
BY HeadTailProperties, EmptySeq DEF Shape, Proceeds

\* What a step that at most loses frames does to the queue, and to the threads
\* left with earlier sockets.
Waits ==
  \/ UNCHANGED <<former, late>> /\ (rx' = rx \/ (rx # <<>> /\ rx' = Tail(rx)))
  \/ Replace("open") \/ Replace("closed")
  \/ \E W \in SUBSET Motors :
       Leave(W) /\ UNCHANGED rx /\ late' \in {late, late \cup UNION former'}

LEMMA WaitsFacts ==
  ASSUME FormerGetFirst, Waits
  PROVE  /\ FormerGetFirst' /\ late \subseteq late'
         /\ rx' \in {rx, <<>>} \/ (rx # <<>> /\ rx' = Tail(rx))
<1>1. CASE UNCHANGED <<former, late>> /\ (rx' = rx \/ (rx # <<>> /\ rx' = Tail(rx)))
  BY <1>1 DEF FormerGetFirst, Stranded
<1>2. CASE Replace("open") \/ Replace("closed")
  BY <1>2 DEF FormerGetFirst, Replace, Waiting
<1>3. CASE \E W \in SUBSET Motors :
             Leave(W) /\ UNCHANGED rx /\ late' \in {late, late \cup UNION former'}
  <2>1. PICK W \in SUBSET Motors :
          Leave(W) /\ UNCHANGED rx /\ late' \in {late, late \cup UNION former'}
    BY <1>3
  <2>2. former' \subseteq SUBSET Motors /\ UNION former' \subseteq UNION former
    BY <2>1 DEF Leave, FormerGetFirst
  <2> QED  BY <2>1, <2>2 DEF FormerGetFirst, Stranded
<1> QED  BY <1>1, <1>2, <1>3 DEF Waits

\* A frame of the bus wakes threads in reads of earlier sockets.
LEMMA WakeFacts ==
  ASSUME FormerGetFirst, NEW W \in SUBSET Stranded, Wake(W)
  PROVE  /\ FormerGetFirst' /\ late \subseteq late' /\ W \subseteq Motors
         /\ Leave(W) /\ late' = late \cup UNION former'
         /\ \A k \in W : k \in late \/ rx = <<>>
BY DEF FormerGetFirst, Wake, Leave, Stranded

\* A step that leaves the status structures alone, and at most loses frames,
\* keeps DriverInv.
LEMMA LosesFrames ==
  ASSUME DriverInv, Proceeds, UNCHANGED <<emitted, status, answers>>, Waits
  PROVE  DriverInv' /\ late \subseteq late'
<1> USE DEF DriverInv
<1>1. /\ FormerGetFirst' /\ late \subseteq late'
      /\ rx' \in {rx, <<>>} \/ (rx # <<>> /\ rx' = Tail(rx))
  BY WaitsFacts
<1>2. Shape'
  BY <1>1, CallsStaySequence, TailFacts, EmptyFacts DEF Shape, Versions
<1>3. AnswersApart' /\ StatusIsOwn'
  BY DEF AnswersApart, IsStatus, StatusIsOwn
<1>4. CASE rx' = rx
  BY <1>1, <1>2, <1>3, <1>4 DEF QueuedIsOwn, QueuedInOrder
<1>5. CASE rx' = <<>>
  BY <1>1, <1>2, <1>3, <1>5, EmptyFacts DEF QueuedIsOwn, QueuedInOrder
<1>6. CASE rx # <<>> /\ rx' = Tail(rx)
  <2>1. /\ Len(rx') = Len(rx) - 1 /\ Len(rx) \in Nat
        /\ \A i \in 1 .. Len(rx') : rx'[i] = rx[i + 1]
    BY <1>6, TailFacts DEF Shape
  <2>2. \A i \in 1 .. Len(rx') : i + 1 \in 1 .. Len(rx)
    BY <2>1
  <2>3. QueuedIsOwn'
    BY <1>1, <2>1, <2>2, SMTT(30) DEF QueuedIsOwn
  <2>4. QueuedInOrder'
    BY <2>1, <2>2, SMTT(30) DEF QueuedInOrder
  <2> QED  BY <1>1, <1>2, <1>3, <2>3, <2>4
<1> QED  BY <1>1, <1>4, <1>5, <1>6

LEMMA EmittedIsNat ==
  ASSUME Shape, NEW m \in Motors, NEW p \in Periods
  PROVE  emitted[m][p] \in Nat /\ status[m][p].n \in Nat
BY DEF Shape, Versions

\* No status structure goes back but those of the threads in late.
Grows ==
  /\ late \subseteq late'
  /\ \A k \in Motors \ late, p \in Periods : status'[k][p].n >= status[k][p].n

LEMMA StillGrows ==
  ASSUME Shape, UNCHANGED status, late \subseteq late'
  PROVE  Grows
BY EmittedIsNat DEF Grows

\* A status frame arrives: the last of its motor and period.
LEMMA EmitStatusInv ==
  ASSUME DriverInv, NEW m \in Motors, NEW p \in Periods, EmitStatus(m, p), UNCHANGED program
  PROVE  DriverInv' /\ Grows
<1> DEFINE f == Frame(PeriodId(p, m), m, 8, 0, emitted[m][p] + 1)
<1> USE DEF DriverInv
<1>1. PICK W \in SUBSET Stranded : Wake(W) /\ Process(W, f)
  BY DEF EmitStatus
<1>2. /\ emitted' = [emitted EXCEPT ![m][p] = @ + 1]
      /\ rx' \in {rx, Append(rx, f)}
      /\ UNCHANGED <<answers, calls, pc>>
  BY DEF EmitStatus, Arrives, program
<1>3. /\ FormerGetFirst' /\ late \subseteq late'
      /\ \A k \in W : k \in late \/ rx = <<>>
  BY <1>1, WakeFacts
<1> HIDE DEF f
<1>4. /\ emitted' \in [Motors -> Versions] /\ emitted[m][p] \in Nat
      /\ \A k \in Motors, q \in Periods :
           /\ emitted[k][q] \in Nat /\ emitted'[k][q] \in Nat
           /\ emitted[k][q] <= emitted'[k][q]
      /\ emitted'[m][p] = emitted[m][p] + 1
  <2>1. emitted \in [Motors -> [Periods -> Nat]]
    BY DEF Shape, Versions
  <2>2. emitted' = [emitted EXCEPT ![m] = [emitted[m] EXCEPT ![p] = emitted[m][p] + 1]]
    BY <1>2
  <2>3. emitted[m] \in [Periods -> Nat] /\ emitted[m][p] \in Nat
    BY <2>1
  <2>4. [emitted[m] EXCEPT ![p] = emitted[m][p] + 1] \in [Periods -> Nat]
    BY <2>3
  <2> QED  BY <2>1, <2>2, <2>3, <2>4 DEF Versions
<1>5. f.id = PeriodId(p, m) /\ f.dev = m /\ f.val = emitted[m][p] + 1
  BY DEF f, Frame
<1>6. \A k \in Motors, q \in Periods : f.id = PeriodId(q, k) => k = m /\ q = p
  <2> SUFFICES ASSUME NEW k \in Motors, NEW q \in Periods, f.id = PeriodId(q, k)
               PROVE  k = m /\ q = p
    OBVIOUS
  <2>1. PeriodId(p, m) = PeriodId(q, k)
    BY <1>5
  <2> QED  BY <2>1, PeriodIdInjective
<1>7. \A k \in Motors, q \in Periods :
        \/ status'[k][q] = status[k][q]
        \/ k \in W /\ k = m /\ q = p /\ status'[k][q] = [dev |-> m, n |-> emitted[m][p] + 1]
  BY <1>1, <1>5, <1>6 DEF Process, Updates
<1>8. \A k \in Motors, q \in Periods :
        /\ status'[k][q] \in [dev : Motors, n : Nat] /\ status'[k][q].dev = k
        /\ status'[k][q].n <= emitted'[k][q]
        /\ status'[k][q].n >= status[k][q].n
  <2> TAKE k \in Motors, q \in Periods
  <2>1. /\ status[k][q] \in [dev : Motors, n : Nat] /\ status[k][q].dev = k
        /\ status[k][q].n <= emitted[k][q]
    BY DEF Shape, StatusIsOwn
  <2> QED  BY <1>4, <1>7, <2>1
<1>9. Shape'
  <2>1. IsSequence(rx) /\ IsSequence(Append(rx, f))
    BY AppendFacts DEF Shape
  <2>2. IsSequence(rx')
    BY <1>2, <2>1
  <2>3. status' \in [Motors -> [Periods -> [dev : Motors, n : Nat]]]
    BY <1>1, <1>8 DEF Process
  <2> QED  BY <1>2, <1>4, <2>2, <2>3 DEF Shape
<1>10. AnswersApart' /\ StatusIsOwn' /\ Grows
  BY <1>2, <1>3, <1>8 DEF AnswersApart, IsStatus, StatusIsOwn, Grows
<1>11. \A i \in 1 .. Len(rx), q \in Periods, k \in Motors :
        rx[i].id = PeriodId(q, k) =>
          /\ rx[i].dev = k /\ rx[i].val \in Nat
          /\ rx[i].val <= emitted[k][q] /\ rx[i].val <= emitted'[k][q]
          /\ k \notin late' => status'[k][q].n <= rx[i].val
  <2> SUFFICES ASSUME NEW i \in 1 .. Len(rx), NEW q \in Periods, NEW k \in Motors,
                      rx[i].id = PeriodId(q, k)
               PROVE  /\ rx[i].dev = k /\ rx[i].val \in Nat
                      /\ rx[i].val <= emitted[k][q] /\ rx[i].val <= emitted'[k][q]
                      /\ k \notin late' => status'[k][q].n <= rx[i].val
    OBVIOUS
  <2>1. /\ rx[i].dev = k /\ rx[i].val \in Nat /\ rx[i].val <= emitted[k][q]
        /\ k \notin late => status[k][q].n <= rx[i].val
    BY DEF QueuedIsOwn
  <2>2. k \in W => k \in late
    BY <1>3, EmptyFacts
  <2> QED  BY <1>4, <1>3, <1>7, <2>1, <2>2
<1>12. CASE rx' = rx
  <2>1. QueuedIsOwn' /\ QueuedInOrder'
    BY <1>11, <1>12 DEF QueuedIsOwn, QueuedInOrder
  <2> QED  BY <1>9, <1>10, <1>3, <2>1
<1>13. CASE rx' = Append(rx, f)
  <2>1. /\ Len(rx') = Len(rx) + 1 /\ Len(rx) \in Nat
        /\ \A i \in 1 .. Len(rx) : rx'[i] = rx[i]
        /\ rx'[Len(rx) + 1] = f
    BY <1>13, AppendFacts, SequenceFacts DEF Shape
  <2>2. \A i \in 1 .. Len(rx') : i \in 1 .. Len(rx) \/ i = Len(rx) + 1
    BY <2>1
  <2>3. QueuedIsOwn'
    <3> SUFFICES ASSUME NEW i \in 1 .. Len(rx'), NEW q \in Periods, NEW k \in Motors,
                        rx'[i].id = PeriodId(q, k)
                 PROVE  /\ rx'[i].dev = k /\ rx'[i].val \in Nat
                        /\ rx'[i].val <= emitted'[k][q]
                        /\ k \notin late' => status'[k][q].n <= rx'[i].val
      BY DEF QueuedIsOwn
    <3>1. CASE i \in 1 .. Len(rx)
      BY <1>11, <2>1, <3>1
    <3>2. CASE i = Len(rx) + 1
      <4>1. k = m /\ q = p /\ rx'[i] = f
        BY <1>6, <2>1, <3>2
      <4> QED  BY <1>4, <1>5, <1>8, <4>1
    <3> QED  BY <2>2, <3>1, <3>2
  <2>4. QueuedInOrder'
    <3> SUFFICES ASSUME NEW i \in 1 .. Len(rx'), NEW j \in 1 .. Len(rx'),
                        NEW q \in Periods, NEW k \in Motors, i <= j,
                        rx'[i].id = PeriodId(q, k), rx'[j].id = PeriodId(q, k)
                 PROVE  rx'[i].val <= rx'[j].val
      BY DEF QueuedInOrder
    <3>1. CASE j \in 1 .. Len(rx)
      <4>1. i \in 1 .. Len(rx)
        BY <2>1, <3>1
      <4> QED  BY <2>1, <3>1, <4>1 DEF QueuedInOrder
    <3>2. CASE j = Len(rx) + 1
      <4>1. k = m /\ q = p /\ rx'[j] = f
        BY <1>6, <2>1, <3>2
      <4>2. CASE i = j
        BY <1>4, <1>5, <4>1, <4>2
      <4>3. CASE i \in 1 .. Len(rx)
        <5>1. rx[i].val \in Nat /\ rx[i].val <= emitted[m][p] /\ rx'[i] = rx[i]
          BY <1>11, <2>1, <4>1, <4>3
        <5> QED  BY <1>4, <1>5, <4>1, <5>1
      <4> QED  BY <2>2, <3>2, <4>2, <4>3
    <3> QED  BY <2>2, <3>1, <3>2
  <2> QED  BY <1>9, <1>10, <1>3, <2>3, <2>4
<1> QED  BY <1>2, <1>12, <1>13

\* An answer arrives, which nobody takes for a status frame.
LEMMA EmitAnswerInv ==
  ASSUME DriverInv, EmitAnswer, UNCHANGED program
  PROVE  DriverInv' /\ Grows
<1> USE DEF DriverInv
<1> DEFINE f == Head(answers)
<1>1. PICK W \in SUBSET Stranded : Wake(W) /\ Process(W, f)
  BY DEF EmitAnswer
<1>2. /\ answers' = Tail(answers) /\ rx' \in {rx, Append(rx, f)} /\ answers # <<>>
      /\ UNCHANGED <<emitted, calls, pc>>
  BY DEF EmitAnswer, Arrives, program
<1>3. FormerGetFirst' /\ late \subseteq late'
  BY <1>1, WakeFacts
<1>4. /\ Len(answers) \in Nat \ {0} /\ f = answers[1] /\ IsSequence(answers')
      /\ Len(answers') = Len(answers) - 1
      /\ \A i \in 1 .. Len(answers') : answers'[i] = answers[i + 1]
  BY <1>2, TailFacts DEF Shape
<1>5. ~IsStatus(f)
  BY <1>4 DEF AnswersApart
<1> HIDE DEF f
<1>6. UNCHANGED status
  BY <1>1, <1>5 DEF Process, Updates, IsStatus, Shape
<1>7. AnswersApart' /\ StatusIsOwn' /\ Grows
  BY <1>2, <1>4, <1>3, <1>6, StillGrows DEF AnswersApart, IsStatus, StatusIsOwn
<1>8. CASE rx' = rx
  <2>1. Shape'
    BY <1>2, <1>4, <1>8, <1>6 DEF Shape
  <2>2. QueuedIsOwn' /\ QueuedInOrder'
    BY <1>2, <1>8, <1>3, <1>6 DEF QueuedIsOwn, QueuedInOrder
  <2> QED  BY <1>7, <1>3, <2>1, <2>2
<1>9. CASE rx' = Append(rx, f)
  <2>1. /\ IsSequence(rx') /\ Len(rx') = Len(rx) + 1 /\ Len(rx) \in Nat
        /\ \A i \in 1 .. Len(rx) : rx'[i] = rx[i]
        /\ rx'[Len(rx) + 1] = f
    BY <1>9, AppendFacts, SequenceFacts DEF Shape
  <2>2. Shape'
    BY <1>2, <1>4, <1>6, <2>1 DEF Shape
  <2>3. \A i \in 1 .. Len(rx') : i \in 1 .. Len(rx) \/ rx'[i] = f
    BY <2>1
  <2>4. \A i \in 1 .. Len(rx'), q \in Periods, k \in Motors :
          rx'[i].id = PeriodId(q, k) => i \in 1 .. Len(rx) /\ rx'[i] = rx[i]
    BY <1>5, <2>1, <2>3 DEF IsStatus
  <2>5. QueuedIsOwn'
    BY <1>2, <1>3, <1>6, <2>4 DEF QueuedIsOwn
  <2>6. QueuedInOrder'
    BY <2>4 DEF QueuedInOrder
  <2> QED  BY <1>7, <1>3, <2>2, <2>5, <2>6
<1> QED  BY <1>2, <1>8, <1>9

\* A reader takes a frame: its status structure does not go back, and what
\* is left in the queue is not older than it.
LEMMA ReadFrameInv ==
  ASSUME DriverInv, NEW m \in Motors, ReadFrame(m), UNCHANGED program
  PROVE  DriverInv' /\ Grows
<1> USE DEF DriverInv
<1> DEFINE f == Head(rx)
<1>1. /\ rx # <<>> /\ rx' = Tail(rx)
      /\ status' = [k \in Motors |-> [p \in Periods |->
                      IF k = m /\ p \in Updates(k, f) THEN [dev |-> f.dev, n |-> f.val]
                      ELSE status[k][p]]]
      /\ UNCHANGED <<former, late, emitted, answers, calls, pc>>
  BY DEF ReadFrame, Process, program
<1>2. /\ Len(rx) \in Nat \ {0} /\ f = rx[1] /\ IsSequence(rx')
      /\ Len(rx') = Len(rx) - 1
      /\ \A i \in 1 .. Len(rx') : rx'[i] = rx[i + 1] /\ i + 1 \in 1 .. Len(rx)
  BY <1>1, TailFacts DEF Shape
<1> HIDE DEF f
<1>3. \A k \in Motors, p \in Periods :
        /\ status'[k][p] \in [dev : Motors, n : Nat] /\ status'[k][p].dev = k
        /\ status'[k][p].n <= emitted[k][p]
        /\ k \notin late =>
             /\ status[k][p].n <= status'[k][p].n
             /\ \A i \in 1 .. Len(rx) : rx[i].id = PeriodId(p, k) => status'[k][p].n <= rx[i].val
  <2> TAKE k \in Motors, p \in Periods
  <2>1. /\ status[k][p] \in [dev : Motors, n : Nat] /\ emitted[k][p] \in Nat
        /\ status[k][p].dev = k /\ status[k][p].n <= emitted[k][p]
    BY EmittedIsNat DEF Shape, StatusIsOwn
  <2>2. CASE k = m /\ p \in Updates(k, f)
    <3>1. rx[1].id = PeriodId(p, k) /\ 1 \in 1 .. Len(rx)
      BY <1>2, <2>2 DEF Updates
    <3>2. /\ f.dev = k /\ f.val \in Nat /\ f.val <= emitted[k][p]
          /\ k \notin late => status[k][p].n <= f.val
      BY <1>2, <3>1 DEF QueuedIsOwn
    <3>3. status'[k][p] = [dev |-> k, n |-> f.val]
      BY <1>1, <2>2, <3>2
    <3>4. \A i \in 1 .. Len(rx) : rx[i].id = PeriodId(p, k) => f.val <= rx[i].val
      BY <1>2, <3>1 DEF QueuedInOrder
    <3> QED  BY <2>1, <3>2, <3>3, <3>4
  <2>3. CASE ~(k = m /\ p \in Updates(k, f))
    <3>1. status'[k][p] = status[k][p]
      BY <1>1, <2>3
    <3>2. k \notin late =>
            \A i \in 1 .. Len(rx) : rx[i].id = PeriodId(p, k) => status[k][p].n <= rx[i].val
      BY DEF QueuedIsOwn
    <3> QED  BY <2>1, <3>1, <3>2
  <2> QED  BY <2>2, <2>3
<1>4. Shape'
  <2>1. status' \in [Motors -> [Periods -> [dev : Motors, n : Nat]]]
    BY <1>1, <1>3
  <2> QED  BY <1>1, <1>2, <2>1 DEF Shape
<1>5. AnswersApart' /\ StatusIsOwn'
  BY <1>1, <1>3 DEF AnswersApart, IsStatus, StatusIsOwn
<1>6. FormerGetFirst'
  BY <1>1, WaitsFacts DEF Waits
<1>7. QueuedIsOwn'
  <2> SUFFICES ASSUME NEW i \in 1 .. Len(rx'), NEW q \in Periods, NEW k \in Motors,
                      rx'[i].id = PeriodId(q, k)
               PROVE  /\ rx'[i].dev = k /\ rx'[i].val \in Nat /\ rx'[i].val <= emitted[k][q]
                      /\ k \notin late => status'[k][q].n <= rx'[i].val
    BY <1>1 DEF QueuedIsOwn
  <2>1. rx'[i] = rx[i + 1] /\ i + 1 \in 1 .. Len(rx)
    BY <1>2
  <2>2. rx[i + 1].dev = k /\ rx[i + 1].val \in Nat /\ rx[i + 1].val <= emitted[k][q]
    BY <2>1 DEF QueuedIsOwn
  <2>3. k \notin late => status'[k][q].n <= rx[i + 1].val
    BY <1>3, <2>1
  <2> QED  BY <2>1, <2>2, <2>3
<1>8. QueuedInOrder'
  BY <1>2 DEF QueuedInOrder
<1>9. Grows
  BY <1>1, <1>3, EmittedIsNat DEF Grows
<1> QED  BY <1>4, <1>5, <1>6, <1>7, <1>8, <1>9

\* A getter asks: one more answer under way.
LEMMA BeginGetInv ==
  ASSUME DriverInv, BeginGet
  PROVE  DriverInv' /\ Grows
<1> USE DEF DriverInv
<1>1. /\ Proceeds /\ UNCHANGED <<emitted, status, rx>> /\ Waits
      /\ UNCHANGED answers \/ answers' = Append(answers, Answer(RequestId(Call)))
  <2>1. CASE \E W \in SUBSET Stranded : Wake(W) /\ UNCHANGED rx
    <3>1. Waits
      BY <2>1, WakeFacts DEF Waits
    <3> QED  BY <3>1 DEF BeginGet, Begins, Request, RequestFails, Returns, Throws, Proceeds,
                         driver, sockets
  <2>2. CASE UNCHANGED driver \/ RequestFails
    <3>1. Waits
      BY <2>2 DEF Waits, RequestFails, driver, sockets, threads
    <3> QED  BY <2>2, <3>1 DEF BeginGet, Begins, Request, RequestFails, Returns, Throws, Proceeds,
                               driver, sockets
  <2> QED  BY <2>1, <2>2 DEF BeginGet, Request, sockets
<1>2. Grows
  BY <1>1, WaitsFacts, StillGrows
<1>3. CASE UNCHANGED answers
  BY <1>1, <1>2, <1>3, LosesFrames
<1>4. CASE answers' = Append(answers, Answer(RequestId(Call)))
  <2> DEFINE f == Answer(RequestId(Call))
  <2>1. Call \in KnownCalls /\ Call.op = "get"
    BY HeadTailProperties DEF BeginGet, Begins, Call, Shape
  <2>2. ~IsStatus(f)
    BY <2>1, RequestApart DEF IsStatus, Answer, Frame
  <2> HIDE DEF f
  <2>3. /\ IsSequence(answers') /\ Len(answers') = Len(answers) + 1 /\ Len(answers) \in Nat
        /\ \A i \in 1 .. Len(answers) : answers'[i] = answers[i]
        /\ answers'[Len(answers) + 1] = f
    BY <1>4, AppendFacts, SequenceFacts DEF Shape, f
  <2>4. AnswersApart'
    <3>1. \A i \in 1 .. Len(answers') : i \in 1 .. Len(answers) \/ answers'[i] = f
      BY <2>3
    <3> QED  BY <2>2, <2>3, <3>1 DEF AnswersApart, IsStatus
  <2>5. Shape'
    BY <1>1, <2>3, CallsStaySequence DEF Shape
  <2>6. FormerGetFirst' /\ late \subseteq late'
    BY <1>1, WaitsFacts
  <2> QED  BY <1>1, <1>2, <2>4, <2>5, <2>6 DEF StatusIsOwn, QueuedIsOwn, QueuedInOrder
<1> QED  BY <1>1, <1>3, <1>4

----------------------------------------------------------------------------
(* The program's part of the invariant                                     *)

\* What a step of the program other than BeginGet does to the driver.
Loses == Proceeds /\ UNCHANGED <<emitted, status, answers>> /\ Waits

\* What a step that writes no reference, no data and no feedback does to them.
Holds ==
  /\ UNCHANGED <<offset, feedback, data>>
  /\ pc' = "collected" => pc = "collected" /\ queue' = queue

\* Only InitializeMotor connects a motor.
Connects ==
  connected' = connected \/ \E m \in Motors : connected' = connected \cup {m}

\* The calls of the driver.
LEMMA DriverSteps ==
  ASSUME FormerGetFirst,
         \/ \E m : Construct(m) \/ Destroy(m)
         \/ \E f : Sends(f)
         \/ ConstructFails \/ SendFails \/ TakeFrame \/ TakeNothing \/ UNCHANGED driver
  PROVE  Waits /\ UNCHANGED <<emitted, status, answers>>
<1>1. CASE \E m : Construct(m) \/ Destroy(m)
  BY <1>1 DEF Construct, Destroy, Waits
<1>2. CASE ConstructFails
  BY <1>2 DEF ConstructFails, Waits
<1>3. CASE \E f : Sends(f)
  <2>1. PICK f : Sends(f)
    BY <1>3
  <2>2. PICK W \in SUBSET Stranded : Wake(W)
    BY <2>1 DEF Sends
  <2> QED  BY <2>1, <2>2, WakeFacts DEF Waits, Sends, sockets
<1>4. CASE SendFails \/ TakeFrame \/ TakeNothing \/ UNCHANGED driver
  BY <1>4 DEF SendFails, TakeFrame, TakeNothing, Waits, driver, sockets, threads
<1> QED  BY <1>1, <1>2, <1>3, <1>4

\* The lemmas about these take every step of the program apart but those
\* that have one of their own.
LEMMA ConfiguringSteps ==
  ASSUME Shape, FormerGetFirst, New \/ InitializeAgain \/ Emplace \/ Configure
  PROVE  Loses /\ Holds /\ Connects
<1> USE DriverSteps DEF Loses, Holds, Connects, Proceeds, Returns, Throws, Begins, Shape
<1>1. CASE New
  BY <1>1 DEF New
<1>2. CASE InitializeAgain
  BY <1>2 DEF InitializeAgain
<1>3. CASE Emplace
  <2>1. Call \in KnownCalls /\ Call.op = "init"
    BY <1>3, HeadTailProperties DEF Emplace, Call
  <2>2. Call.motor \in Motors
    BY <2>1, ScenariosAssumption
  <2> QED  BY <1>3, <2>2 DEF Emplace
<1>4. CASE Configure
  BY <1>4 DEF Configure
<1> QED  BY <1>1, <1>2, <1>3, <1>4

LEMMA ResettingSteps ==
  ASSUME Shape, FormerGetFirst,
         BeginReset \/ WaitForFeedback \/ WaitTimesOut \/ WaitThrows \/ SetMotorDutyCycle
  PROVE  Loses /\ Holds /\ Connects
<1> USE DriverSteps DEF Loses, Holds, Connects, Proceeds, Returns, Throws, Begins, Shape
<1>1. CASE BeginReset
  BY <1>1 DEF BeginReset
<1>2. CASE WaitForFeedback
  BY <1>2 DEF WaitForFeedback
<1>3. CASE WaitTimesOut
  BY <1>3 DEF WaitTimesOut
<1>4. CASE WaitThrows
  BY <1>4 DEF WaitThrows
<1>5. CASE SetMotorDutyCycle
  BY <1>5 DEF SetMotorDutyCycle
<1> QED  BY <1>1, <1>2, <1>3, <1>4, <1>5

LEMMA UpdatingSteps ==
  ASSUME Shape, FormerGetFirst, BeginUpdate \/ UpdateSends \/ UpdateThrows
  PROVE  Loses /\ Holds /\ Connects
<1> USE DriverSteps DEF Loses, Holds, Connects, Proceeds, Returns, Throws, Begins, Shape
<1>1. CASE BeginUpdate
  BY <1>1 DEF BeginUpdate, NextMotor
<1>2. CASE UpdateSends
  BY <1>2 DEF UpdateSends
<1>3. CASE UpdateThrows
  BY <1>3 DEF UpdateThrows
<1> QED  BY <1>1, <1>2, <1>3

LEMMA ParameterSteps ==
  ASSUME Shape, FormerGetFirst, Set \/ Send \/ AwaitAnswer \/ EndGet \/ Hang
  PROVE  Loses /\ Holds /\ Connects
<1> USE DriverSteps DEF Loses, Holds, Connects, Proceeds, Returns, Throws, Begins, Shape
<1>1. CASE Set
  BY <1>1 DEF Set
<1>2. CASE Send
  BY <1>2 DEF Send
<1>3. CASE AwaitAnswer
  BY <1>3 DEF AwaitAnswer
<1>4. CASE EndGet
  BY <1>4 DEF EndGet
<1>5. CASE Hang
  BY <1>5 DEF Hang
<1> QED  BY <1>1, <1>2, <1>3, <1>4, <1>5

LEMMA EndingSteps ==
  ASSUME Shape, FormerGetFirst, DestroyMotor \/ Join \/ Exit
  PROVE  Loses /\ Holds /\ Connects
<1> USE DriverSteps DEF Loses, Holds, Connects, Proceeds, Shape
<1>1. CASE DestroyMotor
  BY <1>1 DEF DestroyMotor
<1>2. CASE Join
  BY <1>2 DEF Join
<1>3. CASE Exit
  BY <1>3 DEF Exit
<1> QED  BY <1>1, <1>2, <1>3

\* Such a step keeps MotorInv.
LEMMA QuietStep ==
  ASSUME MotorInv, Loses, Holds, Connects
  PROVE  MotorInv' /\ Grows
<1>1. DriverInv' /\ late \subseteq late'
  BY LosesFrames DEF MotorInv, Loses
<1>2. HeldIsOld'
  BY <1>1 DEF MotorInv, HeldIsOld, Loses, Holds
<1>3. FeedbackShape' /\ (connected \subseteq Motors)'
  BY <1>1 DEF MotorInv, FeedbackShape, Holds, Connects
<1>4. Grows
  BY <1>1, StillGrows DEF MotorInv, DriverInv, Loses
<1> QED  BY <1>1, <1>2, <1>3, <1>4 DEF MotorInv

\* The current position becomes the reference.
LEMMA ZeroPositionInv ==
  ASSUME MotorInv, ZeroPosition
  PROVE  MotorInv' /\ Grows
<1>1. Loses /\ Connects /\ UNCHANGED <<status, late, feedback, data>> /\ pc' = "call"
  <2>1. Waits /\ UNCHANGED <<status, emitted, answers, late>>
    BY DriverSteps DEF ZeroPosition, MotorInv, DriverInv, driver, threads
  <2> QED  BY <2>1 DEF MotorInv, DriverInv, Shape, ZeroPosition, Returns, Loses, Proceeds, Connects
<1>2. DriverInv'
  BY <1>1, LosesFrames DEF MotorInv, Loses
<1>3. HeldIsOld'
  <2> SUFFICES /\ offset' \in [Motors -> Nat]
               /\ \A m \in Motors \ late : offset'[m] <= status[m][2].n
    BY <1>1 DEF HeldIsOld
  <2>1. /\ offset' = [offset EXCEPT ![Call.motor] = status[Call.motor][2].n]
        /\ offset \in [Motors -> Nat]
        /\ \A m \in Motors \ late : offset[m] <= status[m][2].n
    BY DEF ZeroPosition, Get, StatusGetter, MotorInv, HeldIsOld
  <2>2. \A m \in Motors : status[m][2].n \in Nat
    BY SparkBaseAssumption DEF MotorInv, DriverInv, Shape
  <2>3. CASE Call.motor \in Motors
    BY <2>1, <2>2, <2>3
  <2>4. CASE Call.motor \notin Motors
    <3>1. offset' = offset
      BY <2>1, <2>4
    <3> QED  BY <2>1, <3>1
  <2> QED  BY <2>3, <2>4
<1>4. Grows
  BY <1>1, StillGrows DEF MotorInv, DriverInv
<1> QED  BY <1>1, <1>2, <1>3, <1>4 DEF MotorInv, FeedbackShape, Connects

\* Update's first getters ...
LEMMA CollectInv ==
  ASSUME MotorInv, Collect
  PROVE  MotorInv' /\ Grows
<1>1. Loses /\ Connects /\ UNCHANGED <<status, late, feedback, offset, queue>>
  <2>1. Waits /\ UNCHANGED <<status, emitted, answers, late>>
    BY DriverSteps DEF Collect, MotorInv, DriverInv, driver, threads
  <2> QED  BY <2>1 DEF MotorInv, DriverInv, Shape, Collect, Loses, Proceeds, Connects
<1>2. DriverInv'
  BY <1>1, LosesFrames DEF MotorInv, Loses
<1>3. HeldIsOld'
  <2> SUFFICES ASSUME Head(queue) \in Motors \ late
               PROVE  /\ data'.velocity \in Nat /\ data'.velocity <= status[Head(queue)][1].n
                      /\ data'.position \in Nat /\ data'.zero \in Nat
                      /\ data'.zero <= data'.position
    BY <1>1 DEF MotorInv, HeldIsOld
  <2>1. /\ data'.velocity = status[Head(queue)][1].n
        /\ data'.position = status[Head(queue)][2].n
        /\ data'.zero = offset[Head(queue)]
    BY DEF Collect, Get, StatusGetter
  <2>2. \A m \in Motors : status[m][1].n \in Nat /\ status[m][2].n \in Nat
    BY SparkBaseAssumption DEF MotorInv, DriverInv, Shape
  <2> QED  BY <2>1, <2>2 DEF MotorInv, HeldIsOld
<1>4. Grows
  BY <1>1, StillGrows DEF MotorInv, DriverInv
<1> QED  BY <1>1, <1>2, <1>3, <1>4 DEF MotorInv, FeedbackShape, Connects

\* ... and the last one, with the feedback put together.
LEMMA CollectRestInv ==
  ASSUME MotorInv, CollectRest
  PROVE  MotorInv' /\ Grows
<1>1. Loses /\ Connects /\ UNCHANGED <<status, late, data, offset>> /\ pc' # "collected"
  <2>1. Waits /\ UNCHANGED <<status, emitted, answers, late>>
    BY DriverSteps DEF CollectRest, MotorInv, DriverInv, driver, threads
  <2> QED  BY <2>1 DEF MotorInv, DriverInv, Shape, CollectRest, NextMotor, Loses, Proceeds, Connects
<1>2. DriverInv'
  BY <1>1, LosesFrames DEF MotorInv, Loses
<1>3. HeldIsOld'
  BY <1>1 DEF MotorInv, HeldIsOld
<1>4. FeedbackShape'
  <2>1. /\ feedback' = [feedback EXCEPT ![Head(queue)] =
             [duty |-> data.duty, velocity |-> data.velocity, position |-> data.position,
              zero |-> data.zero, current |-> status[Head(queue)][1].n]]
        /\ pc = "collected"
    BY DEF CollectRest, Get, StatusGetter
  <2> QED  BY <1>1, <2>1 DEF MotorInv, HeldIsOld, FeedbackShape
<1>5. Grows
  BY <1>1, StillGrows DEF MotorInv, DriverInv
<1> QED  BY <1>1, <1>2, <1>3, <1>4, <1>5 DEF MotorInv, Connects

\* A status that moved on is not older than what was read before.
LEMMA MovesOn ==
  ASSUME MotorInv, DriverInv', Grows, UNCHANGED <<offset, feedback, data, pc, queue, connected>>
  PROVE  MotorInv'
<1>1. \A k \in Motors \ late, p \in {1, 2} :
        status'[k][p].n >= status[k][p].n /\ status[k][p].n \in Nat /\ status'[k][p].n \in Nat
  BY SparkBaseAssumption, SMTT(30) DEF Grows, MotorInv, DriverInv, Shape
<1>2. late \subseteq late'
  BY DEF Grows
<1>3. HeldIsOld'
  BY <1>1, <1>2 DEF MotorInv, HeldIsOld
<1>4. FeedbackShape'
  BY <1>2 DEF MotorInv, FeedbackShape
<1> QED  BY <1>3, <1>4 DEF MotorInv

LEMMA ReaderInv ==
  ASSUME MotorInv, NEW m \in Motors, Reader(m)
  PROVE  MotorInv' /\ Grows
<1>1. CASE ReadFrame(m)
  BY <1>1, ReadFrameInv, MovesOn DEF Reader, Reads, program, MotorInv
<1>2. CASE \/ StartThread(m) \/ Select(m) \/ ReadNothing(m) \/ ReadClosed(m) \/ ReadFails(m)
           \/ ThreadEnds(m)
  <2>1. Waits
    BY <1>2 DEF Waits, StartThread, Select, ReadNothing, ReadClosed, ReadFails, ThreadEnds, sockets
  <2>2. UNCHANGED <<status, emitted, answers, program>>
    BY <1>2 DEF Reader, Reads, StartThread, Select, ReadNothing, ReadClosed, ReadFails, ThreadEnds,
                ReadFrame, program
  <2>3. Loses /\ Holds /\ Connects
    BY <2>1, <2>2 DEF Loses, Holds, Connects, Proceeds, program, MotorInv, DriverInv, Shape
  <2> QED  BY <2>3, QuietStep
<1> QED  BY <1>1, <1>2 DEF Reader, Reads

LEMMA BusInv ==
  ASSUME MotorInv, Bus
  PROVE  MotorInv' /\ Grows
<1>1. DriverInv' /\ Grows
  BY EmitAnswerInv, EmitStatusInv DEF MotorInv, Bus
<1> QED  BY <1>1, MovesOn DEF Bus, program

LEMMA ProgramInv ==
  ASSUME MotorInv, Program
  PROVE  MotorInv' /\ Grows
<1>1. Shape /\ FormerGetFirst
  BY DEF MotorInv, DriverInv
<1>2. CASE \/ New \/ InitializeAgain \/ Emplace \/ Configure
           \/ BeginReset \/ WaitForFeedback \/ WaitTimesOut \/ WaitThrows \/ SetMotorDutyCycle
           \/ BeginUpdate \/ UpdateSends \/ UpdateThrows
           \/ Set \/ Send \/ AwaitAnswer \/ EndGet \/ Hang \/ DestroyMotor \/ Join \/ Exit
  <2>1. Loses /\ Holds /\ Connects
    BY <1>1, <1>2, ConfiguringSteps, ResettingSteps, UpdatingSteps, ParameterSteps, EndingSteps
  <2> QED  BY <2>1, QuietStep
<1>3. CASE ZeroPosition \/ Collect \/ CollectRest
  BY <1>3, ZeroPositionInv, CollectInv, CollectRestInv
<1>4. CASE BeginGet
  <2>1. UNCHANGED <<status, offset, feedback, data, queue, connected>> /\ pc' # "collected"
    BY <1>4 DEF BeginGet, Request, RequestFails, Returns, Throws, driver
  <2>2. DriverInv' /\ Grows /\ late \subseteq late'
    BY <1>4, BeginGetInv DEF MotorInv, Grows
  <2> QED  BY <2>1, <2>2 DEF MotorInv, HeldIsOld, FeedbackShape
<1> QED  BY <1>2, <1>3, <1>4 DEF Program

LEMMA NextInv ==
  ASSUME MotorInv, [Next]_vars
  PROVE  MotorInv' /\ Grows
<1>1. CASE Program
  BY <1>1, ProgramInv
<1>2. CASE \E m \in Motors : Reader(m)
  BY <1>2, ReaderInv
<1>3. CASE Bus
  BY <1>3, BusInv
<1>4. CASE UNCHANGED vars
  <2>1. Waits /\ UNCHANGED <<emitted, status, answers>>
    BY <1>4, DriverSteps DEF vars, driver, MotorInv, DriverInv
  <2>2. Loses /\ Holds /\ Connects
    BY <1>4, <2>1 DEF Loses, Holds, Connects, Proceeds, vars, program, MotorInv, DriverInv, Shape
  <2> QED  BY <2>2, QuietStep
<1> QED  BY <1>1, <1>2, <1>3, <1>4 DEF Next, Terminated

----------------------------------------------------------------------------
(* What a SPARK makes of a frame                                           *)

Commands == PlainCommands \cup ControlCommands \cup PeriodCommands

\* The id of a command of motor m.
CommandId(c, m) == CreateArbId(APICommand[c][1], APICommand[c][2], m)

\* The class and the index of a command, as one number.
LEMMA CommandIds ==
  ASSUME NEW c \in Commands, NEW k \in Commands, NEW m \in 0 .. 62,
         CommandId(c, m) = CommandId(k, m)
  PROVE  c = k
<1> USE DEF Commands, PlainCommands, ControlCommands, PeriodCommands, APICommand
<1>1. 16 * APICommand[c][1] + APICommand[c][2] = 16 * APICommand[k][1] + APICommand[k][2]
  BY SMTT(30) DEF CommandId, CreateArbId, IdPrefix
<1> QED  BY <1>1, SMTT(30)

LEMMA FrameIds ==
  ASSUME NEW m \in 0 .. 62
  PROVE  /\ \A c \in Commands : DeviceOf(CommandId(c, m)) = m
         /\ DeviceOf(FirmwareId(m)) = m
         /\ \A p \in Periods : DeviceOf(PeriodId(p, m)) = m
         /\ \A p \in 0 .. 255 : DeviceOf(CreateParamArbId(p, m)) = m
                                /\ ParameterOf(CreateParamArbId(p, m)) = p
<1> USE DEF DeviceOf, CreateArbId, IdPrefix
<1>1. \A c \in Commands : DeviceOf(CommandId(c, m)) = m
  <2>1. \A c \in Commands : APICommand[c][1] \in Nat /\ APICommand[c][2] \in Nat
    BY SMTT(30) DEF Commands, PlainCommands, ControlCommands, PeriodCommands, APICommand
  <2> QED  BY <2>1 DEF CommandId
<1>2. DeviceOf(FirmwareId(m)) = m
  BY DEF FirmwareId, APICommand
<1>3. \A p \in Periods : DeviceOf(PeriodId(p, m)) = m
  BY SparkBaseAssumption DEF PeriodId
<1>4. \A p \in 0 .. 255 : DeviceOf(CreateParamArbId(p, m)) = m
                          /\ ParameterOf(CreateParamArbId(p, m)) = p
  BY DEF CreateParamArbId, ParameterOf
<1> QED  BY <1>1, <1>2, <1>3, <1>4

\* A command's frame does what the command says, and nothing else.
LEMMA CommandEffect ==
  ASSUME NEW c \in Commands, NEW m \in Motors, NEW v, NEW d,
         d = [ram |-> d.ram, flash |-> d.flash, output |-> d.output]
  PROVE  After(d, CommandFrame(m, c, v)) =
           [ram |-> IF c \in {"FactoryDefaults", "FactoryReset"} THEN <<>> ELSE d.ram,
            flash |-> IF c = "BurnFlash" THEN <<d.ram>> ELSE d.flash,
            output |-> IF c \in ControlCommands THEN [cmd |-> c, val |-> v] ELSE d.output]
<1> DEFINE f == CommandFrame(m, c, v)
           is(k) == f.id = CreateArbId(APICommand[k][1], APICommand[k][2], DeviceOf(f.id))
<1>1. m \in 0 .. 62
  BY SparkBaseAssumption
<1>2. f.id = CommandId(c, m) /\ f.len = 8 /\ f.val = v
  BY DEF CommandFrame, Frame, CommandId
<1>3. DeviceOf(f.id) = m
  BY <1>1, <1>2, FrameIds
<1> HIDE DEF f
<1>4. \A k \in Commands : is(k) <=> k = c
  <2> SUFFICES ASSUME NEW k \in Commands PROVE is(k) <=> k = c
    OBVIOUS
  <2>1. is(k) <=> CommandId(c, m) = CommandId(k, m)
    BY <1>2, <1>3 DEF CommandId
  <2>2. CommandId(c, m) = CommandId(k, m) => k = c
    BY <1>1, CommandIds
  <2> QED  BY <2>1, <2>2
<1>5. (is("BurnFlash") <=> c = "BurnFlash")
      /\ (is("FactoryDefaults") \/ is("FactoryReset") <=> c \in {"FactoryDefaults", "FactoryReset"})
  BY <1>4 DEF Commands, PlainCommands
<1>6. /\ (\E k \in ControlCommands : is(k)) <=> c \in ControlCommands
      /\ c \in ControlCommands => (CHOOSE k \in ControlCommands : is(k)) = c
  BY <1>4 DEF Commands
<1>7. After(d, f) =
        CASE is("BurnFlash") -> [d EXCEPT !.flash = <<d.ram>>]
          [] is("FactoryDefaults") \/ is("FactoryReset") -> [d EXCEPT !.ram = <<>>]
          [] \E k \in ControlCommands : is(k) ->
               [d EXCEPT !.output = [cmd |-> CHOOSE k \in ControlCommands : is(k), val |-> f.val]]
          [] OTHER -> d
  BY <1>2 DEF After
<1> HIDE DEF is
<1>8. CASE c = "BurnFlash"
  BY <1>2, <1>5, <1>6, <1>7, <1>8 DEF f, ControlCommands
<1>9. CASE c \in {"FactoryDefaults", "FactoryReset"}
  BY <1>2, <1>5, <1>6, <1>7, <1>9 DEF f, ControlCommands
<1>10. CASE c \in ControlCommands
  BY <1>2, <1>5, <1>6, <1>7, <1>10 DEF f, ControlCommands
<1>11. CASE c \notin ControlCommands \cup {"BurnFlash", "FactoryDefaults", "FactoryReset"}
  BY <1>2, <1>5, <1>6, <1>7, <1>11 DEF f
<1> QED  BY <1>8, <1>9, <1>10, <1>11

LEMMA OneField ==
  ASSUME NEW a \in Int, NEW x \in Int, NEW y \in Int, NEW m \in Int,
         a + 64 * x + m = a + 64 * y + m
  PROVE  x = y
OBVIOUS

\* A setter's frame sets its parameter: no command has its id, and its number
\* survives the way through the id.
LEMMA ParamEffect ==
  ASSUME NEW n, NEW s, NEW m \in Motors, NEW v, NEW d, SetterId(n, s) \in 1 .. 154,
         d = [ram |-> d.ram, flash |-> d.flash, output |-> d.output]
  PROVE  After(d, ParamFrame(m, n, s, v)) =
           [ram |-> [j \in DOMAIN d.ram \cup {SetterId(n, s)} |->
                       IF j = SetterId(n, s)
                         THEN [type |-> WireType(SetterOf(n).type), val |-> v] ELSE d.ram[j]],
            flash |-> d.flash, output |-> d.output]
<1> DEFINE f == ParamFrame(m, n, s, v)
           i == SetterId(n, s)
           w == WireType(SetterOf(n).type)
           is(k) == f.id = CreateArbId(APICommand[k][1], APICommand[k][2], DeviceOf(f.id))
<1>1. m \in 0 .. 62
  BY SparkBaseAssumption
<1>2. f.id = CreateParamArbId(i, m) /\ f.len = 5 /\ f.type = w /\ f.val = v
  BY DEF ParamFrame, Frame
<1>3. DeviceOf(f.id) = m /\ ParameterOf(f.id) = i
  <2>1. i \in 0 .. 255
    OBVIOUS
  <2>2. DeviceOf(CreateParamArbId(i, m)) = m /\ ParameterOf(CreateParamArbId(i, m)) = i
    BY <1>1, <2>1, FrameIds
  <2> HIDE DEF f, i
  <2> QED  BY <1>2, <2>2
<1> HIDE DEF f, i, w
<1>4. \A k \in {"BurnFlash", "FactoryDefaults", "FactoryReset"} \cup ControlCommands : ~is(k)
  <2> SUFFICES ASSUME NEW k \in {"BurnFlash", "FactoryDefaults", "FactoryReset"} \cup ControlCommands
               PROVE  f.id # CreateArbId(APICommand[k][1], APICommand[k][2], m)
    BY <1>3
  <2>1. APICommand[k][1] \in (0 .. 7) \cup {63} /\ APICommand[k][2] \in 0 .. 6
    BY SMTT(60) DEF ControlCommands, APICommand
  <2> DEFINE a == APICommand[k][1]
             b == APICommand[k][2]
  <2>2. a \in (0 .. 7) \cup {63} /\ b \in 0 .. 6
    BY <2>1
  <2>3. i \in 1 .. 154
    BY DEF i
  <2> HIDE DEF a, b
  <2>4. a \in Nat /\ b \in Nat /\ 16 * a + b \notin (48 * 16 + 1) .. (48 * 16 + 154)
    BY <2>2
  <2>5. CreateParamArbId(i, m) # CreateArbId(a, b, m)
    <3> DEFINE x == 48 * 16 + i
               y == 16 * a + b
    <3>1. CreateParamArbId(i, m) = IdPrefix + 64 * x + m
      BY <1>1, <2>3 DEF CreateParamArbId, IdPrefix
    <3>2. CreateArbId(a, b, m) = IdPrefix + 64 * y + m
      BY <1>1, <2>4 DEF CreateArbId, IdPrefix
    <3>3. x \in Int /\ y \in Int /\ x # y /\ m \in Int /\ IdPrefix \in Int
      BY <1>1, <2>3, <2>4 DEF IdPrefix
    <3> HIDE DEF x, y
    <3>4. IdPrefix + 64 * x + m = IdPrefix + 64 * y + m => x = y
      BY <3>3, OneField
    <3> QED  BY <3>1, <3>2, <3>3, <3>4, Zenon
  <2> QED  BY <1>2, <2>5 DEF a, b
<1>5. After(d, f) = [d EXCEPT !.ram = [j \in DOMAIN d.ram \cup {i} |->
                                         IF j = i THEN [type |-> w, val |-> v] ELSE d.ram[j]]]
  BY <1>2, <1>3, <1>4 DEF After
<1> QED  BY <1>5 DEF f, i, w

\* The step gives motor m command c with v, and nothing else.
Obeys(m, c, v) ==
  /\ \A k \in Motors : k # m => device'[k] = device[k]
  /\ device'[m].ram = IF c \in {"FactoryDefaults", "FactoryReset"} THEN <<>> ELSE device[m].ram
  /\ device'[m].flash = IF c = "BurnFlash" THEN <<device[m].ram>> ELSE device[m].flash
  /\ device'[m].output =
       IF c \in ControlCommands THEN [cmd |-> c, val |-> v] ELSE device[m].output

\* The device of the motor a frame is for is changed, the others are not.
LEMMA SendsCommand ==
  ASSUME DeviceShape, NEW c \in Commands, NEW m \in Motors, NEW v, Sends(CommandFrame(m, c, v))
  PROVE  DeviceShape' /\ Obeys(m, c, v)
<1> DEFINE f == CommandFrame(m, c, v)
<1>1. m \in 0 .. 62
  BY SparkBaseAssumption
<1>2. DeviceOf(f.id) = m
  BY <1>1, FrameIds DEF CommandFrame, Frame, CommandId
<1>3. device' = [k \in Motors |-> IF k = m THEN After(device[k], f) ELSE device[k]]
  BY <1>2 DEF Sends, Receives
<1>4. After(device[m], f) =
        [ram |-> IF c \in {"FactoryDefaults", "FactoryReset"} THEN <<>> ELSE device[m].ram,
         flash |-> IF c = "BurnFlash" THEN <<device[m].ram>> ELSE device[m].flash,
         output |-> IF c \in ControlCommands THEN [cmd |-> c, val |-> v] ELSE device[m].output]
  <2>1. device[m] =
          [ram |-> device[m].ram, flash |-> device[m].flash, output |-> device[m].output]
    BY DEF DeviceShape
  <2> QED  BY <2>1, CommandEffect
<1> HIDE DEF f
<1>5. device'[m] = After(device[m], f) /\ \A k \in Motors : k # m => device'[k] = device[k]
  BY <1>3
<1>6. DeviceShape'
  BY <1>4, <1>5 DEF DeviceShape
<1> QED  BY <1>4, <1>5, <1>6 DEF Obeys

\* The step sets parameter i of motor m to x, and nothing else.
SetsParam(m, i, x) ==
  /\ \A k \in Motors : k # m => device'[k] = device[k]
  /\ device'[m].flash = device[m].flash /\ device'[m].output = device[m].output
  /\ DOMAIN device'[m].ram = DOMAIN device[m].ram \cup {i}
  /\ device'[m].ram[i] = x
  /\ \A j \in DOMAIN device[m].ram : j # i => device'[m].ram[j] = device[m].ram[j]
  /\ Stored(device'[m].ram, i) = x
  /\ \A j : j # i => Stored(device'[m].ram, j) = Stored(device[m].ram, j)

LEMMA SendsParam ==
  ASSUME DeviceShape, NEW n, NEW s, SetterId(n, s) \in 1 .. 154, NEW m \in Motors, NEW v,
         Sends(ParamFrame(m, n, s, v))
  PROVE  /\ DeviceShape'
         /\ SetsParam(m, SetterId(n, s), [type |-> WireType(SetterOf(n).type), val |-> v])
<1> DEFINE f == ParamFrame(m, n, s, v)
           i == SetterId(n, s)
           x == [type |-> WireType(SetterOf(n).type), val |-> v]
           new == [j \in DOMAIN device[m].ram \cup {i} |-> IF j = i THEN x ELSE device[m].ram[j]]
<1>1. m \in 0 .. 62
  BY SparkBaseAssumption
<1>2. DeviceOf(f.id) = m
  <2>1. SetterId(n, s) \in 0 .. 255
    OBVIOUS
  <2> QED  BY <1>1, <2>1, FrameIds DEF ParamFrame, Frame
<1>3. device' = [k \in Motors |-> IF k = m THEN After(device[k], f) ELSE device[k]]
  BY <1>2 DEF Sends, Receives
<1>4. After(device[m], f) = [ram |-> new, flash |-> device[m].flash, output |-> device[m].output]
  <2>1. device[m] =
          [ram |-> device[m].ram, flash |-> device[m].flash, output |-> device[m].output]
    BY DEF DeviceShape
  <2> QED  BY <2>1, ParamEffect
<1> HIDE DEF f, new, i, x
<1>5. device'[m] = After(device[m], f) /\ \A k \in Motors : k # m => device'[k] = device[k]
  BY <1>3
<1>6. DeviceShape'
  BY <1>4, <1>5 DEF DeviceShape
<1>7. device'[m].ram = new
  BY <1>4, <1>5
<1>8. /\ DOMAIN new = DOMAIN device[m].ram \cup {i} /\ new[i] = x
      /\ \A j \in DOMAIN device[m].ram : j # i => new[j] = device[m].ram[j]
  BY DEF new
<1>9. Stored(new, i) = x /\ \A j : j # i => Stored(new, j) = Stored(device[m].ram, j)
  BY <1>8 DEF Stored
<1> QED  BY <1>4, <1>5, <1>6, <1>7, <1>8, <1>9 DEF i, x, SetsParam

----------------------------------------------------------------------------
(* Calls, motors and the log                                               *)

\* What a step of the program does to the calls left and to the motors of
\* MotorController, and to the log.
Moves ==
  /\ Proceeds
  /\ \/ connected' = connected
     \/ connected' = connected \cup {Call.motor} /\ calls # <<>> /\ Call.op = "init"
LogGrows == log' = log \/ \E e : log' = Append(log, e)

LEMMA CallsLeft ==
  ASSUME Shape, Moves
  PROVE  \A i \in 1 .. Len(calls') : \E j \in 1 .. Len(calls) : calls'[i] = calls[j]
<1>1. IsSequence(calls)
  BY SequenceOf DEF Shape
<1>2. CASE calls' = calls
  BY <1>2
<1>3. CASE calls' = <<>>
  <2>1. Len(calls') = 0
    BY <1>3, EmptyFacts
  <2> QED  BY <2>1
<1>4. CASE calls # <<>> /\ calls' = Tail(calls)
  <2>1. /\ Len(calls') = Len(calls) - 1 /\ Len(calls) \in Nat
        /\ \A i \in 1 .. Len(calls') : calls'[i] = calls[i + 1]
    BY <1>1, <1>4, TailFacts
  <2>2. \A i \in 1 .. Len(calls') : i + 1 \in 1 .. Len(calls)
    BY <2>1
  <2> QED  BY <2>1, <2>2
<1> QED  BY <1>2, <1>3, <1>4 DEF Moves, Proceeds

LEMMA FirstCall ==
  ASSUME Shape, calls # <<>>
  PROVE  /\ Call \in KnownCalls /\ 1 \in 1 .. Len(calls) /\ Call = calls[1]
         /\ Call.op = "init" => Call.motor \in Managed
         /\ Call.op # "update" => Call.motor \in Motors
<1>1. Call \in KnownCalls /\ 1 \in 1 .. Len(calls) /\ Call = calls[1]
  BY HeadTailProperties, EmptySeq DEF Shape, Call
<1>2. Call.op = "init" => Call.motor \in Managed
  BY <1>1 DEF Managed
<1> QED  BY <1>1, <1>2, ScenariosAssumption

\* A motor does not become MotorController's but by a call that was there.
LEMMA ManagedShrinks ==
  ASSUME Shape, Moves
  PROVE  Managed' \subseteq Managed /\ connected \subseteq connected'
<1> SUFFICES ASSUME NEW m \in Managed' PROVE m \in Managed
  BY DEF Moves
<1>1. CASE m \in connected'
  BY <1>1, FirstCall DEF Moves, Managed
<1>2. CASE \E i \in 1 .. Len(calls') : calls'[i].op = "init" /\ calls'[i].motor = m
  BY <1>2, CallsLeft DEF Managed
<1> QED  BY <1>1, <1>2 DEF Managed

\* The log only grows.
LEMMA LogFacts ==
  ASSUME IsSequence(log), LogGrows
  PROVE  /\ IsSequence(log')
         /\ \A k \in 1 .. Len(log) : k \in 1 .. Len(log') /\ log'[k] = log[k]
         /\ Len(log) \in Nat
<1>1. Len(log) \in Nat
  BY SequenceFacts
<1>2. CASE log' = log
  BY <1>1, <1>2
<1>3. ASSUME NEW e, log' = Append(log, e)
      PROVE  /\ IsSequence(log')
             /\ \A k \in 1 .. Len(log) : k \in 1 .. Len(log') /\ log'[k] = log[k]
  <2>1. /\ IsSequence(log') /\ Len(log') = Len(log) + 1
        /\ \A k \in 1 .. Len(log) : log'[k] = log[k]
    BY <1>3, AppendFacts
  <2> QED  BY <1>1, <2>1
<1> QED  BY <1>1, <1>2, <1>3 DEF LogGrows

\* What was written stays written.
LEMMA WrittenStays ==
  ASSUME IsSequence(log), LogGrows
  PROVE  Written \subseteq Written'
BY LogFacts DEF Written

LEMMA GetsOwnStays ==
  ASSUME IsSequence(log), LogGrows, UNCHANGED result, GetsOwn
  PROVE  GetsOwn'
<1> SUFFICES ASSUME Asked, result.slot = 0
             PROVE  result.val \in Given(result)'
  BY DEF GetsOwn, Asked
<1>1. /\ DOMAIN log = 1 .. Len(log) /\ DOMAIN log' = 1 .. Len(log')
      /\ \A k \in 1 .. Len(log) : k \in 1 .. Len(log') /\ log'[k] = log[k]
  BY LogFacts, SequenceFacts
<1>2. Given(result) \subseteq Given(result)'
  BY <1>1 DEF Given
<1> QED  BY <1>2 DEF GetsOwn

LEMMA ApartStays ==
  ASSUME Shape, IsSequence(log), Moves, Apart,
         log' = log \/ \E e : log' = Append(log, e) /\ e.motor \in Motors \ Managed
  PROVE  Apart'
<1>1. \A i \in 1 .. Len(calls') : calls'[i].op \in DirectCalls => calls'[i].motor \notin Managed'
  <2> SUFFICES ASSUME NEW i \in 1 .. Len(calls'), calls'[i].op \in DirectCalls
               PROVE  calls'[i].motor \notin Managed
    BY ManagedShrinks
  <2> QED  BY CallsLeft DEF Apart
<1>2. \A k \in 1 .. Len(log') : log'[k].motor \in Motors \ Managed'
  <2> SUFFICES ASSUME NEW k \in 1 .. Len(log') PROVE log'[k].motor \in Motors \ Managed
    BY ManagedShrinks
  <2>1. CASE log' = log
    BY <2>1 DEF Apart
  <2>2. ASSUME NEW e, log' = Append(log, e), e.motor \in Motors \ Managed
        PROVE  log'[k].motor \in Motors \ Managed
    <3>1. /\ Len(log') = Len(log) + 1 /\ Len(log) \in Nat
          /\ \A j \in 1 .. Len(log) : log'[j] = log[j]
          /\ log'[Len(log) + 1] = e
      BY <2>2, AppendFacts, SequenceFacts
    <3>2. k \in 1 .. Len(log) \/ k = Len(log) + 1
      BY <3>1
    <3> QED  BY <2>2, <3>1, <3>2 DEF Apart
  <2> QED  BY <2>1, <2>2
<1> QED  BY <1>1, <1>2 DEF Apart

----------------------------------------------------------------------------
(* What a step leaves as it is                                             *)

\* A step that writes no device and logs nothing.
LEMMA DevicesStay ==
  ASSUME CallsInv, Shape, Moves, UNCHANGED log, \A k \in Motors : device'[k] = device[k]
  PROVE  DeviceShape' /\ LogShape' /\ Apart' /\ Burnt' /\ SettersKeepApart' /\ RamIsGiven'
<1> USE DEF CallsInv
<1>1. Managed' \subseteq Managed /\ connected \subseteq connected'
  BY ManagedShrinks
<1>2. DeviceShape'
  BY DEF DeviceShape
<1>3. LogShape'
  BY DEF LogShape
<1>4. Apart'
  BY ApartStays DEF LogShape
<1>5. Burnt'
  BY <1>1 DEF Burnt, Whole
<1>6. SettersKeepApart'
  <2>1. DOMAIN log = 1 .. Len(log)
    BY SequenceFacts DEF LogShape
  <2>2. \A i \in DOMAIN log : device'[log[i].motor] = device[log[i].motor]
    BY <2>1 DEF Apart
  <2> QED  BY <2>2 DEF SettersKeepApart, Undoes
<1>7. RamIsGiven'
  BY <1>1 DEF RamIsGiven, Written
<1> QED  BY <1>2, <1>3, <1>4, <1>5, <1>6, <1>7

\* Answers and frames are only lost.
LEMMA AnswersStay ==
  ASSUME AnswersAreGiven, LogShape, LogGrows, Underway' \subseteq Underway,
         connected \subseteq connected'
  PROVE  AnswersAreGiven'
<1>1. Written \subseteq Written'
  BY WrittenStays DEF LogShape
<1> QED  BY <1>1 DEF AnswersAreGiven

LEMMA UnderwayShrinks ==
  ASSUME Shape, UNCHANGED answers, rx' \in {rx, <<>>} \/ (rx # <<>> /\ rx' = Tail(rx))
  PROVE  Underway' \subseteq Underway
<1>1. CASE rx' = rx
  BY <1>1 DEF Underway
<1>2. CASE rx' = <<>>
  <2>1. Len(rx') = 0
    BY <1>2, EmptyFacts
  <2> QED  BY <2>1 DEF Underway
<1>3. CASE rx # <<>> /\ rx' = Tail(rx)
  <2>1. /\ Len(rx') = Len(rx) - 1 /\ Len(rx) \in Nat
        /\ \A i \in 1 .. Len(rx') : rx'[i] = rx[i + 1]
    BY <1>3, TailFacts DEF Shape
  <2>2. \A i \in 1 .. Len(rx') : i + 1 \in 1 .. Len(rx)
    BY <2>1
  <2> QED  BY <2>1, <2>2 DEF Underway
<1> QED  BY <1>1, <1>2, <1>3

\* Between two calls nothing is being configured, updated or read.
LEMMA Between ==
  ASSUME pc' \in {"call", "wait", "zero", "join", "exit"},
         pc' = "wait" => calls' = calls /\ Call.op = "reset"
  PROVE  CallShape' /\ Configuring' /\ Updating'
BY DEF CallShape, Configuring, Updating, Call

\* The types, apart from those MotorInv has.
SocketTypes ==
  /\ soc \in {"none", "open", "closed"} /\ alive \subseteq Motors /\ faults \in Nat
  /\ thread \in [Motors -> {"none", "starting", "reading", "selected", "waiting", "ended"}]
  /\ blocking \in BOOLEAN /\ former \subseteq SUBSET Motors /\ late \subseteq Motors
DriverTypes ==
  /\ SocketTypes
  /\ frames \in [Motors -> Versions]
  /\ pc \in {"call", "configure", "wait", "zero", "update", "drive", "collect", "collected",
              "reading", "selected", "hanging", "join", "exit"}
DeviceTypes ==
  \A m \in Motors :
    /\ device[m].output.val # NotFinite
    /\ \A i \in DOMAIN device[m].ram :
         device[m].ram[i].type \in {UINT, FLOAT, BOOL} /\ device[m].ram[i].val # NotFinite

LEMMA TypesAre ==
  ASSUME TypeOK
  PROVE  DriverTypes /\ DeviceTypes
BY DEF TypeOK, DriverTypes, SocketTypes, DeviceTypes

LEMMA TypesFollow ==
  ASSUME MotorInv', AnswersAreGiven', DriverTypes', DeviceTypes'
  PROVE  TypeOK'
<1>1. IsSequence(rx') /\ emitted' \in [Motors -> Versions]
      /\ status' \in [Motors -> [Periods -> [dev : Motors, n : Nat]]]
  BY DEF MotorInv, DriverInv, Shape
<1>2. \A i \in DOMAIN rx' : DeviceOf(rx'[i].id) \in Motors
  <2>1. DOMAIN rx' = 1 .. Len(rx')
    BY <1>1, SequenceFacts
  <2> QED  BY <2>1 DEF AnswersAreGiven, Underway
<1>3. \A m \in Motors, p \in Periods : status'[m][p].n \in Nat
  BY <1>1
<1>4. offset' \in [Motors -> Nat] /\ connected' \subseteq Motors
  BY DEF MotorInv, HeldIsOld
<1> QED  BY <1>1, <1>2, <1>3, <1>4 DEF TypeOK, DriverTypes, SocketTypes, DeviceTypes

\* The driver's calls, with the threads they wake, and a step that makes none.
LEMMA WakeTypes ==
  ASSUME SocketTypes, NEW W \in SUBSET Stranded, Wake(W), UNCHANGED <<soc, blocking, alive, faults>>
  PROVE  SocketTypes'
<1>1. W \subseteq Motors /\ former' \subseteq SUBSET Motors
  BY DEF SocketTypes, Stranded, Wake, Leave
<1> QED  BY <1>1 DEF SocketTypes, Wake

LEMMA SendsFacts ==
  ASSUME SocketTypes, NEW f, Sends(f)
  PROVE  SocketTypes' /\ UNCHANGED <<rx, answers>>
BY WakeTypes DEF Sends, sockets

LEMMA RequestFacts ==
  ASSUME SocketTypes, NEW id, Request(id)
  PROVE  SocketTypes' /\ UNCHANGED <<rx, device>> /\ answers' = Append(answers, Answer(id))
BY WakeTypes DEF Request, sockets

LEMMA ReplaceTypes ==
  ASSUME SocketTypes, Replace("open") \/ Replace("closed")
  PROVE  /\ soc' \in {"open", "closed"} /\ former' \subseteq SUBSET Motors /\ late' \subseteq Motors
         /\ rx' = <<>>
BY DEF SocketTypes, Replace, Waiting

LEMMA ReplaceFacts ==
  ASSUME SocketTypes, ConstructFails \/ \E m \in Motors : Construct(m) \/ Destroy(m)
  PROVE  SocketTypes' /\ rx' = <<>> /\ UNCHANGED <<answers, device>>
<1>1. /\ soc' \in {"open", "closed"} /\ former' \subseteq SUBSET Motors /\ late' \subseteq Motors
      /\ rx' = <<>>
  BY ReplaceTypes DEF ConstructFails, Construct, Destroy
<1>2. CASE ConstructFails
  BY <1>1, <1>2 DEF SocketTypes, ConstructFails
<1>3. ASSUME NEW m \in Motors, Construct(m)
      PROVE  SocketTypes' /\ UNCHANGED <<answers, device>>
  BY <1>1, <1>3 DEF SocketTypes, Construct
<1>4. ASSUME NEW m \in Motors, Destroy(m)
      PROVE  SocketTypes' /\ UNCHANGED <<answers, device>>
  BY <1>1, <1>4 DEF SocketTypes, Destroy
<1> QED  BY <1>1, <1>2, <1>3, <1>4 DEF ConstructFails

LEMMA FailsFacts ==
  ASSUME SocketTypes, SendFails \/ RequestFails \/ TakeNothing \/ UNCHANGED driver
  PROVE  SocketTypes' /\ UNCHANGED <<rx, answers, device>>
BY DEF SocketTypes, SendFails, RequestFails, TakeNothing, driver, sockets, threads

\* A step that does none of that either.
LEMMA QuietCall ==
  ASSUME CallsInv, Shape, MotorInv', DriverTypes', Moves, UNCHANGED <<log, answers, result>>,
         \A k \in Motors : device'[k] = device[k],
         rx' \in {rx, <<>>} \/ (rx # <<>> /\ rx' = Tail(rx)),
         pc' \in {"call", "wait", "zero", "join", "exit"},
         pc' = "wait" => calls' = calls /\ Call.op = "reset"
  PROVE  CallsInv'
<1>1. LogGrows /\ IsSequence(log)
  BY DEF LogGrows, CallsInv, LogShape
<1>2. connected \subseteq connected'
  BY ManagedShrinks
<1>3. AnswersAreGiven'
  BY <1>1, <1>2, UnderwayShrinks, AnswersStay DEF CallsInv
<1>4. GetsOwn'
  BY <1>1, GetsOwnStays DEF CallsInv
<1>5. DeviceTypes'
  BY TypesAre DEF CallsInv, DeviceTypes
<1> QED  BY <1>3, <1>4, <1>5, DevicesStay, Between, TypesFollow DEF CallsInv

----------------------------------------------------------------------------
(* The steps of the program that leave devices, answers and log alone      *)

LEMMA QuietBeginnings ==
  ASSUME CallsInv, Shape, MotorInv', New \/ InitializeAgain \/ BeginReset \/ SetMotorDutyCycle
  PROVE  CallsInv'
<1> USE ReplaceFacts, FailsFacts DEF Moves, Proceeds, Returns, Throws, Begins
<1>0. DriverTypes
  BY TypesAre DEF CallsInv
<1> SUFFICES /\ Moves /\ UNCHANGED <<device, log, answers, result>> /\ DriverTypes'
             /\ rx' \in {rx, <<>>} /\ pc' \in {"call", "wait", "zero", "join", "exit"}
             /\ pc' = "wait" => calls' = calls /\ Call.op = "reset"
  BY QuietCall
<1>1. CASE New
  <2>1. Call.motor \in Motors
    BY <1>1, FirstCall DEF New
  <2> QED  BY <1>0, <1>1, <2>1 DEF New, DriverTypes
<1>2. CASE InitializeAgain
  BY <1>0, <1>2 DEF InitializeAgain, DriverTypes
<1>3. CASE BeginReset
  BY <1>0, <1>3 DEF BeginReset, DriverTypes
<1>4. CASE SetMotorDutyCycle
  BY <1>0, <1>4 DEF SetMotorDutyCycle, DriverTypes
<1> QED  BY <1>1, <1>2, <1>3, <1>4

LEMMA QuietEnds ==
  ASSUME CallsInv, Shape, MotorInv',
         \/ WaitTimesOut \/ WaitThrows \/ ZeroPosition \/ UpdateThrows
         \/ DestroyMotor \/ Join \/ Exit
  PROVE  CallsInv'
<1> USE ReplaceFacts, FailsFacts DEF Moves, Proceeds, Returns, Throws, Shape
<1>0. DriverTypes /\ alive \subseteq Motors
  BY TypesAre DEF CallsInv, DriverTypes, SocketTypes
<1> SUFFICES /\ Moves /\ UNCHANGED <<device, log, answers, result>> /\ DriverTypes'
             /\ rx' \in {rx, <<>>} /\ pc' \in {"call", "wait", "zero", "join", "exit"}
             /\ pc' = "wait" => calls' = calls /\ Call.op = "reset"
  BY QuietCall
<1>1. CASE WaitTimesOut
  BY <1>0, <1>1 DEF WaitTimesOut, DriverTypes
<1>2. CASE WaitThrows
  BY <1>0, <1>2 DEF WaitThrows, DriverTypes
<1>3. CASE ZeroPosition
  BY <1>0, <1>3 DEF ZeroPosition, DriverTypes
<1>4. CASE UpdateThrows
  BY <1>0, <1>4 DEF UpdateThrows, DriverTypes
<1>5. CASE DestroyMotor
  BY <1>0, <1>5 DEF DestroyMotor, DriverTypes
<1>6. CASE Join
  BY <1>0, <1>6 DEF Join, DriverTypes
<1>7. CASE Exit
  BY <1>0, <1>7 DEF Exit, DriverTypes
<1> QED  BY <1>1, <1>2, <1>3, <1>4, <1>5, <1>6, <1>7

----------------------------------------------------------------------------
(* The first state                                                         *)

LEMMA CallsInitInv == Init => CallsInv
<1> SUFFICES ASSUME Init PROVE CallsInv
  OBVIOUS
<1> USE DEF Init, DriverInit
<1>1. PICK s \in Scenarios : calls = s.calls /\ frames = s.frames /\ faults = s.faults
  OBVIOUS
<1>2. MotorInv
  BY InitInv
<1>3. /\ Len(rx) = 0 /\ Len(answers) = 0 /\ Len(log) = 0 /\ IsSequence(log)
      /\ DOMAIN log = 1 .. Len(log)
  BY EmptyFacts, SequenceFacts
<1>4. \A m \in Motors : device[m] = [ram |-> <<>>, flash |-> <<>>, output |-> [cmd |-> "none", val |-> 0]]
  BY DEF Default, Off
<1>5. DOMAIN <<>> = {} /\ 0 # NotFinite
  BY DEF NotFinite
<1>6. DeviceShape /\ CallShape /\ LogShape
  BY <1>3, <1>4 DEF DeviceShape, CallShape, LogShape
<1>7. Apart
  <2>1. IsSequence(calls) /\ calls = s.calls
    BY <1>1, <1>2, SequenceOf DEF MotorInv, DriverInv, Shape
  <2>2. DOMAIN s.calls = 1 .. Len(calls)
    BY <2>1, SequenceFacts
  <2>3. Managed = {s.calls[i].motor : i \in {j \in 1 .. Len(calls) : s.calls[j].op = "init"}}
    BY <2>1 DEF Managed
  <2>4. \A i, j \in 1 .. Len(calls) :
          s.calls[i].op = "init" /\ s.calls[j].op \in DirectCalls =>
            s.calls[i].motor # s.calls[j].motor
    BY <2>2, ScenariosAssumption
  <2> QED  BY <1>3, <2>1, <2>3, <2>4 DEF Apart
<1>8. Configuring /\ Updating
  BY DEF Configuring, Updating
<1>9. Burnt
  BY <1>4 DEF Burnt
<1>10. SettersKeepApart
  BY <1>3 DEF SettersKeepApart
<1>11. RamIsGiven
  BY <1>4, <1>5 DEF RamIsGiven
<1>12. AnswersAreGiven
  BY <1>3 DEF AnswersAreGiven, Underway
<1>13. GetsOwn
  <2>1. result.name = "none"
    BY DEF NoResult
  <2> QED  BY <2>1 DEF GetsOwn, Asked
<1>14. TypeOK
  <2>1. DriverTypes
    <3>1. faults \in Nat /\ frames \in [Motors -> Versions]
      BY <1>1, ScenariosAssumption DEF Versions
    <3>2. blocking \in BOOLEAN
      OBVIOUS
    <3>3. SocketTypes
      BY <3>1, <3>2 DEF SocketTypes
    <3> QED  BY <3>1, <3>3 DEF DriverTypes
  <2>2. DeviceTypes
    BY <1>4, <1>5 DEF DeviceTypes
  <2>3. StatusIsOwn /\ connected \subseteq Motors /\ offset \in [Motors -> Nat]
    BY <1>2 DEF MotorInv, DriverInv, HeldIsOld
  <2> QED  BY <1>3, <2>1, <2>2, EmptyFacts, SequenceFacts
           DEF TypeOK, DriverTypes, SocketTypes, DeviceTypes, Versions
<1> QED  BY <1>6, <1>7, <1>8, <1>9, <1>10, <1>11, <1>12, <1>13, <1>14 DEF CallsInv

----------------------------------------------------------------------------
(* The steps of MotorController that write                                 *)

\* A step that writes to a motor of MotorController concerns no setter's
\* motor and no getter's.
LEMMA ManagedWrite ==
  ASSUME CallsInv, Shape, Moves, UNCHANGED <<log, answers, rx, result>>,
         NEW m \in connected, \A k \in Motors : k # m => device'[k] = device[k]
  PROVE  LogShape' /\ Apart' /\ SettersKeepApart' /\ RamIsGiven' /\ AnswersAreGiven' /\ GetsOwn'
<1> USE DEF CallsInv
<1>1. Managed' \subseteq Managed /\ connected \subseteq connected' /\ m \in Managed
  BY ManagedShrinks DEF Managed
<1>2. LogGrows /\ IsSequence(log) /\ DOMAIN log = 1 .. Len(log)
  BY SequenceFacts DEF LogGrows, LogShape
<1>3. LogShape'
  BY DEF LogShape
<1>4. Apart'
  BY <1>2, ApartStays
<1>5. SettersKeepApart'
  <2>1. \A i \in DOMAIN log : device'[log[i].motor] = device[log[i].motor]
    BY <1>1, <1>2 DEF Apart
  <2> QED  BY <2>1 DEF SettersKeepApart, Undoes
<1>6. RamIsGiven'
  <2>1. Written' = Written
    BY DEF Written
  <2>2. ASSUME NEW k \in Motors \ connected' PROVE k \in Motors \ connected /\ device'[k] = device[k]
    BY <1>1
  <2> QED  BY <2>1, <2>2 DEF RamIsGiven
<1>7. AnswersAreGiven'
  <2>1. Underway' = Underway
    BY DEF Underway
  <2> QED  BY <1>1, <1>2, <2>1, AnswersStay
<1>8. GetsOwn'
  BY <1>2, GetsOwnStays
<1> QED  BY <1>3, <1>4, <1>5, <1>6, <1>7, <1>8

\* WaitForFeedback's heartbeats leave everything as it is.
LEMMA WaitForFeedbackCalls ==
  ASSUME CallsInv, Shape, MotorInv', WaitForFeedback
  PROVE  CallsInv'
<1>1. calls # <<>> /\ Call.op = "reset" /\ DriverTypes
  BY TypesAre DEF WaitForFeedback, Shape, CallsInv, CallShape
<1>2. Call.motor \in Motors
  BY <1>1, FirstCall
<1>3. \A k \in Motors : device'[k] = device[k]
  <2>1. DeviceShape /\ "Heartbeat" \in Commands
    BY DEF CallsInv, Commands, PlainCommands
  <2>2. /\ DeviceShape' /\ \A k \in Motors : k # Call.motor => device'[k] = device[k]
        /\ device'[Call.motor].ram = device[Call.motor].ram
        /\ device'[Call.motor].flash = device[Call.motor].flash
        /\ device'[Call.motor].output = device[Call.motor].output
    <3>1. Sends(CommandFrame(Call.motor, "Heartbeat", 0))
      BY DEF WaitForFeedback
    <3> QED  BY <1>2, <2>1, <3>1, SendsCommand, ZenonT(60) DEF ControlCommands, Obeys
  <2>3. device'[Call.motor] = device[Call.motor]
    <3> DEFINE d == device[Call.motor]
    <3>1. d = [ram |-> d.ram, flash |-> d.flash, output |-> d.output]
      BY <1>2, <2>1 DEF DeviceShape
    <3>2. device'[Call.motor] = [ram |-> d.ram, flash |-> d.flash, output |-> d.output]
      BY <1>2, <2>2, Zenon DEF DeviceShape
    <3> QED  BY <3>1, <3>2
  <2> QED  BY <2>2, <2>3
<1>4. /\ Moves /\ UNCHANGED <<log, answers, result, rx, calls>> /\ pc' \in {"wait", "zero"}
      /\ DriverTypes'
  BY <1>1, SendsFacts DEF WaitForFeedback, Moves, Proceeds, DriverTypes
<1> QED  BY <1>1, <1>3, <1>4, QuietCall

\* The nine parameters of MotorConfig: setters without slots, each its own
\* parameter, and no value that is not one.
LEMMA ConfigNames ==
  ASSUME NEW i \in 1 .. 9
  PROVE  /\ MotorConfig[i][1] \in SetterNames /\ MotorConfig[i][1] \in DOMAIN ParameterId
         /\ MotorConfig[i][2] \in Nat
         /\ \A j \in 1 .. 9 : MotorConfig[j][1] = MotorConfig[i][1] => j = i
<1>1. MotorConfig[i][1] \in {"IdleMode", "MotorType", "SensorType", "RampRate", "Inverted",
                             "MotorKv", "EncoderCountsPerRev", "SmartCurrentFreeLimit",
                             "SmartCurrentStallLimit"}
  BY SMTT(30) DEF MotorConfig
<1>2. MotorConfig[i][1] \in SetterNames
  <2> DEFINE R(n, type, range) == [name |-> n, type |-> type, range |-> range]
  <2>1. \A n, type, range : R(n, type, range) \in Setters => n \in SetterNames
    <3>1. \A n, type, range : R(n, type, range).name = n
      OBVIOUS
    <3> QED  BY <3>1 DEF SetterNames
  <2>2. /\ R("IdleMode", "u8", <<0, 1>>) \in Setters /\ R("MotorType", "u8", <<0, 1>>) \in Setters
        /\ R("SensorType", "u8", <<0, 2>>) \in Setters
    BY DEF Setters, BasicSetters, Ranged
  <2>3. \A type, N : \A n \in N : R(n, type, Unbounded) \in Plain(type, N)
    BY DEF Plain
  <2>4. /\ Plain("bool", {"Inverted", "PositionPIDWrapEnable"}) \subseteq Setters
        /\ Plain("float", {"InputDeadband", "RampRate", "CompensatedNominalVoltage",
                           "PositionPIDMinInput", "PositionPIDMaxInput"}) \subseteq Setters
        /\ Plain("u16", {"MotorKv", "MotorR", "MotorL", "FeedbackSensorPID0", "PolePairs",
                         "CurrentChopCycles", "SmartCurrentStallLimit",
                         "SmartCurrentFreeLimit", "SmartCurrentConfig"}) \subseteq Setters
        /\ Plain("u16", {"EncoderCountsPerRev", "HallSensorAverageDepth"}) \subseteq Setters
    BY ZenonT(60) DEF Setters, BasicSetters, EncoderSetters
  <2> HIDE DEF R
  <2>5. /\ R("Inverted", "bool", Unbounded) \in Setters /\ R("RampRate", "float", Unbounded) \in Setters
        /\ R("MotorKv", "u16", Unbounded) \in Setters
        /\ R("SmartCurrentFreeLimit", "u16", Unbounded) \in Setters
        /\ R("SmartCurrentStallLimit", "u16", Unbounded) \in Setters
        /\ R("EncoderCountsPerRev", "u16", Unbounded) \in Setters
    BY <2>3, <2>4
  <2> QED  BY <1>1, <2>1, <2>2, <2>5
<1>3. MotorConfig[i][1] \in DOMAIN ParameterId
  BY <1>1, SMTT(30) DEF ParameterId
<1>4. MotorConfig[i][2] \in Nat
  BY SMTT(30) DEF MotorConfig
<1>5. \A j \in 1 .. 9 : MotorConfig[j][1] = MotorConfig[i][1] => j = i
  BY SMTT(30) DEF MotorConfig
<1> QED  BY <1>2, <1>3, <1>4, <1>5

LEMMA ConfigIds ==
  ASSUME NEW i \in 1 .. 9
  PROVE  /\ SetterId(MotorConfig[i][1], 0) \in 1 .. 154
         /\ \A j \in 1 .. 9 :
              SetterId(MotorConfig[j][1], 0) = SetterId(MotorConfig[i][1], 0) => j = i
<1>1. \A j \in 1 .. 9 : /\ MotorConfig[j][1] \in SetterNames
                        /\ ValidSlot(MotorConfig[j][1], 0) /\ 0 \in Nat
  BY ConfigNames, PlainNumbers DEF ValidSlot
<1>2. SetterId(MotorConfig[i][1], 0) \in 1 .. 154
  BY <1>1, SetterIdRange
<1>3. \A j \in 1 .. 9 :
        SetterId(MotorConfig[j][1], 0) = SetterId(MotorConfig[i][1], 0) => j = i
  <2> TAKE j \in 1 .. 9
  <2>1. SetterId(MotorConfig[j][1], 0) = SetterId(MotorConfig[i][1], 0) =>
          MotorConfig[j][1] = MotorConfig[i][1]
    BY <1>1, SetterIdInjective
  <2> QED  BY <2>1, ConfigNames
<1> QED  BY <1>2, <1>3

\* The frames InitializeMotor sends.
LEMMA ConfigFacts ==
  ASSUME NEW m
  PROVE  /\ IsSequence(ConfigFrames(m)) /\ Len(ConfigFrames(m)) = 10
         /\ \A i \in 1 .. 9 :
              ConfigFrames(m)[i] = ParamFrame(m, MotorConfig[i][1], 0, MotorConfig[i][2])
         /\ ConfigFrames(m)[10] = CommandFrame(m, "BurnFlash", 0)
<1> DEFINE s == [i \in 1 .. 9 |-> ParamFrame(m, MotorConfig[i][1], 0, MotorConfig[i][2])]
           b == CommandFrame(m, "BurnFlash", 0)
           u == <<b>>
           T == {s[i] : i \in 1 .. 9} \cup {b}
<1>1. ConfigFrames(m) = s \o u
  BY DEF ConfigFrames
<1>2. \A i \in 1 .. 9 : s[i] = ParamFrame(m, MotorConfig[i][1], 0, MotorConfig[i][2])
  OBVIOUS
<1>3. s \in [1 .. 9 -> T] /\ b \in T
  OBVIOUS
<1> HIDE DEF s, T
<1>4. s \in Seq(T)
  BY <1>3, SeqDef
<1>5. Len(s) = 9
  BY <1>3, <1>4, LenProperties
<1>6. u \in Seq(T) /\ Len(u) = 1 /\ u[1] = b
  BY <1>3
<1> HIDE DEF u, b
<1>7. /\ s \o u \in Seq(T) /\ Len(s \o u) = 10
      /\ \A i \in 1 .. 10 : (s \o u)[i] = IF i <= 9 THEN s[i] ELSE u[i - 9]
  <2>1. /\ s \o u \in Seq(T) /\ Len(s \o u) = Len(s) + Len(u)
        /\ \A i \in 1 .. Len(s) + Len(u) :
             (s \o u)[i] = IF i <= Len(s) THEN s[i] ELSE u[i - Len(s)]
    BY <1>4, <1>6, ConcatProperties
  <2>2. Len(s) + Len(u) = 10
    BY <1>5, <1>6
  <2> QED  BY <1>5, <2>1, <2>2
<1>8. IsSequence(s \o u)
  BY <1>7, SequenceOf
<1>9. (s \o u)[10] = b /\ \A i \in 1 .. 9 : (s \o u)[i] = s[i]
  BY <1>6, <1>7, SMTT(30)
<1> QED  BY <1>1, <1>2, <1>7, <1>8, <1>9 DEF b

\* InitializeMotor begins.
LEMMA EmplaceCalls ==
  ASSUME CallsInv, Shape, MotorInv', Emplace
  PROVE  CallsInv'
<1> USE DEF Begins
<1>1. calls # <<>> /\ Call.op = "init" /\ Call.motor \in Motors /\ DriverTypes
  <2>1. calls # <<>> /\ Call.op = "init"
    BY DEF Emplace
  <2> QED  BY <2>1, FirstCall, TypesAre DEF CallsInv
<1>2. /\ Moves /\ UNCHANGED <<log, answers, result, device>> /\ rx' = <<>> /\ DriverTypes'
  BY <1>1, ReplaceFacts DEF Emplace, Moves, Proceeds, Throws, DriverTypes
<1>3. CASE pc' = "call"
  BY <1>2, <1>3, QuietCall
<1>4. CASE pc' = "configure"
  <2>1. /\ connected' = connected \cup {Call.motor} /\ queue' = ConfigFrames(Call.motor)
        /\ calls' = calls
    BY <1>4 DEF Emplace, Throws
  <2>2. CallShape' /\ Updating'
    BY <1>1, <1>4, <2>1 DEF CallShape, Updating, Call
  <2>3. Configuring'
    <3>1. /\ IsSequence(queue') /\ Len(queue') = 10 /\ Call' = Call
          /\ \A i \in 1 .. 10 : queue'[i] = ConfigFrames(Call.motor)[10 - 10 + i]
          /\ \A i \in 1 .. 9 : ~(i + 10 <= 10)
      BY <2>1, ConfigFacts DEF Call
    <3> QED  BY <3>1 DEF Configuring
  <2>4. DeviceShape' /\ LogShape' /\ Apart' /\ Burnt' /\ SettersKeepApart' /\ RamIsGiven'
    BY <1>2, DevicesStay
  <2>5. LogGrows /\ IsSequence(log) /\ connected \subseteq connected'
    BY <1>2, <2>1 DEF LogGrows, CallsInv, LogShape
  <2>6. AnswersAreGiven' /\ GetsOwn'
    BY <1>2, <2>5, UnderwayShrinks, AnswersStay, GetsOwnStays DEF CallsInv
  <2>7. DeviceTypes'
    BY <1>2, TypesAre DEF CallsInv, DeviceTypes
  <2> QED  BY <1>2, <2>2, <2>3, <2>4, <2>6, <2>7, TypesFollow DEF CallsInv
<1> QED  BY <1>3, <1>4 DEF Emplace, Throws

\* A setter's write leaves a SPARK of the right types.
LEMMA WireTypes == \A type : WireType(type) \in {UINT, FLOAT, BOOL}
BY DEF WireType

\* How many of the ten frames are left, and which one is next.
LEMMA FramesLeft ==
  ASSUME NEW n \in 1 .. 10
  PROVE  /\ n \in Nat
         /\ n # 1 => n > 1
         /\ n > 1 => n - 1 \in 1 .. 10 /\ 11 - n \in 1 .. 9 /\ 1 \in 1 .. n /\ 10 - n + 1 = 11 - n
OBVIOUS

\* InitializeMotor writes a parameter, with more to come ...
LEMMA ConfigureParam ==
  ASSUME CallsInv, Shape, MotorInv', pc = "configure", Len(queue) > 1,
         Sends(Head(queue)), queue' = Tail(queue), UNCHANGED <<pc, calls>>,
         UNCHANGED <<frames, connected, desired, offset, feedback, data, log, result>>
  PROVE  CallsInv'
<1> DEFINE m == Call.motor
           n == Len(queue)
           j == 11 - n
           p == SetterId(MotorConfig[j][1], 0)
           v == MotorConfig[j][2]
<1>0. Configuring
  BY DEF CallsInv
<1>a. n \in 1 .. 10 /\ n > 1
  BY <1>0 DEF Configuring
<1>1. /\ calls # <<>> /\ Call.op = "init" /\ m \in connected /\ m \in Motors
      /\ IsSequence(queue)
      /\ \A i \in 1 .. n : queue[i] = ConfigFrames(m)[10 - n + i]
      /\ \A i \in 1 .. 9 : i + n <= 10 =>
           Stored(device[m].ram, SetterId(MotorConfig[i][1], 0)).val = MotorConfig[i][2]
  <2>1. calls # <<>> /\ Call.op = "init" /\ m \in connected
    BY DEF Shape, CallsInv, CallShape
  <2> QED  BY <1>0, <2>1, FirstCall DEF Configuring
<1>2. j \in 1 .. 9 /\ p \in 1 .. 154 /\ v \in Nat
  <2>1. j \in 1 .. 9
    BY <1>a, FramesLeft
  <2> HIDE DEF j
  <2> QED  BY <2>1, ConfigIds, ConfigNames
<1>3. /\ IsSequence(queue') /\ Len(queue') = n - 1 /\ Head(queue) = queue[1]
      /\ \A i \in 1 .. n - 1 : queue'[i] = queue[i + 1]
  <2>1. queue # <<>>
    BY <1>1, EmptyFacts
  <2> QED  BY <1>1, <2>1, TailFacts
<1>4. Head(queue) = ParamFrame(m, MotorConfig[j][1], 0, v)
  <2>1. queue[1] = ConfigFrames(m)[j]
    <3>1. 1 \in 1 .. n /\ 10 - n + 1 = j
      BY <1>a, FramesLeft
    <3> QED  BY <1>1, <3>1
  <2> HIDE DEF j
  <2>2. ConfigFrames(m)[j] = ParamFrame(m, MotorConfig[j][1], 0, v)
    BY <1>2, ConfigFacts
  <2> QED  BY <1>3, <2>1, <2>2
<1>5. Call' = Call
  BY DEF Call
<1> HIDE DEF m, n, v
<1>6. /\ DeviceShape'
      /\ SetsParam(m, p, [type |-> WireType(SetterOf(MotorConfig[j][1]).type), val |-> v])
  <2>1. DeviceShape /\ Sends(ParamFrame(m, MotorConfig[j][1], 0, v))
    BY <1>4 DEF CallsInv
  <2>2. SetterId(MotorConfig[j][1], 0) \in 1 .. 154
    BY <1>2
  <2> HIDE DEF j
  <2> QED  BY <1>1, <2>1, <2>2, SendsParam
<1>7. /\ Moves /\ UNCHANGED <<log, answers, rx, result>> /\ DriverTypes'
  <2>1. DriverTypes
    BY TypesAre DEF CallsInv
  <2> QED  BY <2>1, SendsFacts DEF Moves, Proceeds, DriverTypes, Shape
<1>8. LogShape' /\ Apart' /\ SettersKeepApart' /\ RamIsGiven' /\ AnswersAreGiven' /\ GetsOwn'
  BY <1>1, <1>6, <1>7, ManagedWrite DEF SetsParam
<1>9. CallShape' /\ Updating'
  BY <1>1, <1>5 DEF CallShape, Updating, m
<1>10. Configuring'
  <2>1. \A i \in 1 .. n - 1 : queue'[i] = ConfigFrames(m)[10 - (n - 1) + i]
    <3> TAKE i \in 1 .. n - 1
    <3>1. i + 1 \in 1 .. n /\ 10 - n + (i + 1) = 10 - (n - 1) + i
      BY <1>a
    <3> QED  BY <1>1, <1>3, <3>1
  <2>2. ASSUME NEW i \in 1 .. 9, i + (n - 1) <= 10
        PROVE  Stored(device'[m].ram, SetterId(MotorConfig[i][1], 0)).val = MotorConfig[i][2]
    <3>1. CASE i = j
      BY <1>6, <3>1 DEF v, SetsParam
    <3>2. CASE i # j
      <4>1. i + n <= 10
        BY <1>a, <2>2, <3>2
      <4>2. SetterId(MotorConfig[i][1], 0) # p
        BY <1>2, <3>2, ConfigIds
      <4> QED  BY <1>1, <1>6, <4>1, <4>2, SMTT(30) DEF SetsParam
    <3> QED  BY <3>1, <3>2
  <2>3. n - 1 \in 1 .. 10
    BY <1>a, FramesLeft
  <2> QED  BY <1>3, <1>5, <2>1, <2>2, <2>3 DEF Configuring, m
<1>11. Burnt'
  <2>1. \A k \in Motors : device'[k].flash = device[k].flash
    BY <1>6 DEF SetsParam
  <2>2. Managed' \subseteq Managed
    BY <1>7, ManagedShrinks
  <2> QED  BY <2>1, <2>2 DEF Burnt, Whole, CallsInv
<1>12. DeviceTypes'
  <2>1. DeviceTypes
    BY TypesAre DEF CallsInv
  <2>2. v # NotFinite
    BY <1>2 DEF NotFinite
  <2>3. \A i \in DOMAIN device'[m].ram :
          device'[m].ram[i].type \in {UINT, FLOAT, BOOL} /\ device'[m].ram[i].val # NotFinite
    BY <1>1, <1>6, <2>1, <2>2, WireTypes DEF DeviceTypes, SetsParam
  <2> QED  BY <1>6, <2>1, <2>3 DEF DeviceTypes, SetsParam
<1> QED  BY <1>6, <1>7, <1>8, <1>9, <1>10, <1>11, <1>12, TypesFollow DEF CallsInv

\* ... and burns what it wrote.
LEMMA ConfigureBurns ==
  ASSUME CallsInv, Shape, MotorInv', pc = "configure", Len(queue) = 1,
         Sends(Head(queue)), Returns,
         UNCHANGED <<frames, connected, desired, offset, feedback, data, log, result>>
  PROVE  CallsInv'
<1> DEFINE m == Call.motor
<1>1. /\ calls # <<>> /\ m \in connected /\ m \in Motors
      /\ IsSequence(queue) /\ queue[1] = ConfigFrames(m)[10]
      /\ \A i \in 1 .. 9 :
           Stored(device[m].ram, SetterId(MotorConfig[i][1], 0)).val = MotorConfig[i][2]
  <2>1. calls # <<>> /\ Call.op = "init" /\ m \in connected
    BY DEF Shape, CallsInv, CallShape
  <2> QED  BY <2>1, FirstCall DEF CallsInv, Configuring
<1>2. Head(queue) = CommandFrame(m, "BurnFlash", 0)
  <2>1. queue # <<>>
    BY EmptyFacts
  <2> QED  BY <1>1, <2>1, TailFacts, ConfigFacts
<1> HIDE DEF m
<1>3. /\ DeviceShape'
      /\ \A k \in Motors : k # m => device'[k] = device[k]
      /\ device'[m].flash = <<device[m].ram>> /\ device'[m].ram = device[m].ram
      /\ device'[m].output = device[m].output
  <2>1. DeviceShape /\ Sends(CommandFrame(m, "BurnFlash", 0)) /\ "BurnFlash" \in Commands
    BY <1>2 DEF CallsInv, Commands, PlainCommands
  <2> QED  BY <1>1, <2>1, SendsCommand, ZenonT(60) DEF ControlCommands, Obeys
<1>4. Moves /\ UNCHANGED <<log, answers, rx, result>> /\ DriverTypes' /\ pc' = "call"
  <2>1. DriverTypes
    BY TypesAre DEF CallsInv
  <2> QED  BY <1>1, <2>1, SendsFacts DEF Returns, Moves, Proceeds, DriverTypes
<1>5. LogShape' /\ Apart' /\ SettersKeepApart' /\ RamIsGiven' /\ AnswersAreGiven' /\ GetsOwn'
  BY <1>1, <1>3, <1>4, ManagedWrite
<1>6. CallShape' /\ Configuring' /\ Updating'
  BY <1>4, Between
<1>7. Burnt'
  <2>1. Managed' \subseteq Managed
    BY <1>4, ManagedShrinks
  <2>2. device'[m].flash[1] = device[m].ram
    BY <1>3
  <2>3. ASSUME NEW k \in Motors, k \in Managed', device'[k].flash # <<>>
        PROVE  Whole(k)'
    <3>1. CASE k = m
      BY <1>1, <2>2, <3>1 DEF Whole
    <3>2. CASE k # m
      BY <1>3, <2>1, <2>3, <3>2 DEF Burnt, Whole, CallsInv
    <3> QED  BY <3>1, <3>2
  <2> QED  BY <2>3 DEF Burnt
<1>8. DeviceTypes'
  <2>1. DeviceTypes
    BY TypesAre DEF CallsInv
  <2>2. \A k \in Motors : device'[k].ram = device[k].ram /\ device'[k].output = device[k].output
    BY <1>3
  <2> QED  BY <2>1, <2>2 DEF DeviceTypes
<1> QED  BY <1>3, <1>4, <1>5, <1>6, <1>7, <1>8, TypesFollow DEF CallsInv

LEMMA ConfigureCalls ==
  ASSUME CallsInv, Shape, MotorInv', Configure
  PROVE  CallsInv'
<1>1. /\ pc = "configure" /\ calls # <<>> /\ IsSequence(queue) /\ Len(queue) \in 1 .. 10
      /\ UNCHANGED <<frames, connected, desired, offset, feedback, data, log, result>>
      /\ DriverTypes
  BY TypesAre DEF Configure, Shape, CallsInv, Configuring
<1>2. CASE Sends(Head(queue)) /\ queue' = Tail(queue) /\ IF queue' = <<>> THEN Returns ELSE UNCHANGED <<pc, calls>>
  <2>1. IsSequence(queue') /\ Len(queue') = Len(queue) - 1
    BY <1>1, <1>2, TailFacts, EmptyFacts
  <2>2. queue' = <<>> <=> Len(queue) = 1
    <3>1. queue' = <<>> <=> Len(queue') = 0
      BY <2>1, SequenceFacts, EmptyFacts
    <3>2. Len(queue) \in Nat
      BY <1>1, SequenceFacts
    <3> QED  BY <2>1, <3>1, <3>2
  <2>3. CASE Len(queue) = 1
    BY <1>1, <1>2, <2>2, <2>3, ConfigureBurns
  <2>4. CASE Len(queue) # 1
    <3>1. Len(queue) > 1
      BY <1>1, <2>4, FramesLeft
    <3> QED  BY <1>1, <1>2, <2>2, <2>4, <3>1, ConfigureParam
  <2> QED  BY <2>3, <2>4
<1>3. CASE SendFails /\ Throws
  <2>1. Moves /\ UNCHANGED <<log, answers, result, device, rx>> /\ DriverTypes' /\ pc' = "call"
    BY <1>1, <1>3, FailsFacts DEF Throws, Moves, Proceeds, DriverTypes
  <2> QED  BY <2>1, QuietCall
<1> QED  BY <1>2, <1>3 DEF Configure

----------------------------------------------------------------------------
(* Update                                                                  *)

\* Every finite set of ids has an increasing enumeration.
LEMMA Enumeration ==
  ASSUME NEW S, S \subseteq 0 .. 62
  PROVE  /\ Cardinality(S) \in Nat /\ IsFiniteSet(S)
         /\ \E s \in [1 .. Cardinality(S) -> S] :
              \A i, j \in 1 .. Cardinality(S) : i < j => s[i] < s[j]
<1> DEFINE n == Cardinality(S)
           below(x) == {y \in S : y <= x}
           f == [x \in S |-> Cardinality(below(x))]
<1>0. \A x \in S : x \in Int
  OBVIOUS
<1>1. IsFiniteSet(S) /\ n \in Nat
  <2>1. IsFiniteSet(0 .. 62)
    <3>1. \A a, b \in Int : IsFiniteSet(a .. b)
      BY FS_Interval
    <3>2. 0 \in Int /\ 62 \in Int
      OBVIOUS
    <3> QED  BY <3>1, <3>2, Zenon
  <2>2. IsFiniteSet(S)
    BY <2>1, FS_Subset
  <2> QED  BY <2>2, FS_CardinalityType
<1>2. \A x \in S : IsFiniteSet(below(x)) /\ Cardinality(below(x)) \in 1 .. n
  <2> TAKE x \in S
  <2>1. below(x) \in SUBSET S /\ x \in below(x)
    OBVIOUS
  <2> HIDE DEF below
  <2>2. /\ IsFiniteSet(below(x)) /\ Cardinality(below(x)) \in Nat
        /\ Cardinality(below(x)) <= n /\ Cardinality(below(x)) # 0
    BY <1>1, <2>1, FS_Subset, FS_CardinalityType, FS_EmptySet
  <2> QED  BY <1>1, <2>2
<1>3. \A x, y \in S : x < y => f[x] < f[y]
  <2> SUFFICES ASSUME NEW x \in S, NEW y \in S, x < y
               PROVE  Cardinality(below(x)) < Cardinality(below(y))
    OBVIOUS
  <2>1. below(x) \in SUBSET below(y) /\ below(x) # below(y)
    <3>1. y \in below(y) /\ y \notin below(x)
      BY <1>0
    <3>2. \A z \in S : z <= x => z <= y
      BY <1>0
    <3> QED  BY <3>1, <3>2
  <2> HIDE DEF below
  <2>2. /\ Cardinality(below(x)) <= Cardinality(below(y))
        /\ Cardinality(below(x)) # Cardinality(below(y))
    BY <1>2, <2>1, FS_Subset
  <2> QED  BY <1>2, <2>2
<1>4. f \in Surjection(S, 1 .. n)
  <2>1. f \in [S -> 1 .. n]
    BY <1>2
  <2> HIDE DEF f
  <2>2. \A x, y \in S : f[x] = f[y] => x = y
    <3> SUFFICES ASSUME NEW x \in S, NEW y \in S, x # y PROVE f[x] # f[y]
      OBVIOUS
    <3>1. x < y \/ y < x
      BY <1>0
    <3>2. f[x] \in Int /\ f[y] \in Int
      BY <2>1
    <3>3. f[x] < f[y] \/ f[y] < f[x]
      BY <1>3, <3>1
    <3> QED  BY <3>2, <3>3
  <2>3. f \in Injection(S, 1 .. n)
    BY <2>1, <2>2 DEF Injection, IsInjective
  <2>4. IsFiniteSet(1 .. n) /\ Cardinality(1 .. n) = n
    BY <1>1, FS_Interval
  <2> QED  BY <2>3, <2>4, FS_Injection
<1> HIDE DEF f
<1>5. \A i \in 1 .. n : \E x \in S : f[x] = i
  BY <1>4 DEF Surjection
<1> DEFINE s == [i \in 1 .. n |-> CHOOSE x \in S : f[x] = i]
<1>6. s \in [1 .. n -> S] /\ \A i \in 1 .. n : f[s[i]] = i
  BY <1>5
<1> HIDE DEF s
<1>7. \A i, j \in 1 .. n : i < j => s[i] < s[j]
  <2> SUFFICES ASSUME NEW i \in 1 .. n, NEW j \in 1 .. n, i < j PROVE s[i] < s[j]
    OBVIOUS
  <2>1. s[i] \in S /\ s[j] \in S /\ f[s[i]] < f[s[j]]
    BY <1>6
  <2>2. s[i] # s[j] /\ ~(s[j] < s[i])
    <3>1. \A k \in Nat : ~(k < k)
      OBVIOUS
    <3>2. f[s[i]] = i /\ f[s[j]] = j
      BY <1>6
    <3>3. s[j] < s[i] => j < i
      BY <1>3, <2>1, <3>2
    <3> QED  BY <2>1, <3>2, <3>3
  <2>3. s[i] \in Int /\ s[j] \in Int
    BY <1>0, <2>1
  <2>4. \A x, y \in Int : x # y /\ ~(y < x) => x < y
    OBVIOUS
  <2> QED  BY <2>2, <2>3, <2>4, Zenon
<1> QED  BY <1>1, <1>6, <1>7

LEMMA InOrderFacts ==
  ASSUME NEW S, S \subseteq 0 .. 62
  PROVE  /\ IsSequence(InOrder(S))
         /\ \A i \in 1 .. Len(InOrder(S)) : InOrder(S)[i] \in S
         /\ \A x \in S : \E i \in 1 .. Len(InOrder(S)) : InOrder(S)[i] = x
<1> DEFINE n == Cardinality(S)
           s == InOrder(S)
<1>1. n \in Nat /\ IsFiniteSet(S)
  BY Enumeration
<1>2. s \in [1 .. n -> S] /\ \A i, j \in 1 .. n : i < j => s[i] < s[j]
  <2>1. s = CHOOSE t \in [1 .. n -> S] : \A i, j \in DOMAIN t : i < j => t[i] < t[j]
    BY DEF InOrder
  <2>2. \E t \in [1 .. n -> S] : \A i, j \in DOMAIN t : i < j => t[i] < t[j]
    BY Enumeration
  <2>3. s \in [1 .. n -> S] /\ \A i, j \in DOMAIN s : i < j => s[i] < s[j]
    BY <2>1, <2>2
  <2> QED  BY <2>3
<1> HIDE DEF s
<1>3. s \in Seq(S)
  BY <1>1, <1>2, SeqDef
<1>4. IsSequence(s) /\ Len(s) = n
  BY <1>1, <1>2, <1>3, SequenceOf, LenProperties
<1>5. s \in Surjection(1 .. n, S)
  <2>1. \A i, j \in 1 .. n : s[i] = s[j] => i = j
    <3> SUFFICES ASSUME NEW i \in 1 .. n, NEW j \in 1 .. n, s[i] = s[j] PROVE i = j
      OBVIOUS
    <3>1. s[i] \in Int
      <4>1. s[i] \in S
        BY <1>2
      <4>2. \A x \in S : x \in Int
        OBVIOUS
      <4> QED  BY <4>1, <4>2, Zenon
    <3>2. ~(s[i] < s[i])
      BY <3>1
    <3> QED  BY <1>2, <3>2
  <2>2. s \in Injection(1 .. n, S)
    BY <1>2, <2>1 DEF Injection, IsInjective
  <2>3. Cardinality(1 .. n) = n
    BY <1>1, FS_Interval
  <2> QED  BY <1>1, <2>2, <2>3, FS_Injection
<1>6. \A x \in S : \E i \in 1 .. n : s[i] = x
  BY <1>5 DEF Surjection
<1> QED  BY <1>2, <1>4, <1>6 DEF s

\* A step of Update that writes nothing.
LEMMA UpdateReads ==
  ASSUME CallsInv, Shape, MotorInv', DriverTypes', Moves, Updating',
         UNCHANGED <<log, answers, rx, result, connected>>,
         \A k \in Motors : device'[k] = device[k],
         pc' \in {"call", "update", "drive", "collect", "collected"}
  PROVE  CallsInv'
<1>1. DeviceShape' /\ LogShape' /\ Apart' /\ Burnt' /\ SettersKeepApart' /\ RamIsGiven'
  BY DevicesStay
<1>2. CallShape' /\ Configuring'
  BY DEF CallShape, Configuring
<1>3. LogGrows /\ IsSequence(log) /\ Underway' = Underway
  BY DEF LogGrows, CallsInv, LogShape, Underway
<1>4. AnswersAreGiven' /\ GetsOwn'
  BY <1>3, AnswersStay, GetsOwnStays DEF CallsInv
<1>5. DeviceTypes'
  BY TypesAre DEF CallsInv, DeviceTypes
<1> QED  BY <1>1, <1>2, <1>4, <1>5, TypesFollow DEF CallsInv

LEMMA BeginUpdateCalls ==
  ASSUME CallsInv, Shape, MotorInv, MotorInv', BeginUpdate
  PROVE  CallsInv'
<1>1. /\ pc = "call" /\ calls # <<>> /\ queue' = InOrder(connected) /\ NextMotor(queue')
      /\ UNCHANGED <<driver, frames, connected, desired, offset, feedback, data, log, result>>
      /\ DriverTypes
  BY TypesAre DEF BeginUpdate, Begins, CallsInv
<1>2. /\ DriverTypes' /\ Moves /\ UNCHANGED <<log, answers, rx, result, connected, device>>
      /\ pc' \in {"call", "update"}
  BY <1>1, FailsFacts DEF NextMotor, Moves, Proceeds, DriverTypes
<1>3. Updating'
  <2>1. connected \subseteq 0 .. 62
    BY SparkBaseAssumption DEF MotorInv
  <2>2. /\ IsSequence(queue') /\ \A i \in 1 .. Len(queue') : queue'[i] \in connected
        /\ \A m \in connected : \E i \in 1 .. Len(queue') : queue'[i] = m
    BY <1>1, <2>1, InOrderFacts
  <2>3. pc' # "call" => queue' # <<>> /\ pc' = "update"
    BY <1>1 DEF NextMotor
  <2>4. pc' # "call" => Len(queue') > 0
    BY <2>2, <2>3, SequenceFacts
  <2> QED  BY <1>1, <1>2, <2>2, <2>3, <2>4 DEF Updating
<1> QED  BY <1>2, <1>3, UpdateReads

\* What Update knows of the motor it is at.
LEMMA NextOne ==
  ASSUME CallsInv, MotorInv, pc \in {"update", "drive", "collect", "collected"}
  PROVE  /\ IsSequence(queue) /\ queue # <<>> /\ Len(queue) > 0 /\ calls # <<>>
         /\ Head(queue) = queue[1] /\ 1 \in 1 .. Len(queue)
         /\ Head(queue) \in connected /\ Head(queue) \in Motors
<1>1. IsSequence(queue) /\ Len(queue) > 0 /\ \A i \in 1 .. Len(queue) : queue[i] \in connected
  BY DEF CallsInv, Updating
<1>2. queue # <<>>
  BY <1>1, EmptyFacts
<1>3. Head(queue) = queue[1] /\ 1 \in 1 .. Len(queue)
  BY <1>1, <1>2, TailFacts
<1>4. calls # <<>>
  BY DEF MotorInv, DriverInv, Shape
<1> QED  BY <1>1, <1>2, <1>3, <1>4 DEF MotorInv

\* The heartbeat ...
LEMMA UpdateBeatsCalls ==
  ASSUME CallsInv, Shape, MotorInv, MotorInv', UpdateSends, pc = "update"
  PROVE  CallsInv'
<1>1. /\ Sends(CommandFrame(Head(queue), "Heartbeat", 0)) /\ pc' = "drive"
      /\ UNCHANGED <<frames, calls, queue, connected, desired, offset, feedback, data, log, result>>
      /\ DriverTypes /\ DeviceShape /\ Updating
  BY TypesAre DEF UpdateSends, CallsInv
<1>2. Head(queue) \in Motors /\ calls # <<>>
  BY NextOne
<1>3. \A k \in Motors : device'[k] = device[k]
  <2> DEFINE m == Head(queue)
  <2>1. "Heartbeat" \in Commands /\ m \in Motors
    BY <1>2 DEF Commands, PlainCommands
  <2> HIDE DEF m
  <2>2. /\ DeviceShape' /\ \A k \in Motors : k # m => device'[k] = device[k]
        /\ device'[m].ram = device[m].ram /\ device'[m].flash = device[m].flash
        /\ device'[m].output = device[m].output
    <3>1. Sends(CommandFrame(m, "Heartbeat", 0))
      BY <1>1 DEF m
    <3> QED  BY <1>1, <2>1, <3>1, SendsCommand, ZenonT(60) DEF ControlCommands, Obeys
  <2>3. device'[m] = device[m]
    <3> DEFINE d == device[m]
    <3>1. d = [ram |-> d.ram, flash |-> d.flash, output |-> d.output]
      BY <1>1, <2>1 DEF DeviceShape
    <3>2. device'[m] = [ram |-> d.ram, flash |-> d.flash, output |-> d.output]
      BY <2>1, <2>2, Zenon DEF DeviceShape
    <3> QED  BY <3>1, <3>2
  <2> QED  BY <2>2, <2>3
<1>4. DriverTypes' /\ Moves /\ UNCHANGED <<log, answers, rx, result, connected>>
  BY <1>1, <1>2, SendsFacts DEF Moves, Proceeds, DriverTypes
<1>5. Updating'
  <2>1. \A m \in connected : Driven(m) => device'[m].output = [cmd |-> "DutyCycle", val |-> desired[m]]
    BY <1>3 DEF Driven, MotorInv
  <2> QED  BY <1>1, <2>1 DEF Updating, Driven
<1> QED  BY <1>1, <1>3, <1>4, <1>5, UpdateReads

\* ... and the duty cycle, which is now what the motor got.
LEMMA UpdateDrivesCalls ==
  ASSUME CallsInv, Shape, MotorInv, MotorInv', UpdateSends, pc = "drive"
  PROVE  CallsInv'
<1> DEFINE m == Head(queue)
           v == desired[m]
<1>1. /\ AcceptsControl("DutyCycle", v) /\ Sends(CommandFrame(m, "DutyCycle", v)) /\ pc' = "collect"
      /\ UNCHANGED <<frames, calls, queue, connected, desired, offset, feedback, data, log, result>>
      /\ DriverTypes /\ DeviceShape /\ Updating /\ DeviceTypes
  BY TypesAre DEF UpdateSends, CallsInv
<1>2. m \in Motors /\ m \in connected /\ m = queue[1] /\ calls # <<>> /\ IsSequence(queue)
  BY NextOne
<1>3. v # NotFinite /\ "DutyCycle" \in Commands
  BY <1>1 DEF AcceptsControl, Commands, ControlCommands
<1> HIDE DEF m, v
<1>4. /\ DeviceShape' /\ \A k \in Motors : k # m => device'[k] = device[k]
      /\ device'[m].ram = device[m].ram /\ device'[m].flash = device[m].flash
      /\ device'[m].output = [cmd |-> "DutyCycle", val |-> v]
  <2>1. DeviceShape /\ Sends(CommandFrame(m, "DutyCycle", v))
    BY <1>1
  <2>2. /\ "DutyCycle" \in ControlCommands
        /\ "DutyCycle" \notin {"FactoryDefaults", "FactoryReset", "BurnFlash"}
    BY DEF ControlCommands
  <2>3. DeviceShape' /\ Obeys(m, "DutyCycle", v)
    BY <1>2, <1>3, <2>1, SendsCommand
  <2> QED  BY <2>2, <2>3 DEF Obeys
<1>5. DriverTypes' /\ Moves /\ UNCHANGED <<log, answers, rx, result, connected>>
  BY <1>1, <1>2, SendsFacts DEF Moves, Proceeds, DriverTypes
<1>6. LogShape' /\ Apart' /\ SettersKeepApart' /\ RamIsGiven' /\ AnswersAreGiven' /\ GetsOwn'
  BY <1>2, <1>4, <1>5, ManagedWrite
<1>7. CallShape' /\ Configuring'
  BY <1>1 DEF CallShape, Configuring
<1>8. Burnt'
  <2>1. \A k \in Motors : device'[k].flash = device[k].flash
    BY <1>4
  <2>2. Managed' \subseteq Managed
    BY <1>5, ManagedShrinks
  <2> QED  BY <2>1, <2>2 DEF Burnt, Whole, CallsInv
<1>9. Updating'
  <2>1. ASSUME NEW k \in connected
        PROVE  \/ device'[k].output = [cmd |-> "DutyCycle", val |-> desired[k]]
               \/ \E i \in 1 .. Len(queue) : queue[i] = k /\ i > 1
    <3>1. CASE k = m
      BY <1>4, <3>1 DEF v
    <3>2. CASE k # m
      <4>1. device'[k] = device[k]
        BY <1>4, <3>2 DEF MotorInv
      <4>2. Driven(k) \/ \E i \in 1 .. Len(queue) : queue[i] = k
        BY <1>1 DEF Updating
      <4>3. \A i \in 1 .. Len(queue) : queue[i] = k => i > 1
        <5>1. \A i \in 1 .. Len(queue) : i # 1 => i > 1
          BY <1>2, SequenceFacts
        <5> QED  BY <1>2, <3>2, <5>1
      <4> QED  BY <4>1, <4>2, <4>3 DEF Driven
    <3> QED  BY <3>1, <3>2
  <2> QED  BY <1>1, <2>1 DEF Updating, Driven
<1>10. DeviceTypes'
  <2>1. \A k \in Motors : device'[k].ram = device[k].ram
    BY <1>4
  <2>2. \A k \in Motors : device'[k].output.val # NotFinite
    <3> TAKE k \in Motors
    <3>1. CASE k = m
      BY <1>3, <1>4, <3>1
    <3>2. CASE k # m
      BY <1>1, <1>4, <3>2 DEF DeviceTypes
    <3> QED  BY <3>1, <3>2
  <2> QED  BY <1>1, <2>1, <2>2 DEF DeviceTypes
<1> QED  BY <1>4, <1>5, <1>6, <1>7, <1>8, <1>9, <1>10, TypesFollow DEF CallsInv

LEMMA CollectCalls ==
  ASSUME CallsInv, Shape, MotorInv, MotorInv', Collect
  PROVE  CallsInv'
<1>1. /\ pc = "collect" /\ pc' = "collected" /\ DriverTypes /\ Updating
      /\ UNCHANGED <<driver, frames, calls, queue, connected, desired, log, result>>
  BY TypesAre DEF Collect, CallsInv
<1>2. calls # <<>>
  BY <1>1, NextOne
<1>3. DriverTypes' /\ Moves /\ UNCHANGED <<log, answers, rx, result, connected, device>>
  BY <1>1, <1>2, FailsFacts DEF Moves, Proceeds, DriverTypes
<1>4. Updating'
  BY <1>1 DEF driver, Updating, Driven
<1> QED  BY <1>1, <1>3, <1>4, UpdateReads

\* When the last motor is done every motor has got its duty cycle.
LEMMA CollectRestCalls ==
  ASSUME CallsInv, Shape, MotorInv, MotorInv', CollectRest
  PROVE  CallsInv' /\ (pc' = "call" => \A m \in connected : Driven(m))
<1>1. /\ pc = "collected" /\ queue' = Tail(queue) /\ NextMotor(queue') /\ DriverTypes /\ Updating
      /\ UNCHANGED <<driver, frames, connected, desired, log, result>>
  BY TypesAre DEF CollectRest, CallsInv
<1>2. /\ IsSequence(queue) /\ queue # <<>> /\ calls # <<>>
      /\ \A i \in 1 .. Len(queue) : queue[i] \in connected
      /\ \A m \in connected : Driven(m) \/ \E i \in 1 .. Len(queue) : queue[i] = m /\ i > 1
  BY <1>1, NextOne DEF Updating
<1>3. /\ DriverTypes' /\ Moves /\ UNCHANGED <<log, answers, rx, result, connected, device, desired>>
      /\ pc' \in {"call", "update"}
  BY <1>1, <1>2, FailsFacts DEF NextMotor, Moves, Proceeds, DriverTypes
<1>4. /\ IsSequence(queue') /\ Len(queue') = Len(queue) - 1 /\ Len(queue) \in Nat
      /\ \A i \in 1 .. Len(queue') : queue'[i] = queue[i + 1]
      /\ queue' # <<>> => Len(queue') > 0
  BY <1>1, <1>2, TailFacts, SequenceFacts
<1>5. \A m \in connected : Driven(m) \/ \E i \in 1 .. Len(queue') : queue'[i] = m
  <2> TAKE m \in connected
  <2>1. ASSUME NEW i \in 1 .. Len(queue), queue[i] = m, i > 1
        PROVE  \E j \in 1 .. Len(queue') : queue'[j] = m
    <3>1. i - 1 \in 1 .. Len(queue') /\ (i - 1) + 1 = i
      BY <1>4, <2>1
    <3> QED  BY <1>4, <2>1, <3>1
  <2> QED  BY <1>2, <2>1
<1>6. Updating'
  <2>1. \A i \in 1 .. Len(queue') : queue'[i] \in connected
    <3> TAKE i \in 1 .. Len(queue')
    <3>1. i + 1 \in 1 .. Len(queue)
      BY <1>4
    <3> QED  BY <1>2, <1>4, <3>1
  <2>2. pc' # "call" => queue' # <<>> /\ pc' = "update"
    BY <1>1 DEF NextMotor
  <2> QED  BY <1>3, <1>4, <1>5, <2>1, <2>2 DEF Updating, Driven
<1>7. pc' = "call" => \A m \in connected : Driven(m)
  <2>1. pc' = "call" => queue' = <<>>
    BY <1>1 DEF NextMotor
  <2>2. queue' = <<>> => 1 .. Len(queue') = {}
    BY EmptyFacts
  <2> QED  BY <1>5, <2>1, <2>2
<1> QED  BY <1>3, <1>6, <1>7, UpdateReads

----------------------------------------------------------------------------
(* Setters, commands and getters                                           *)

LEMMA LaterIndices ==
  ASSUME NEW n \in Nat
  PROVE  /\ \A k \in 1 .. n + 1 : k \in 1 .. n \/ k = n + 1
         /\ \A i \in 1 .. n :
              /\ n + 1 \in i + 1 .. n + 1
              /\ \A j \in i + 1 .. n : j \in 1 .. n /\ j \in i + 1 .. n + 1
OBVIOUS

\* A call of the program's own motors.
LEMMA OwnMotor ==
  ASSUME CallsInv, Shape, MotorInv, calls # <<>>, Call.op \in DirectCalls
  PROVE  /\ Call \in KnownCalls /\ Call.motor \in Motors
         /\ Call.motor \notin Managed /\ Call.motor \notin connected
<1>1. Call \in KnownCalls /\ 1 \in 1 .. Len(calls) /\ Call = calls[1] /\ Call.motor \in Motors
  BY FirstCall DEF DirectCalls
<1>2. Call.motor \notin Managed
  BY <1>1 DEF CallsInv, Apart
<1> QED  BY <1>1, <1>2 DEF Managed

LEMMA ArgumentTypes ==
  ASSUME NEW t, NEW v \in Arguments(t)
  PROVE  /\ v \in Int
         /\ t # "float" => v \in Nat
         /\ t = "u8" => v < 256
         /\ t = "u16" => v < 65536
BY DEF Arguments

\* A value a setter takes is one the SPARK can keep.
LEMMA Acceptable ==
  ASSUME NEW n \in SetterNames, NEW v \in Arguments(SetterOf(n).type), Accepts(SetterOf(n), v)
  PROVE  v # NotFinite
<1>1. CASE SetterOf(n).type = "float"
  BY <1>1 DEF Accepts
<1>2. CASE SetterOf(n).type # "float"
  <2>1. \A t : t # "float" /\ v \in Arguments(t) => v \in Nat
    BY ArgumentTypes
  <2>2. v \in Nat
    BY <1>2, <2>1, Zenon
  <2> QED  BY <2>2 DEF NotFinite
<1> QED  BY <1>1, <1>2

\* A refused or failed call throws and leaves everything as it is.
LEMMA Thrown ==
  ASSUME CallsInv, Shape, MotorInv', Throws, SendFails \/ UNCHANGED driver,
         UNCHANGED <<frames, queue, connected, desired, offset, feedback, data, result, log>>
  PROVE  CallsInv'
<1>1. /\ Moves /\ UNCHANGED <<log, answers, result, device, rx>> /\ DriverTypes' /\ pc' = "call"
  BY TypesAre, FailsFacts DEF CallsInv, Throws, Moves, Proceeds, DriverTypes
<1> QED  BY <1>1, QuietCall

\* A setter's write: the log's new entry says what the SPARK has now, and no
\* older one was about that parameter.
LEMMA SetSends ==
  ASSUME CallsInv, Shape, MotorInv, MotorInv', Begins("set"), Returns,
         ValidSlot(Call.name, Call.slot), Accepts(SetterOf(Call.name), Call.val),
         Sends(ParamFrame(Call.motor, Call.name, Call.slot, Call.val)),
         log' = Append(log, Entry(Call.motor, Call.name, Call.slot, Call.val)),
         UNCHANGED <<frames, queue, connected, desired, offset, feedback, data, result>>
  PROVE  CallsInv'
<1> DEFINE m == Call.motor
           n == Call.name
           s == Call.slot
           v == Call.val
           p == SetterId(n, s)
           x == [type |-> WireType(SetterOf(n).type), val |-> v]
           e == Entry(m, n, s, v)
<1>1. /\ m \in Motors /\ m \notin Managed /\ m \notin connected
      /\ n \in SetterNames /\ s \in Nat /\ v \in Arguments(SetterOf(n).type)
      /\ n # "factory"
  <2>1. Call \in KnownCalls /\ Call.op = "set" /\ m \in Motors /\ m \notin Managed /\ m \notin connected
    BY OwnMotor DEF Begins, DirectCalls
  <2>2. n \in SetterNames /\ s \in Nat /\ v \in Arguments(SetterOf(n).type)
    BY <2>1, ScenariosAssumption
  <2>3. "factory" \notin DOMAIN SlotIds \cup DOMAIN ParameterId
    BY SMTT(30) DEF SlotIds, ParameterId
  <2> QED  BY <2>1, <2>2, <2>3, SetterNamed
<1>2. ValidSlot(n, s) /\ Accepts(SetterOf(n), v) /\ Sends(ParamFrame(m, n, s, v))
      /\ log' = Append(log, e) /\ e.motor = m /\ e.name = n /\ e.slot = s /\ e.val = v
      /\ pc' = "call" /\ calls # <<>>
  BY DEF Entry, Returns, Begins
<1>3. Moves /\ UNCHANGED <<answers, rx, result, connected>> /\ DriverTypes'
  BY TypesAre, SendsFacts DEF CallsInv, Returns, Begins, Moves, Proceeds, DriverTypes
<1> HIDE DEF m, n, s, v, e
<1>4. p \in 1 .. 154
  BY <1>1, <1>2, SetterIdRange
<1>5. DeviceShape' /\ SetsParam(m, p, x)
  BY <1>1, <1>2, <1>4, SendsParam DEF CallsInv
<1> HIDE DEF p, x
<1>6. /\ IsSequence(log) /\ IsSequence(log') /\ Len(log') = Len(log) + 1 /\ Len(log) \in Nat
      /\ \A k \in 1 .. Len(log) : log'[k] = log[k]
      /\ log'[Len(log) + 1] = e /\ LogGrows /\ DOMAIN log' = 1 .. Len(log')
      /\ DOMAIN log = 1 .. Len(log)
  BY <1>2, AppendFacts, SequenceFacts DEF LogGrows, CallsInv, LogShape
<1>7. \A k \in 1 .. Len(log') : k \in 1 .. Len(log) \/ k = Len(log) + 1
  BY <1>6
<1>8. LogShape'
  BY <1>1, <1>2, <1>6, <1>7 DEF CallsInv, LogShape
<1>9. Apart'
  <2>1. e.motor \in Motors \ Managed
    BY <1>1, <1>2
  <2> QED  BY <1>2, <1>3, <1>6, <2>1, ApartStays DEF CallsInv
<1>10. CallShape' /\ Configuring' /\ Updating'
  BY <1>2, Between
<1>11. Burnt'
  <2>1. \A k \in Motors : device'[k].flash = device[k].flash
    BY <1>5 DEF SetsParam
  <2>2. Managed' \subseteq Managed
    BY <1>3, ManagedShrinks
  <2> QED  BY <2>1, <2>2 DEF Burnt, Whole, CallsInv
<1>12. SettersKeepApart'
  <2> SUFFICES ASSUME NEW i \in 1 .. Len(log'), log'[i].name # "factory",
                      \A j \in i + 1 .. Len(log') :
                        ~(/\ log'[j].motor = log'[i].motor
                          /\ log'[j].name = "factory" \/ (log'[j].name = log'[i].name
                                                          /\ log'[j].slot = log'[i].slot))
               PROVE  Stored(device'[log'[i].motor].ram, SetterId(log'[i].name, log'[i].slot))
                        = [type |-> WireType(SetterOf(log'[i].name).type), val |-> log'[i].val]
    BY <1>6 DEF SettersKeepApart, Undoes
  <2>1. CASE i = Len(log) + 1
    <3>1. log'[i] = e
      BY <1>6, <2>1
    <3>2. Stored(device'[m].ram, p) = x
      BY <1>5 DEF SetsParam
    <3> QED  BY <1>2, <3>1, <3>2 DEF p, x
  <2>2. CASE i \in 1 .. Len(log)
    <3>1. log'[i] = log[i] /\ log[i].motor \in Motors /\ log[i].name # "factory"
      BY <1>6, <2>2 DEF CallsInv, Apart
    <3>2. Len(log) + 1 \in i + 1 .. Len(log') /\ \A j \in i + 1 .. Len(log) : j \in i + 1 .. Len(log')
      BY <1>6, <2>2
    <3>3. \A j \in i + 1 .. Len(log) : j \in 1 .. Len(log)
      BY <1>6, <2>2
    <3>4. \A j \in i + 1 .. Len(log) : ~Undoes(j, i)
      BY <1>6, <3>1, <3>2, <3>3 DEF Undoes
    <3>5. Stored(device[log[i].motor].ram, SetterId(log[i].name, log[i].slot))
            = [type |-> WireType(SetterOf(log[i].name).type), val |-> log[i].val]
      BY <1>6, <2>2, <3>1, <3>4 DEF CallsInv, SettersKeepApart
    <3>6. CASE log[i].motor # m
      BY <1>5, <3>1, <3>5, <3>6 DEF SetsParam
    <3>7. CASE log[i].motor = m
      <4>1. ~(log[i].name = n /\ log[i].slot = s)
        BY <1>2, <1>6, <3>1, <3>2, <3>7
      <4>2. /\ log[i].name \in SetterNames /\ log[i].slot \in Nat
            /\ ValidSlot(log[i].name, log[i].slot)
        BY <2>2, <3>1 DEF CallsInv, LogShape
      <4>3. SetterId(log[i].name, log[i].slot) # p
        BY <1>1, <1>2, <4>1, <4>2, SetterIdInjective DEF p
      <4>4. Stored(device'[m].ram, SetterId(log[i].name, log[i].slot))
              = Stored(device[m].ram, SetterId(log[i].name, log[i].slot))
        BY <1>5, <4>3 DEF SetsParam
      <4> QED  BY <3>1, <3>5, <3>7, <4>4
    <3> QED  BY <3>6, <3>7
  <2> QED  BY <1>7, <2>1, <2>2
<1>13. RamIsGiven'
  <2>1. Written \subseteq Written'
    BY <1>6, WrittenStays
  <2>2. <<m, p, x>> \in Written'
    <3>1. Len(log) + 1 \in 1 .. Len(log') /\ log'[Len(log) + 1] = e
      BY <1>6
    <3> QED  BY <1>1, <1>2, <3>1 DEF Written, p, x
  <2>3. ASSUME NEW k \in Motors, k \notin connected', NEW q \in DOMAIN device'[k].ram
        PROVE  <<k, q, device'[k].ram[q]>> \in Written'
    <3>1. CASE k # m
      BY <1>3, <1>5, <2>1, <2>3, <3>1 DEF SetsParam, CallsInv, RamIsGiven
    <3>2. CASE k = m /\ q = p
      BY <1>5, <2>2, <3>2 DEF SetsParam
    <3>3. CASE k = m /\ q # p
      BY <1>3, <1>5, <2>1, <2>3, <3>3 DEF SetsParam, CallsInv, RamIsGiven
    <3> QED  BY <3>1, <3>2, <3>3
  <2> QED  BY <2>3 DEF RamIsGiven
<1>14. AnswersAreGiven' /\ GetsOwn'
  <2>1. Underway' = Underway
    BY <1>3 DEF Underway
  <2> QED  BY <1>3, <1>6, <2>1, AnswersStay, GetsOwnStays DEF CallsInv
<1>15. DeviceTypes'
  <2>1. DeviceTypes /\ v # NotFinite
    BY <1>1, <1>2, TypesAre, Acceptable DEF CallsInv
  <2>2. \A i \in DOMAIN device'[m].ram :
          device'[m].ram[i].type \in {UINT, FLOAT, BOOL} /\ device'[m].ram[i].val # NotFinite
    BY <1>1, <1>5, <2>1, WireTypes DEF DeviceTypes, SetsParam, x
  <2> QED  BY <1>5, <2>1, <2>2 DEF DeviceTypes, SetsParam
<1> QED  BY <1>3, <1>5, <1>8, <1>9, <1>10, <1>11, <1>12, <1>13, <1>14, <1>15, TypesFollow DEF CallsInv

LEMMA SetCalls ==
  ASSUME CallsInv, Shape, MotorInv, MotorInv', Set
  PROVE  CallsInv'
BY SetSends, Thrown DEF Set

\* A command: factory settings empty the SPARK and mark the log, the others
\* leave the parameters alone.
LEMMA SendSends ==
  ASSUME CallsInv, Shape, MotorInv, MotorInv', Begins("send"), Returns,
         Call.cmd \in ControlCommands => AcceptsControl(Call.cmd, Call.val),
         Sends(CommandFrame(Call.motor, Call.cmd, Call.val)),
         log' = IF Call.cmd \in {"FactoryDefaults", "FactoryReset"}
                  THEN Append(log, Entry(Call.motor, "factory", 0, 0)) ELSE log,
         UNCHANGED <<frames, queue, connected, desired, offset, feedback, data, result>>
  PROVE  CallsInv'
<1> DEFINE m == Call.motor
           c == Call.cmd
           v == Call.val
           e == Entry(m, "factory", 0, 0)
           reset == c \in {"FactoryDefaults", "FactoryReset"}
<1>1. m \in Motors /\ m \notin Managed /\ m \notin connected /\ c \in Commands
  <2>1. Call \in KnownCalls /\ Call.op = "send" /\ m \in Motors /\ m \notin Managed /\ m \notin connected
    BY OwnMotor DEF Begins, DirectCalls
  <2> QED  BY <2>1, ScenariosAssumption DEF Commands
<1>2. /\ Sends(CommandFrame(m, c, v)) /\ log' = (IF reset THEN Append(log, e) ELSE log)
      /\ e.motor = m /\ e.name = "factory"
      /\ c \in ControlCommands => v # NotFinite
      /\ pc' = "call" /\ calls # <<>>
  BY DEF Entry, Returns, Begins, AcceptsControl
<1>3. Moves /\ UNCHANGED <<answers, rx, result, connected>> /\ DriverTypes'
  BY TypesAre, SendsFacts DEF CallsInv, Returns, Begins, Moves, Proceeds, DriverTypes
<1> HIDE DEF m, c, v, e
<1>4. DeviceShape' /\ Obeys(m, c, v)
  BY <1>1, <1>2, SendsCommand DEF CallsInv
<1>5. \A k \in Motors :
        device'[k].ram = (IF k = m /\ reset THEN <<>> ELSE device[k].ram)
  BY <1>4 DEF Obeys
<1> HIDE DEF reset
<1>6. /\ IsSequence(log) /\ IsSequence(log') /\ Len(log) \in Nat
      /\ LogGrows /\ DOMAIN log' = 1 .. Len(log') /\ DOMAIN log = 1 .. Len(log)
      /\ \A k \in 1 .. Len(log) : k \in 1 .. Len(log') /\ log'[k] = log[k]
      /\ reset => Len(log') = Len(log) + 1 /\ log'[Len(log) + 1] = e
      /\ ~reset => log' = log
  <2>1. IsSequence(log) /\ LogGrows
    BY <1>2 DEF LogGrows, CallsInv, LogShape
  <2>2. reset => Len(log') = Len(log) + 1 /\ log'[Len(log) + 1] = e
    BY <1>2, <2>1, AppendFacts
  <2>3. ~reset => log' = log
    BY <1>2
  <2> QED  BY <2>1, <2>2, <2>3, LogFacts, SequenceFacts
<1>7. \A k \in 1 .. Len(log') : k \in 1 .. Len(log) \/ (reset /\ k = Len(log) + 1)
  <2>1. CASE reset
    <3>1. \A k \in 1 .. Len(log) + 1 : k \in 1 .. Len(log) \/ k = Len(log) + 1
      BY <1>6, LaterIndices
    <3> QED  BY <1>6, <2>1, <3>1
  <2>2. CASE ~reset
    BY <1>6, <2>2
  <2> QED  BY <2>1, <2>2
<1>8. LogShape'
  <2>1. \A k \in 1 .. Len(log') : log'[k].name # "factory" =>
          k \in 1 .. Len(log) /\ log'[k] = log[k]
    BY <1>2, <1>6, <1>7
  <2> QED  BY <1>6, <2>1 DEF CallsInv, LogShape
<1>9. Apart'
  <2>1. e.motor \in Motors \ Managed
    BY <1>1, <1>2
  <2> QED  BY <1>2, <1>3, <1>6, <2>1, ApartStays DEF CallsInv
<1>10. CallShape' /\ Configuring' /\ Updating'
  BY <1>2, Between
<1>11. Burnt'
  <2>1. \A k \in Motors : k \in Managed => device'[k].flash = device[k].flash
    BY <1>1, <1>4 DEF Obeys
  <2>2. Managed' \subseteq Managed
    BY <1>3, ManagedShrinks
  <2> QED  BY <2>1, <2>2 DEF Burnt, Whole, CallsInv
<1>12. SettersKeepApart'
  <2> SUFFICES ASSUME NEW i \in 1 .. Len(log'), log'[i].name # "factory",
                      \A j \in i + 1 .. Len(log') :
                        ~(/\ log'[j].motor = log'[i].motor
                          /\ log'[j].name = "factory" \/ (log'[j].name = log'[i].name
                                                          /\ log'[j].slot = log'[i].slot))
               PROVE  Stored(device'[log'[i].motor].ram, SetterId(log'[i].name, log'[i].slot))
                        = [type |-> WireType(SetterOf(log'[i].name).type), val |-> log'[i].val]
    BY <1>6 DEF SettersKeepApart, Undoes
  <2>1. i \in 1 .. Len(log)
    BY <1>2, <1>6, <1>7
  <2>2. log'[i] = log[i] /\ log[i].motor \in Motors /\ log[i].name # "factory"
    BY <1>6, <2>1 DEF CallsInv, Apart
  <2>3. ~(reset /\ log[i].motor = m)
    <3>1. reset => Len(log) + 1 \in i + 1 .. Len(log')
      BY <1>6, <2>1
    <3> QED  BY <1>2, <1>6, <2>2, <3>1
  <2>4. \A j \in i + 1 .. Len(log) : j \in 1 .. Len(log) /\ j \in i + 1 .. Len(log')
    <3>1. \A j \in i + 1 .. Len(log) : j \in 1 .. Len(log) /\ j \in i + 1 .. Len(log) + 1
      BY <1>6, <2>1, LaterIndices
    <3> QED  BY <1>6, <3>1
  <2>5. \A j \in i + 1 .. Len(log) : ~Undoes(j, i)
    BY <1>6, <2>2, <2>4 DEF Undoes
  <2>6. Stored(device[log[i].motor].ram, SetterId(log[i].name, log[i].slot))
          = [type |-> WireType(SetterOf(log[i].name).type), val |-> log[i].val]
    BY <1>6, <2>1, <2>2, <2>5 DEF CallsInv, SettersKeepApart
  <2> QED  BY <1>5, <2>2, <2>3, <2>6
<1>13. RamIsGiven'
  <2>1. Written \subseteq Written'
    BY <1>6, WrittenStays
  <2>2. DOMAIN <<>> = {}
    OBVIOUS
  <2>3. \A k \in Motors : \A p \in DOMAIN device'[k].ram :
          p \in DOMAIN device[k].ram /\ device'[k].ram[p] = device[k].ram[p]
    BY <1>5, <2>2
  <2> QED  BY <1>3, <2>1, <2>3 DEF CallsInv, RamIsGiven
<1>14. AnswersAreGiven' /\ GetsOwn'
  <2>1. Underway' = Underway
    BY <1>3 DEF Underway
  <2> QED  BY <1>3, <1>6, <2>1, AnswersStay, GetsOwnStays DEF CallsInv
<1>15. DeviceTypes'
  <2>1. DeviceTypes
    BY TypesAre DEF CallsInv
  <2>2. DOMAIN <<>> = {}
    OBVIOUS
  <2>3. \A k \in Motors : device'[k].output.val # NotFinite
    <3> TAKE k \in Motors
    <3>1. CASE k = m
      BY <1>1, <1>2, <1>4, <2>1, <3>1 DEF Obeys, DeviceTypes
    <3>2. CASE k # m
      BY <1>4, <2>1, <3>2 DEF Obeys, DeviceTypes
    <3> QED  BY <3>1, <3>2
  <2>4. \A k \in Motors : \A i \in DOMAIN device'[k].ram :
          device'[k].ram[i].type \in {UINT, FLOAT, BOOL} /\ device'[k].ram[i].val # NotFinite
    BY <1>5, <2>1, <2>2 DEF DeviceTypes
  <2> QED  BY <2>3, <2>4 DEF DeviceTypes
<1> QED  BY <1>3, <1>4, <1>8, <1>9, <1>10, <1>11, <1>12, <1>13, <1>14, <1>15, TypesFollow DEF CallsInv

LEMMA SendCalls ==
  ASSUME CallsInv, Shape, MotorInv, MotorInv', Send
  PROVE  CallsInv'
BY SendSends, Thrown DEF Send

\* The id a getter asks for tells the parameter and the motor.
LEMMA RequestIds ==
  ASSUME NEW m \in Motors, NEW k \in Motors, NEW p \in 0 .. 255, NEW q \in 0 .. 255
  PROVE  /\ FirmwareId(m) # CreateParamArbId(q, k)
         /\ CreateParamArbId(p, m) = CreateParamArbId(q, k) => m = k /\ p = q
         /\ CreateParamArbId(p, m) # FirmwareId(k)
<1>1. m \in 0 .. 62 /\ k \in 0 .. 62
  BY SparkBaseAssumption
<1>2. \A a, b \in Motors, r \in 0 .. 255 : FirmwareId(a) # CreateParamArbId(r, b)
  <2> TAKE a \in Motors, b \in Motors, r \in 0 .. 255
  <2>1. a \in 0 .. 62 /\ b \in 0 .. 62
    BY SparkBaseAssumption
  <2>2. FirmwareId(a) = IdPrefix + 9 * 1024 + 8 * 64 + a
    BY DEF FirmwareId, CreateArbId, APICommand
  <2> QED  BY <2>1, <2>2 DEF CreateParamArbId, IdPrefix
<1>3. CreateParamArbId(p, m) = CreateParamArbId(q, k) => m = k /\ p = q
  <2>1. /\ DeviceOf(CreateParamArbId(p, m)) = m /\ ParameterOf(CreateParamArbId(p, m)) = p
        /\ DeviceOf(CreateParamArbId(q, k)) = k /\ ParameterOf(CreateParamArbId(q, k)) = q
    BY <1>1, FrameIds
  <2> QED  BY <2>1
<1> QED  BY <1>2, <1>3

\* A getter's call: of a motor of the program's own, for a parameter it has.
LEMMA GetterCall ==
  ASSUME CallsInv, Shape, MotorInv, calls # <<>>, Call.op = "get",
         Call.name = "Firmware" \/ ValidSlot(Call.name, Call.slot)
  PROVE  /\ Call.motor \in Motors /\ Call.motor \notin connected
         /\ Call.name # "Firmware" =>
              /\ Call.name \in GetterNames /\ Call.slot \in Nat
              /\ ValidSlot(Call.name, Call.slot)
              /\ GetterId(Call.name, Call.slot) \in 1 .. 154
              /\ RequestId(Call) = CreateParamArbId(GetterId(Call.name, Call.slot), Call.motor)
         /\ Call.name = "Firmware" => RequestId(Call) = FirmwareId(Call.motor)
<1>1. Call \in KnownCalls /\ Call.motor \in Motors /\ Call.motor \notin connected
  BY OwnMotor DEF DirectCalls
<1>2. Call.name # "Firmware" => Call.name \in GetterNames /\ Call.slot \in Nat
  BY <1>1, ScenariosAssumption
<1>3. Call.name # "Firmware" => GetterId(Call.name, Call.slot) \in 1 .. 154
  BY <1>2, GetterIdRange
<1> QED  BY <1>1, <1>2, <1>3 DEF RequestId

\* The answer to a request tells what setters gave.
LEMMA AnswerIsGiven ==
  ASSUME CallsInv, Shape, MotorInv, calls # <<>>, Call.op = "get",
         Call.name = "Firmware" \/ ValidSlot(Call.name, Call.slot),
         NEW f, f = Answer(RequestId(Call))
  PROVE  /\ DeviceOf(f.id) \in Motors
         /\ \A m \in Motors \ connected, p \in 0 .. 255 :
              f.id = CreateParamArbId(p, m) =>
                f.val = 0 \/ <<m, p, [type |-> f.type, val |-> f.val]>> \in Written
<1> DEFINE c == Call.motor
           g == GetterId(Call.name, Call.slot)
<1>1. /\ c \in Motors /\ c \notin connected
      /\ Call.name # "Firmware" => g \in 1 .. 154 /\ RequestId(Call) = CreateParamArbId(g, c)
      /\ Call.name = "Firmware" => RequestId(Call) = FirmwareId(c)
  BY GetterCall
<1>2. c \in 0 .. 62
  BY <1>1, SparkBaseAssumption
<1> HIDE DEF c, g
<1>3. f.id = RequestId(Call)
  BY DEF Answer, Frame
<1>4. CASE Call.name = "Firmware"
  <2>1. f.id = FirmwareId(c)
    BY <1>1, <1>3, <1>4
  <2>2. DeviceOf(f.id) = c
    BY <1>2, <2>1, FrameIds
  <2>3. \A m \in Motors, p \in 0 .. 255 : f.id # CreateParamArbId(p, m)
    <3> TAKE m \in Motors, p \in 0 .. 255
    <3>1. c \in Motors
      BY <1>1
    <3>2. FirmwareId(c) # CreateParamArbId(p, m)
      BY <3>1, RequestIds
    <3> QED  BY <2>1, <3>2
  <2> QED  BY <1>1, <2>2, <2>3
<1>5. CASE Call.name # "Firmware"
  <2>1. f.id = CreateParamArbId(g, c) /\ g \in 0 .. 255
    BY <1>1, <1>3, <1>5
  <2>2. DeviceOf(f.id) = c /\ ParameterOf(f.id) = g
    <3>1. \A p \in 0 .. 255 : DeviceOf(CreateParamArbId(p, c)) = c
                              /\ ParameterOf(CreateParamArbId(p, c)) = p
      BY <1>2, FrameIds
    <3> QED  BY <2>1, <3>1
  <2>3. f.id # FirmwareId(c)
    BY <1>1, <2>1, RequestIds, ZenonT(60)
  <2>4. f.type = Stored(device[c].ram, g).type /\ f.val = Stored(device[c].ram, g).val
    BY <1>3, <2>2, <2>3 DEF Answer, Frame
  <2>5. f.val = 0 \/ <<c, g, [type |-> f.type, val |-> f.val]>> \in Written
    <3>1. CASE g \in DOMAIN device[c].ram
      <4>1. <<c, g, device[c].ram[g]>> \in Written
        BY <1>1, <3>1 DEF CallsInv, RamIsGiven
      <4>2. f.type = device[c].ram[g].type /\ f.val = device[c].ram[g].val
        BY <2>4, <3>1 DEF Stored
      <4>3. PICK y, z : device[c].ram[g] = [type |-> y, val |-> z]
        BY <4>1 DEF Written
      <4>4. device[c].ram[g] = [type |-> f.type, val |-> f.val]
        BY <4>2, <4>3
      <4> QED  BY <4>1, <4>4
    <3>2. CASE g \notin DOMAIN device[c].ram
      BY <2>4, <3>2 DEF Stored
    <3> QED  BY <3>1, <3>2
  <2>6. \A m \in Motors, p \in 0 .. 255 : f.id = CreateParamArbId(p, m) => m = c /\ p = g
    <3> TAKE m \in Motors, p \in 0 .. 255
    <3>1. m \in 0 .. 62
      BY SparkBaseAssumption
    <3>2. DeviceOf(CreateParamArbId(p, m)) = m /\ ParameterOf(CreateParamArbId(p, m)) = p
      BY <3>1, FrameIds
    <3> QED  BY <2>2, <3>2
  <2>7. ASSUME NEW m \in Motors \ connected, NEW p \in 0 .. 255, f.id = CreateParamArbId(p, m)
        PROVE  f.val = 0 \/ <<m, p, [type |-> f.type, val |-> f.val]>> \in Written
    <3>1. m = c /\ p = g
      BY <2>6, <2>7
    <3> QED  BY <2>5, <3>1
  <2> QED  BY <1>1, <2>2, <2>7
<1> QED  BY <1>4, <1>5

\* What is converted is what was written: the low bits of a value of the
\* type are all of it.
LEMMA ConvertedIsWritten ==
  ASSUME NEW n \in SetterNames, NEW s \in Nat, ValidSlot(n, s),
         NEW v \in Arguments(SetterOf(n).type),
         NEW g \in GetterNames, NEW t \in Nat, ValidSlot(g, t), SetterId(n, s) = GetterId(g, t)
  PROVE  ConvertTo(GetterType(g), WireType(SetterOf(n).type), v) = v
<1> DEFINE a == SetterOf(n).type
<1>1. GetterType(g) = a
  BY ReadAsWritten
<1>2. a = "u8" => v \in Nat /\ v < 256
  BY ArgumentTypes
<1>3. a = "u16" => v \in Nat /\ v < 65536
  BY ArgumentTypes
<1> HIDE DEF a
<1>4. ConvertTo(a, WireType(a), v) = v
  BY <1>2, <1>3 DEF ConvertTo
<1> QED  BY <1>1, <1>4 DEF a

\* In slot 0, and without slots, a getter reads what the setter of its name
\* writes.
LEMMA SameParameter ==
  ASSUME NEW n \in SetterNames, NEW g \in GetterNames, NEW s \in Nat,
         ValidSlot(n, s), SetterId(n, s) = GetterId(g, 0)
  PROVE  n = g /\ s = 0
<1>1. CASE n \in DOMAIN SlotIds /\ g \in DOMAIN SlotIds
  <2>1. s \in 0 .. 3 /\ 0 \in 0 .. 3 /\ SlotIds[g][1] \in Nat
    BY <1>1, SlotIdIsNat DEF ValidSlot
  <2>2. SlotIds[n][s + 1] = SlotIds[g][0 + 1]
    BY <1>1, <2>1 DEF SetterId, GetterId
  <2> QED  BY <1>1, <2>1, <2>2, SlotInjective
<1>2. CASE n \notin DOMAIN SlotIds /\ g \notin DOMAIN SlotIds
  <2>1. n \in DOMAIN ParameterId /\ g \in DOMAIN ParameterId /\ s = 0
    BY <1>2, SetterNamed, GetterNamed DEF ValidSlot
  <2>2. ParameterId[n] = ParameterId[g]
    BY <1>2 DEF SetterId, GetterId
  <2> QED  BY <2>1, <2>2, PlainInjective
<1>3. CASE n \in DOMAIN SlotIds /\ g \notin DOMAIN SlotIds
  <2>1. g \in DOMAIN ParameterId /\ s \in 0 .. 3
    BY <1>3, GetterNamed DEF ValidSlot
  <2>2. SlotIds[n][s + 1] = ParameterId[g]
    BY <1>3 DEF SetterId, GetterId
  <2> QED  BY <1>3, <2>1, <2>2, PlainNumbers, SlotNumbers
<1>4. CASE n \notin DOMAIN SlotIds /\ g \in DOMAIN SlotIds
  <2>1. n \in DOMAIN ParameterId /\ 0 \in 0 .. 3
    BY <1>4, SetterNamed
  <2>2. ParameterId[n] = SlotIds[g][1] + 0
    BY <1>4 DEF SetterId, GetterId
  <2> QED  BY <1>4, <2>1, <2>2, PlainNumbers, SlotNumbers
<1> QED  BY <1>1, <1>2, <1>3, <1>4

LEMMA ZeroIsZero ==
  ASSUME NEW type, NEW wire
  PROVE  ConvertTo(type, wire, 0) = 0
BY DEF ConvertTo

----------------------------------------------------------------------------
(* Getters                                                                 *)

\* A getter that got no answer returns 0.
LEMMA NothingGot ==
  ASSUME Got(NoAnswer)
  PROVE  GetsOwn'
<1>1. result' = [motor |-> Call.motor, name |-> Call.name, slot |-> Call.slot,
                 val |-> IF Call.name = "Firmware" THEN 0
                         ELSE ConvertTo(GetterType(Call.name), 0, 0)]
  BY DEF Got, NoAnswer
<1>2. result'.val = 0
  BY <1>1, ZeroIsZero
<1>3. result'.val \in Given(result)'
  BY <1>2 DEF Given
<1> QED  BY <1>3 DEF GetsOwn

\* A step after which a getter has returned, or only waits for its answer.
LEMMA GetSteps ==
  ASSUME CallsInv, Shape, MotorInv', Moves, UNCHANGED <<device, log>>, DriverTypes',
         AnswersAreGiven', GetsOwn',
         \/ pc' = "call"
         \/ /\ pc' \in {"reading", "selected", "hanging"} /\ UNCHANGED calls /\ Call.op = "get"
            /\ Call.name = "Firmware" \/ ValidSlot(Call.name, Call.slot)
  PROVE  CallsInv'
<1>1. CallShape' /\ Configuring' /\ Updating'
  BY DEF CallShape, Configuring, Updating, Call
<1>2. DeviceTypes'
  BY TypesAre DEF CallsInv, DeviceTypes
<1> QED  BY <1>1, <1>2, DevicesStay, TypesFollow DEF CallsInv

\* One more frame is under way.
LEMMA OneMoreFrame ==
  ASSUME AnswersAreGiven, UNCHANGED connected, Written' = Written,
         NEW f, Underway' \subseteq Underway \cup {f}, DeviceOf(f.id) \in Motors,
         \A m \in Motors \ connected, p \in 0 .. 255 :
           f.id = CreateParamArbId(p, m) =>
             f.val = 0 \/ <<m, p, [type |-> f.type, val |-> f.val]>> \in Written
  PROVE  AnswersAreGiven'
<1>1. \A e \in Underway' : DeviceOf(e.id) \in Motors
  BY DEF AnswersAreGiven
<1>2. ASSUME NEW e \in Underway', NEW m \in Motors \ connected, NEW p \in 0 .. 255,
             e.id = CreateParamArbId(p, m)
      PROVE  e.val = 0 \/ <<m, p, [type |-> e.type, val |-> e.val]>> \in Written
  <2>1. CASE e \in Underway
    BY <1>2, <2>1 DEF AnswersAreGiven
  <2>2. CASE e = f
    BY <1>2, <2>2
  <2> QED  BY <2>1, <2>2
<1> QED  BY <1>1, <1>2 DEF AnswersAreGiven

\* A getter asks, and the answer that comes will say what setters gave.
LEMMA RequestCalls ==
  ASSUME CallsInv, Shape, MotorInv, MotorInv', Begins("get"),
         Call.name = "Firmware" \/ ValidSlot(Call.name, Call.slot),
         Request(RequestId(Call)), pc' = "reading",
         UNCHANGED <<frames, calls, queue, connected, desired, offset, feedback, data, log, result>>
  PROVE  CallsInv'
<1> DEFINE f == Answer(RequestId(Call))
<1>1. /\ answers' = Append(answers, f) /\ calls # <<>> /\ Call.op = "get"
      /\ UNCHANGED <<device, rx, log, result, connected>>
      /\ Moves /\ DriverTypes'
  BY TypesAre, RequestFacts DEF CallsInv, Begins, Moves, Proceeds, DriverTypes
<1>2. /\ DeviceOf(f.id) \in Motors
      /\ \A m \in Motors \ connected, p \in 0 .. 255 :
           f.id = CreateParamArbId(p, m) =>
             f.val = 0 \/ <<m, p, [type |-> f.type, val |-> f.val]>> \in Written
  BY <1>1, AnswerIsGiven
<1> HIDE DEF f
<1>3. Underway' \subseteq Underway \cup {f}
  <2>1. /\ Len(answers') = Len(answers) + 1 /\ Len(answers) \in Nat
        /\ \A i \in 1 .. Len(answers) : answers'[i] = answers[i]
        /\ answers'[Len(answers) + 1] = f
    BY <1>1, AppendFacts, SequenceFacts DEF Shape
  <2>2. \A i \in 1 .. Len(answers') : i \in 1 .. Len(answers) \/ i = Len(answers) + 1
    BY <2>1, LaterIndices
  <2> QED  BY <1>1, <2>1, <2>2 DEF Underway
<1>4. AnswersAreGiven'
  <2>1. Written' = Written /\ connected' = connected
    BY <1>1 DEF Written
  <2>2. AnswersAreGiven
    BY DEF CallsInv
  <2> QED  BY <1>2, <1>3, <2>1, <2>2, OneMoreFrame, Zenon
<1>5. GetsOwn'
  BY <1>1 DEF CallsInv, GetsOwn, Asked, Given
<1> QED  BY <1>1, <1>4, <1>5, GetSteps

LEMMA BeginGetCalls ==
  ASSUME CallsInv, Shape, MotorInv, MotorInv', BeginGet
  PROVE  CallsInv'
<1> DEFINE ok == Call.name = "Firmware" \/ ValidSlot(Call.name, Call.slot)
<1>1. CASE ok /\ Request(RequestId(Call)) /\ pc' = "reading" /\ UNCHANGED <<calls, result>>
  BY <1>1, RequestCalls DEF BeginGet
<1>2. CASE ok /\ RequestFails /\ Returns /\ Got(NoAnswer)
  <2>1. /\ Moves /\ UNCHANGED <<device, rx, answers, log, connected>> /\ pc' = "call"
        /\ DriverTypes'
    BY <1>2, TypesAre, FailsFacts
       DEF BeginGet, CallsInv, Begins, Returns, Moves, Proceeds, DriverTypes
  <2>2. LogGrows /\ Underway' \subseteq Underway /\ connected \subseteq connected'
    BY <2>1 DEF LogGrows, Underway
  <2>3. AnswersAreGiven'
    BY <2>2, AnswersStay DEF CallsInv
  <2> QED  BY <1>2, <2>1, <2>3, NothingGot, GetSteps
<1>3. CASE ~ok /\ Throws /\ UNCHANGED <<driver, result>>
  BY <1>3, Thrown DEF BeginGet
<1> QED  BY <1>1, <1>2, <1>3 DEF BeginGet

\* A frame under way that answers a getter's request has what it returns.
LEMMA AnswerIsOwn ==
  ASSUME CallsInv, Shape, MotorInv, calls # <<>>, Call.op = "get",
         Call.name = "Firmware" \/ ValidSlot(Call.name, Call.slot), UNCHANGED log,
         NEW f \in Underway, Got(AnswerIn(f, RequestId(Call)))
  PROVE  GetsOwn'
<1> DEFINE c == Call.motor
           g == Call.name
           t == Call.slot
           a == AnswerIn(f, RequestId(Call))
<1>1. /\ c \in Motors /\ c \notin connected
      /\ g # "Firmware" =>
           /\ g \in GetterNames /\ t \in Nat /\ ValidSlot(g, t) /\ GetterId(g, t) \in 1 .. 154
           /\ RequestId(Call) = CreateParamArbId(GetterId(g, t), c)
  BY GetterCall
<1>2. result' = [motor |-> c, name |-> g, slot |-> t,
                 val |-> IF g = "Firmware" THEN a.val ELSE ConvertTo(GetterType(g), a.type, a.val)]
  BY DEF Got
<1>3. CASE f.id # RequestId(Call)
  <2>1. a = NoAnswer
    BY <1>3 DEF AnswerIn
  <2> QED  BY <2>1, NothingGot
<1>4. CASE g = "Firmware"
  BY <1>2, <1>4 DEF GetsOwn, Asked
<1>5. CASE g # "Firmware" /\ f.id = RequestId(Call) /\ t = 0
  <2> DEFINE p == GetterId(g, t)
  <2>1. a.type = f.type /\ a.val = f.val
    BY <1>5 DEF AnswerIn
  <2> HIDE DEF c, g, t, a
  <2>2. p \in 0 .. 255 /\ f.id = CreateParamArbId(p, c)
    BY <1>1, <1>5
  <2>3. /\ result'.motor = c /\ result'.name = g /\ result'.slot = t
        /\ result'.val = ConvertTo(GetterType(g), f.type, f.val)
    BY <1>2, <1>5, <2>1
  <2>4. f.val = 0 \/ <<c, p, [type |-> f.type, val |-> f.val]>> \in Written
    BY <1>1, <2>2 DEF CallsInv, AnswersAreGiven
  <2>5. CASE f.val = 0
    BY <2>3, <2>5, ZeroIsZero DEF GetsOwn, Given
  <2>6. CASE <<c, p, [type |-> f.type, val |-> f.val]>> \in Written
    <3>1. PICK k \in 1 .. Len(log) :
            /\ log[k].name # "factory" /\ log[k].motor = c
            /\ SetterId(log[k].name, log[k].slot) = p
            /\ f.type = WireType(SetterOf(log[k].name).type) /\ f.val = log[k].val
      BY <2>6 DEF Written
    <3>2. /\ log[k].name \in SetterNames /\ log[k].slot \in Nat
          /\ ValidSlot(log[k].name, log[k].slot)
          /\ log[k].val \in Arguments(SetterOf(log[k].name).type)
      BY <3>1 DEF CallsInv, LogShape
    <3>3. ConvertTo(GetterType(g), f.type, f.val) = log[k].val
      BY <1>1, <1>5, <3>1, <3>2, ConvertedIsWritten
    <3>4. k \in DOMAIN log
      BY SequenceFacts DEF CallsInv, LogShape
    <3>5. log[k].name = g /\ log[k].slot = t
      BY <1>1, <1>5, <3>1, <3>2, SameParameter DEF p
    <3>6. log[k].val \in Given(result)'
      BY <2>3, <3>1, <3>4, <3>5 DEF Given
    <3> QED  BY <2>3, <3>3, <3>6 DEF GetsOwn
  <2> QED  BY <2>4, <2>5, <2>6
<1>6. CASE t # 0
  BY <1>2, <1>6 DEF GetsOwn
<1> QED  BY <1>3, <1>4, <1>5, <1>6

LEMMA EndGetCalls ==
  ASSUME CallsInv, Shape, MotorInv, MotorInv', EndGet
  PROVE  CallsInv'
<1>1. /\ calls # <<>> /\ Call.op = "get"
      /\ Call.name = "Firmware" \/ ValidSlot(Call.name, Call.slot)
  BY DEF EndGet, Shape, CallsInv, CallShape
<1>2. /\ Moves /\ UNCHANGED <<device, answers, log, connected>> /\ pc' = "call" /\ DriverTypes'
      /\ rx' = rx \/ (rx # <<>> /\ rx' = Tail(rx))
  <2>1. DriverTypes
    BY TypesAre DEF CallsInv
  <2>2. CASE TakeFrame
    BY <1>1, <2>1, <2>2
       DEF EndGet, TakeFrame, threads, Returns, Moves, Proceeds, DriverTypes, SocketTypes
  <2>3. CASE TakeNothing
    BY <1>1, <2>1, <2>3, FailsFacts DEF EndGet, Returns, Moves, Proceeds, DriverTypes
  <2> QED  BY <2>2, <2>3 DEF EndGet
<1>3. AnswersAreGiven'
  <2>1. LogGrows /\ Underway' \subseteq Underway /\ connected \subseteq connected'
    BY <1>2, UnderwayShrinks DEF LogGrows
  <2> QED  BY <2>1, AnswersStay DEF CallsInv
<1>4. GetsOwn'
  <2>1. CASE TakeFrame /\ Got(AnswerIn(Head(rx), RequestId(Call)))
    <3>1. Head(rx) = rx[1] /\ 1 \in 1 .. Len(rx)
      BY <2>1, TailFacts DEF TakeFrame, Shape
    <3>2. Head(rx) \in Underway
      BY <3>1 DEF Underway
    <3> QED  BY <1>1, <1>2, <2>1, <3>2, AnswerIsOwn
  <2>2. CASE Got(NoAnswer)
    BY <2>2, NothingGot
  <2> QED  BY <2>1, <2>2 DEF EndGet
<1> QED  BY <1>2, <1>3, <1>4, GetSteps

\* select has found a frame, or the read waits.
LEMMA AwaitCalls ==
  ASSUME CallsInv, Shape, MotorInv, MotorInv', AwaitAnswer \/ Hang
  PROVE  CallsInv'
<1>1. /\ calls # <<>> /\ Call.op = "get"
      /\ Call.name = "Firmware" \/ ValidSlot(Call.name, Call.slot)
  BY DEF AwaitAnswer, Hang, Shape, CallsInv, CallShape
<1>2. /\ Moves /\ UNCHANGED <<device, answers, rx, log, connected>> /\ DriverTypes'
      /\ pc' = "call" \/ (pc' \in {"selected", "hanging"} /\ UNCHANGED <<calls, result>>)
  BY <1>1, TypesAre, FailsFacts DEF AwaitAnswer, Hang, CallsInv, Returns, Moves, Proceeds, DriverTypes
<1>3. LogGrows /\ Underway' \subseteq Underway /\ connected \subseteq connected' /\ IsSequence(log)
  BY <1>2 DEF LogGrows, Underway, CallsInv, LogShape
<1>4. AnswersAreGiven'
  BY <1>3, AnswersStay DEF CallsInv
<1>5. GetsOwn'
  <2>1. CASE UNCHANGED result
    BY <1>3, <2>1, GetsOwnStays DEF CallsInv
  <2>2. CASE Got(NoAnswer)
    BY <2>2, NothingGot
  <2> QED  BY <2>1, <2>2 DEF AwaitAnswer, Hang
<1> QED  BY <1>1, <1>2, <1>4, <1>5, GetSteps

----------------------------------------------------------------------------
(* Threads and the bus                                                     *)

\* A step of a thread or of the bus: frames come, go and are lost.
LEMMA OutsideSteps ==
  ASSUME CallsInv, Shape, MotorInv', UNCHANGED program, UNCHANGED device, DriverTypes',
         AnswersAreGiven'
  PROVE  CallsInv'
<1>1. Moves /\ UNCHANGED <<log, result, pc, calls, queue, connected, desired>>
  BY DEF program, Moves, Proceeds, Shape
<1>2. CallShape' /\ Configuring' /\ Updating'
  BY <1>1 DEF CallsInv, CallShape, Configuring, Updating, Driven, Call
<1>3. GetsOwn'
  BY <1>1 DEF CallsInv, GetsOwn, Asked, Given
<1>4. DeviceTypes'
  BY TypesAre DEF CallsInv, DeviceTypes
<1> QED  BY <1>1, <1>2, <1>3, <1>4, DevicesStay, TypesFollow DEF CallsInv

LEMMA ReaderCalls ==
  ASSUME CallsInv, Shape, MotorInv', NEW m \in Motors, Reader(m)
  PROVE  CallsInv'
<1>1. /\ UNCHANGED <<program, device, answers>> /\ DriverTypes'
      /\ rx' = rx \/ (rx # <<>> /\ rx' = Tail(rx))
  <2>1. DriverTypes
    BY TypesAre DEF CallsInv
  <2>2. CASE ReadFrame(m)
    BY <2>1, <2>2 DEF Reader, Reads, ReadFrame, DriverTypes, SocketTypes, program
  <2>3. CASE ReadFails(m)
    BY <2>1, <2>3 DEF Reader, Reads, ReadFails, Leave, DriverTypes, SocketTypes, sockets, program
  <2>4. CASE StartThread(m) \/ Select(m) \/ ReadNothing(m) \/ ReadClosed(m) \/ ThreadEnds(m)
    BY <2>1, <2>4
       DEF Reader, Reads, StartThread, Select, ReadNothing, ReadClosed, ThreadEnds, ReadFrame,
           ReadFails, DriverTypes, SocketTypes, sockets, program
  <2> QED  BY <2>2, <2>3, <2>4 DEF Reader, Reads
<1>2. AnswersAreGiven'
  <2>1. LogGrows /\ Underway' \subseteq Underway /\ connected \subseteq connected'
    BY <1>1, UnderwayShrinks DEF LogGrows, program
  <2> QED  BY <2>1, AnswersStay DEF CallsInv
<1> QED  BY <1>1, <1>2, OutsideSteps

\* A frame that arrives is under way from then on, and no other is.
LEMMA Arrived ==
  ASSUME Shape, NEW f, Arrives(f), NEW S, \A i \in 1 .. Len(answers') : answers'[i] \in S,
         Underway \subseteq S, f \in S
  PROVE  Underway' \subseteq S
<1>1. CASE rx' = rx
  BY <1>1 DEF Underway
<1>2. CASE rx' = Append(rx, f)
  <2>1. /\ Len(rx') = Len(rx) + 1 /\ Len(rx) \in Nat
        /\ \A i \in 1 .. Len(rx) : rx'[i] = rx[i]
        /\ rx'[Len(rx) + 1] = f
    BY <1>2, AppendFacts, SequenceFacts DEF Shape
  <2>2. \A i \in 1 .. Len(rx') : i \in 1 .. Len(rx) \/ i = Len(rx) + 1
    BY <2>1, LaterIndices
  <2>3. \A i \in 1 .. Len(rx') : rx'[i] \in S
    BY <2>1, <2>2 DEF Underway
  <2> QED  BY <2>3 DEF Underway
<1> QED  BY <1>1, <1>2 DEF Arrives

\* A status frame answers no getter.
LEMMA StatusIsNoAnswer ==
  ASSUME NEW m \in Motors, NEW k \in Motors, NEW p \in Periods, NEW q \in 0 .. 255
  PROVE  PeriodId(p, m) # CreateParamArbId(q, k)
<1>1. m \in 0 .. 62 /\ k \in 0 .. 62 /\ p \in 0 .. 4
  BY SparkBaseAssumption
<1> QED  BY <1>1 DEF PeriodId, CreateArbId, CreateParamArbId, IdPrefix

LEMMA BusCalls ==
  ASSUME CallsInv, Shape, MotorInv', Bus
  PROVE  CallsInv'
<1>1. UNCHANGED <<program, device>> /\ DriverTypes'
  <2>1. DriverTypes /\ UNCHANGED <<program, device, soc, blocking, alive, faults>>
    BY TypesAre DEF CallsInv, Bus, EmitAnswer, EmitStatus
  <2>2. \E W \in SUBSET Stranded : Wake(W)
    BY DEF Bus, EmitAnswer, EmitStatus
  <2> QED  BY <2>1, <2>2, WakeTypes DEF DriverTypes, program
<1>2. UNCHANGED <<log, connected>> /\ Written' = Written
  BY <1>1 DEF program, Written
<1>3. CASE EmitAnswer
  <2>1. /\ Len(answers') = Len(answers) - 1 /\ Head(answers) = answers[1]
        /\ Len(answers) \in Nat \ {0}
        /\ \A i \in 1 .. Len(answers') : answers'[i] = answers[i + 1]
    BY <1>3, TailFacts DEF EmitAnswer, Shape
  <2>2. /\ 1 \in 1 .. Len(answers)
        /\ \A i \in 1 .. Len(answers') : i + 1 \in 1 .. Len(answers)
    BY <2>1
  <2>3. /\ Head(answers) \in Underway
        /\ \A i \in 1 .. Len(answers') : answers'[i] \in Underway
    BY <2>1, <2>2 DEF Underway
  <2>4. Underway' \subseteq Underway
    BY <1>3, <2>3, Arrived DEF EmitAnswer
  <2>5. AnswersAreGiven'
    BY <1>2, <2>4 DEF CallsInv, AnswersAreGiven
  <2> QED  BY <1>1, <2>5, OutsideSteps
<1>4. ASSUME NEW m \in Motors, NEW p \in Periods, EmitStatus(m, p)
      PROVE  CallsInv'
  <2> DEFINE f == Frame(PeriodId(p, m), m, 8, 0, emitted[m][p] + 1)
  <2>1. f.id = PeriodId(p, m)
    BY DEF Frame
  <2>2. DeviceOf(f.id) \in Motors
    <3>1. m \in 0 .. 62
      BY SparkBaseAssumption
    <3>2. DeviceOf(PeriodId(p, m)) = m
      BY <3>1, FrameIds
    <3> QED  BY <2>1, <3>2
  <2>3. Arrives(f) /\ answers' = answers
    BY <1>4 DEF EmitStatus
  <2> HIDE DEF f
  <2>4. Underway' \subseteq Underway \cup {f}
    <3>1. \A i \in 1 .. Len(answers') : answers'[i] \in Underway \cup {f}
      BY <2>3 DEF Underway
    <3> QED  BY <2>3, <3>1, Arrived, ZenonT(60)
  <2>5. \A k \in Motors, q \in 0 .. 255 : f.id # CreateParamArbId(q, k)
    BY <2>1, StatusIsNoAnswer
  <2>6. AnswersAreGiven'
    <3>1. AnswersAreGiven /\ connected' = connected
      BY <1>2 DEF CallsInv
    <3>2. \A k \in Motors \ connected, q \in 0 .. 255 :
            f.id = CreateParamArbId(q, k) =>
              f.val = 0 \/ <<k, q, [type |-> f.type, val |-> f.val]>> \in Written
      BY <2>5
    <3> QED  BY <1>2, <2>2, <2>4, <3>1, <3>2, OneMoreFrame, Zenon
  <2> QED  BY <1>1, <2>6, OutsideSteps
<1> QED  BY <1>3, <1>4 DEF Bus

----------------------------------------------------------------------------
(* Every step                                                              *)

LEMMA CallsNext ==
  ASSUME CallsInv, MotorInv, [Next]_vars
  PROVE  CallsInv'
<1>1. Shape /\ MotorInv'
  BY NextInv DEF MotorInv, DriverInv
<1>2. CASE Program
  <2>1. CASE New \/ InitializeAgain \/ BeginReset \/ SetMotorDutyCycle
    BY <1>1, <2>1, QuietBeginnings
  <2>2. CASE \/ WaitTimesOut \/ WaitThrows \/ ZeroPosition \/ UpdateThrows
             \/ DestroyMotor \/ Join \/ Exit
    BY <1>1, <2>2, QuietEnds
  <2>3. CASE Emplace \/ Configure \/ WaitForFeedback
    BY <1>1, <2>3, EmplaceCalls, ConfigureCalls, WaitForFeedbackCalls
  <2>4. CASE BeginUpdate
    BY <1>1, <2>4, BeginUpdateCalls
  <2>5. CASE UpdateSends
    BY <1>1, <2>5, UpdateBeatsCalls, UpdateDrivesCalls DEF UpdateSends
  <2>6. CASE Collect \/ CollectRest
    BY <1>1, <2>6, CollectCalls, CollectRestCalls
  <2>7. CASE Set \/ Send
    BY <1>1, <2>7, SetCalls, SendCalls
  <2>8. CASE BeginGet \/ AwaitAnswer \/ EndGet \/ Hang
    BY <1>1, <2>8, BeginGetCalls, AwaitCalls, EndGetCalls
  <2> QED  BY <1>2, <2>1, <2>2, <2>3, <2>4, <2>5, <2>6, <2>7, <2>8 DEF Program
<1>3. CASE \E m \in Motors : Reader(m)
  BY <1>1, <1>3, ReaderCalls
<1>4. CASE Bus
  BY <1>1, <1>4, BusCalls
<1>5. CASE UNCHANGED vars
  <2>1. UNCHANGED <<program, device, answers, rx>> /\ DriverTypes'
    BY <1>5, TypesAre, FailsFacts DEF CallsInv, vars, program, DriverTypes
  <2>2. LogGrows /\ Underway' \subseteq Underway /\ connected \subseteq connected'
    BY <2>1 DEF program, LogGrows, Underway
  <2>3. AnswersAreGiven'
    BY <2>2, AnswersStay DEF CallsInv
  <2> QED  BY <1>1, <2>1, <2>3, OutsideSteps
<1> QED  BY <1>2, <1>3, <1>4, <1>5 DEF Next, Terminated

----------------------------------------------------------------------------
(* The theorems                                                            *)

\* MotorInv holds in every reachable state, whatever calls the program makes.
THEOREM MotorInvariance == Spec => []MotorInv
<1>1. MotorInv /\ [Next]_vars => MotorInv'
  BY NextInv
<1> QED  BY InitInv, <1>1, PTL DEF Spec

\* A status structure holds only what its own motor sent.
THEOREM StatusOwn == Spec => []StatusIsOwn
<1>1. MotorInv => StatusIsOwn
  BY DEF MotorInv, DriverInv
<1> QED  BY <1>1, MotorInvariance, PTL

\* A status structure never takes an older frame for a newer one, but in the
\* threads that had to share a read of an earlier socket.
THEOREM StatusForward == Spec => StatusNeverGoesBack
<1> DEFINE Forward ==
             \A m \in Motors \ late, p \in Periods : status'[m][p].n >= status[m][p].n
<1>1. MotorInv /\ [Next]_vars => [Forward]_vars
  BY NextInv DEF Grows
<1>2. Spec => [][Forward]_vars
  BY <1>1, MotorInvariance, PTL DEF Spec
<1> QED  BY <1>2 DEF StatusNeverGoesBack

\* Feedback is never put together in the wrong order, of no motor but those.
THEOREM FeedbackOrdered == Spec => []FeedbackInOrder
<1>1. MotorInv => FeedbackInOrder
  BY DEF MotorInv, FeedbackShape, FeedbackInOrder
<1> QED  BY <1>1, MotorInvariance, PTL

\* CallsInv holds in every reachable state: what the SPARKs store, what their
\* answers say and what getters return comes from the calls made.
THEOREM CallsInvariance == Spec => []CallsInv
<1>1. CallsInv /\ MotorInv /\ [Next]_vars => CallsInv'
  BY CallsNext
<1> QED  BY CallsInitInv, MotorInvariance, <1>1, PTL DEF Spec

\* Every variable has its type; in particular no SPARK is ever given, or
\* keeps, a float that is not finite: the checks of SetParameter and of
\* SendControlMessage let none through, whatever a program asks for.
THEOREM TypeCorrect == Spec => []TypeOK
<1>1. CallsInv => TypeOK
  BY DEF CallsInv
<1> QED  BY <1>1, CallsInvariance, PTL

\* InitializeMotor never burns half a configuration, however often it fails
\* between two of its frames.
THEOREM FlashWhole == Spec => []FlashIsWhole
<1>1. CallsInv /\ MotorInv => FlashIsWhole
  <2> SUFFICES ASSUME CallsInv, MotorInv, NEW m \in connected, device[m].flash # <<>>,
                      NEW i \in DOMAIN MotorConfig
               PROVE  Stored(device[m].flash[1], SetterId(MotorConfig[i][1], 0)).val = MotorConfig[i][2]
    BY DEF FlashIsWhole
  <2>1. m \in Motors \cap Managed
    BY DEF MotorInv, Managed
  <2>2. i \in 1 .. 9
    BY DEF MotorConfig
  <2> QED  BY <2>1, <2>2 DEF CallsInv, Burnt, Whole
<1> QED  BY <1>1, CallsInvariance, MotorInvariance, PTL

\* The last value a setter was given is what the SPARK has: no setter, and no
\* slot, writes another one's parameter.
THEOREM SettersApart == Spec => []SettersKeepApart
<1>1. CallsInv => SettersKeepApart
  BY DEF CallsInv
<1> QED  BY <1>1, CallsInvariance, PTL

\* A getter of a parameter without slots, or of slot 0, returns only what the
\* setter of its name was given, or 0, whatever frame it reads and however late
\* an answer is.
THEOREM GettersOwn == Spec => []GetsOwn
<1>1. CallsInv => GetsOwn
  BY DEF CallsInv
<1> QED  BY <1>1, CallsInvariance, PTL

\* Update never returns before every connected motor has its duty cycle, and
\* leaves out no motor before the one it throws at.
THEOREM UpdateReachesAll == Spec => UpdateSendsAll
<1> DEFINE All == pc' = "call" /\ pc \in {"update", "drive", "collected"} =>
                    \A m \in connected :
                      Driven(m)' \/ (pc # "collected" /\ \E i \in DOMAIN queue : queue[i] = m)
<1>1. CallsInv /\ MotorInv /\ [Next]_vars => [All]_vars
  <2> SUFFICES ASSUME CallsInv, MotorInv, Next,
                      pc \in {"update", "drive", "collected"}, pc' = "call",
                      NEW m \in connected
               PROVE  Driven(m)' \/ (pc # "collected" /\ \E i \in DOMAIN queue : queue[i] = m)
    OBVIOUS
  <2>1. CollectRest \/ UpdateThrows
    BY DEF Next, Program, New, InitializeAgain, Emplace, Configure, BeginReset, WaitForFeedback,
           WaitTimesOut, WaitThrows, ZeroPosition, SetMotorDutyCycle, BeginUpdate, UpdateSends,
           Collect, Set, Send, BeginGet, AwaitAnswer, EndGet, Hang, DestroyMotor,
           Join, Exit, Begins, Reader, Reads, Bus, Terminated, program, vars
  <2>2. device' = device /\ desired' = desired
    BY <2>1 DEF CollectRest, UpdateThrows, SendFails, driver
  <2>3. CASE CollectRest
    <3>1. Shape /\ MotorInv'
      BY NextInv DEF MotorInv, DriverInv
    <3>2. Driven(m)
      BY <2>3, <3>1, CollectRestCalls
    <3> QED  BY <2>2, <3>2 DEF Driven
  <2>4. CASE UpdateThrows
    <3>1. pc \in {"update", "drive"}
      BY <2>4 DEF UpdateThrows
    <3>2. Driven(m) \/ \E i \in 1 .. Len(queue) : queue[i] = m
      BY <3>1 DEF CallsInv, Updating
    <3>3. DOMAIN queue = 1 .. Len(queue)
      BY <3>1 DEF CallsInv, Updating, IsSequence
    <3> QED  BY <2>2, <3>1, <3>2, <3>3 DEF Driven
  <2> QED  BY <2>1, <2>3, <2>4
<1>2. Spec => [][All]_vars
  BY <1>1, CallsInvariance, MotorInvariance, PTL DEF Spec
<1> QED  BY <1>2 DEF UpdateSendsAll
=============================================================================
