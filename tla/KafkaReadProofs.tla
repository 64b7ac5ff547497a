--------------------------- MODULE KafkaReadProofs ---------------------------
(***************************************************************************)
(* What holds of KafkaRead for any number of partitions, any limit, any    *)
(* idle timeout and any bound on the topic: type correctness, that a read  *)
(* never holds more messages than its watermarks promised, that it is      *)
(* whole when the topic is quiet, and that the sample warning is right.    *)
(***************************************************************************)
EXTENDS KafkaRead, NatSetLemmas, SequenceTheorems, FiniteSetTheorems, TLAPS

\* A record is appended to one partition of the topic.
LEMMA AppendedLog ==
  ASSUME NEW f \in [Partitions -> Seq(Records)], NEW p \in Partitions, NEW r \in Records
  PROVE  [f EXCEPT ![p] = Append(@, r)] \in [Partitions -> Seq(Records)]
OBVIOUS

\* Polling a partition yields one of its offsets.
LEMMA DeliveredOffset ==
  ASSUME TypeOK, NEW p \in Partitions, Deliverable(p) # {}
  PROVE  Min(Deliverable(p)) \in Nat
<1>1. Deliverable(p) \in SUBSET Nat
  BY DEF Deliverable, TypeOK
<1> QED
  BY <1>1, MinOfNat

\* Every step keeps the types of the variables; idle stays within the
\* timeout (kafka.py:136-193).
THEOREM TypeCorrect == Spec => []TypeOK
<1>1. Init => TypeOK
  <2> SUFFICES ASSUME Init PROVE TypeOK
    OBVIOUS
  <2>1. log \in [Partitions -> Seq(Records)]
    <3>1. \A n \in 0 .. MaxOffset : [1 .. n -> Records] \subseteq Seq(Records)
      BY KafkaAssumption
    <3> QED BY <3>1 DEF Init
  <2>2. asked \in 0 .. NumPartitions /\ idle \in 0 .. IdlePolls /\ expected \in Int
    BY KafkaAssumption DEF Init
  <2>3. values \in Seq(Partitions \X Nat)
    BY DEF Init
  <2> QED
    BY <2>1, <2>2, <2>3 DEF Init, TypeOK
<1>2. TypeOK /\ [Next]_vars => TypeOK'
  <2> SUFFICES ASSUME TypeOK, [Next]_vars PROVE TypeOK'
    OBVIOUS
  <2> USE KafkaAssumption DEF TypeOK, broker, offsets, progress
  <2>1. ASSUME NEW p \in Partitions, Produce(p) PROVE TypeOK'
    BY <2>1, AppendedLog DEF Produce
  <2>2. ASSUME NEW p \in Partitions, Expire(p) PROVE TypeOK'
    BY <2>2 DEF Expire
  <2>3. CASE AskWatermarks
    <3>1. asked + 1 \in Partitions /\ Len(log[asked + 1]) \in Nat /\ start[asked + 1] \in Nat
      BY <2>3 DEF AskWatermarks
    <3>2. asked' \in 0 .. NumPartitions
      BY <2>3, <3>1 DEF AskWatermarks, Partitions
    <3>3. expected' \in Int
      BY <2>3, <3>1 DEF AskWatermarks
    <3>4. low' \in [Partitions -> Nat] /\ high' \in [Partitions -> Nat] /\ position' \in [Partitions -> Nat]
      BY <2>3, <3>1 DEF AskWatermarks
    <3> QED BY <2>3, <3>2, <3>3, <3>4 DEF AskWatermarks
  <2>4. CASE Assign
    BY <2>4 DEF Assign
  <2>5. CASE Fail
    BY <2>5 DEF Fail
  <2>6. ASSUME NEW p \in Assigned, PollMessage(p) PROVE TypeOK'
    <3>1. p \in Partitions
      BY DEF Assigned, Partitions
    <3>2. PICK i \in Nat : /\ position' = [position EXCEPT ![p] = i + 1]
                           /\ values' = IF log[p][i] = "tombstone" THEN values ELSE Append(values, <<p, i>>)
      BY <2>6, <3>1, DeliveredOffset DEF PollMessage
    <3>3. values' \in Seq(Partitions \X Nat)
      <4>1. <<p, i>> \in Partitions \X Nat
        BY <3>1
      <4>2. Append(values, <<p, i>>) \in Seq(Partitions \X Nat)
        BY <4>1, AppendProperties, Zenon
      <4> QED BY <3>2, <4>2, Zenon
    <3>4. position' \in [Partitions -> Nat]
      BY <3>1, <3>2
    <3>5. idle' = 0 /\ UNCHANGED <<broker, offsets, pc, outcome, eof, finished, warned>>
      BY <2>6, Zenon DEF PollMessage
    <3> QED BY <3>3, <3>4, <3>5
  <2>7. ASSUME NEW p \in Assigned, PollEnd(p) PROVE TypeOK'
    <3>1. p \in Partitions /\ EndOffset(p) \in Nat
      BY DEF Assigned, Partitions, EndOffset
    <3> QED BY <2>7, <3>1 DEF PollEnd
  <2>8. CASE PollNothing
    BY <2>8 DEF PollNothing, WithinDeadline
  <2>9. CASE PollPastDeadline
    BY <2>9 DEF PollPastDeadline, Return, Report
  <2>10. CASE StopReading
    BY <2>10 DEF StopReading, Return, Report
  <2>11. CASE Close
    BY <2>11 DEF Close
  <2>12. CASE UNCHANGED vars
    BY <2>12 DEF vars
  <2> QED
    BY <2>1, <2>2, <2>3, <2>4, <2>5, <2>6, <2>7, <2>8, <2>9, <2>10, <2>11, <2>12
    DEF Next, Reader, Broker
<1> QED
  BY <1>1, <1>2, PTL DEF Spec

\* The watermarks bound the read: every step keeps Paced.
LEMMA PacedStep == TypeOK /\ Paced /\ [Next]_vars => Paced'
<1> SUFFICES ASSUME TypeOK, Paced, [Next]_vars PROVE Paced'
  OBVIOUS
<1> USE KafkaAssumption DEF TypeOK, Paced, broker, offsets, progress, Limit
<1>1. ASSUME NEW p \in Partitions, Produce(p) PROVE Paced'
  <2>1. \A q \in Partitions : Len(log'[q]) >= Len(log[q])
    BY <1>1 DEF Produce
  <2> QED BY <1>1, <2>1 DEF Produce
<1>2. ASSUME NEW p \in Partitions, Expire(p) PROVE Paced'
  BY <1>2 DEF Expire
<1>3. CASE AskWatermarks
  <2>1. expected' >= 0 /\ pc' = pc /\ values' = values
    BY <1>3 DEF AskWatermarks
  <2> QED BY <1>3, <2>1 DEF AskWatermarks
<1>4. CASE Assign
  BY <1>4 DEF Assign
<1>5. CASE Fail
  BY <1>5 DEF Fail
<1>6. ASSUME NEW p \in Assigned, PollMessage(p) PROVE Paced'
  <2>1. Len(values) < Limit /\ pc = "reading" /\ UNCHANGED <<broker, offsets, pc>>
    BY <1>6, Zenon DEF PollMessage, ReadMore
  <2>2. Len(values') \in {Len(values), Len(values) + 1}
    BY <1>6 DEF PollMessage
  <2> QED BY <2>1, <2>2
<1>7. ASSUME NEW p \in Assigned, PollEnd(p) PROVE Paced'
  BY <1>7 DEF PollEnd
<1>8. CASE PollNothing
  BY <1>8 DEF PollNothing
<1>9. CASE PollPastDeadline
  BY <1>9 DEF PollPastDeadline, Return
<1>10. CASE StopReading
  BY <1>10 DEF StopReading, Return
<1>11. CASE Close
  BY <1>11 DEF Close
<1>12. CASE UNCHANGED vars
  BY <1>12 DEF vars
<1> QED
  BY <1>1, <1>2, <1>3, <1>4, <1>5, <1>6, <1>7, <1>8, <1>9, <1>10, <1>11, <1>12
  DEF Next, Reader, Broker

\* What the watermarks promised is fixed before the reading begins, never
\* shrinks, and is never overrun (kafka.py:142-163).
THEOREM PacedIsInductive == Spec => []Paced
<1>1. Init => Paced
  <2> SUFFICES ASSUME Init PROVE Paced
    OBVIOUS
  <2>1. \A p \in Partitions : Len(log[p]) \in Nat
    BY KafkaAssumption DEF Init
  <2> QED BY <2>1 DEF Init, Paced
<1> QED
  BY <1>1, PacedStep, TypeCorrect, PTL DEF Spec

\* However much is produced while a read runs, it holds at most as many
\* messages as the watermarks promised and as the limit allows
\* (kafka.py:157-163).
THEOREM ReadIsBounded == Spec => []BoundedRead
<1>1. TypeOK /\ Paced => BoundedRead
  BY KafkaAssumption DEF TypeOK, Paced, BoundedRead, Limit
<1> QED
  BY <1>1, PacedIsInductive, TypeCorrect, PTL

-----------------------------------------------------------------------------
(* What a complete read rests on.                                          *)

\* The topic only grows at its end and shrinks at its start, so the watermarks
\* of a partition stay within what was ever written to it.
Grown ==
  \A p \in Partitions :
    /\ low[p] <= start[p] /\ start[p] <= Len(log[p]) /\ Len(log[p]) <= MaxOffset
    /\ low[p] <= high[p] /\ high[p] <= Len(log[p]) /\ position[p] <= Len(log[p]) + 1
    /\ p > asked => low[p] = 0 /\ high[p] = 0

\* The expected count is the number of offsets the watermarks span.
Counted == IsFiniteSet(Snapshot) /\ Cardinality(Snapshot) = expected

\* No message is read twice, and none from where a partition has not been read;
\* nothing is read, ended or reported before the partitions are assigned.
Gathered ==
  /\ IsFiniteSet(Read) /\ Cardinality(Read) = Len(values)
  /\ \A m \in Read : m[2] < position[m[1]]
  /\ finished \subseteq Assigned
  /\ pc = "offsets" => values = <<>> /\ finished = {} /\ \A p \in 1 .. asked : position[p] = low[p] + 1
  /\ pc \in {"offsets", "reading"} => outcome = "none" /\ ~ warned

\* What was read is what was written there, from above the watermark on.
Authentic ==
  \A m \in Read :
    /\ m[1] \in Partitions /\ m[2] \in 1 .. Len(log[m[1]]) /\ low[m[1]] < m[2]
    /\ log[m[1]][m[2]] = "value"

\* While retention removes nothing, every promised message up to the position of
\* its partition was read, and a finished partition was read past its watermark.
Covering ==
  start = low =>
    /\ \A m \in SnapshotValues : m[2] < position[m[1]] => m \in Read
    /\ \A p \in finished : position[p] > high[p]

LEMMA GrownInit == Init => Grown
<1> SUFFICES ASSUME Init PROVE Grown
  OBVIOUS
<1>1. \A p \in Partitions : Len(log[p]) \in 0 .. MaxOffset
  BY KafkaAssumption DEF Init
<1> QED
  BY <1>1, KafkaAssumption DEF Init, Grown

\* Nothing a step does takes the topic or the watermarks back.
LEMMA GrownStep == TypeOK /\ Grown /\ [Next]_vars => Grown'
<1> SUFFICES ASSUME TypeOK, Grown, [Next]_vars PROVE Grown'
  OBVIOUS
<1> USE KafkaAssumption DEF broker, offsets, progress
<1>1. ASSUME NEW p \in Partitions, Produce(p) PROVE Grown'
  <2>1. \A q \in Partitions : Len(log'[q]) >= Len(log[q]) /\ Len(log'[q]) <= MaxOffset /\ Len(log'[q]) \in Nat
    BY <1>1 DEF Produce, Grown, TypeOK
  <2> QED BY <1>1, <2>1 DEF Produce, Grown, TypeOK
<1>2. ASSUME NEW p \in Partitions, Expire(p) PROVE Grown'
  BY <1>2 DEF Expire, Grown, TypeOK
<1>3. CASE AskWatermarks
  <2> DEFINE p == asked + 1
  <2>1. /\ p \in Partitions /\ asked \in Nat /\ asked' = p
        /\ low' = [low EXCEPT ![p] = start[p]] /\ high' = [high EXCEPT ![p] = Len(log[p])]
        /\ position' = [position EXCEPT ![p] = start[p] + 1]
        /\ UNCHANGED <<log, start>>
    BY <1>3 DEF AskWatermarks, TypeOK
  <2>2. \A q \in Partitions : q > p => q > asked
    BY <2>1 DEF Partitions
  <2> HIDE DEF p
  <2>3. \A q \in Partitions : start[q] \in Nat /\ Len(log[q]) \in Nat
    BY DEF TypeOK
  <2>4. SUFFICES ASSUME NEW q \in Partitions PROVE Grown!(q)'
    BY DEF Grown
  <2>5. CASE q = p
    <3>1. low'[q] = start[q] /\ high'[q] = Len(log[q]) /\ position'[q] = start[q] + 1
      BY <2>1, <2>5 DEF TypeOK
    <3> QED BY <2>1, <2>3, <2>5, <3>1 DEF Grown, Partitions
  <2>6. CASE q # p
    <3>1. low'[q] = low[q] /\ high'[q] = high[q] /\ position'[q] = position[q]
      BY <2>1, <2>6 DEF TypeOK
    <3> QED BY <2>1, <2>2, <3>1 DEF Grown
  <2> QED BY <2>5, <2>6
<1>4. CASE Assign
  BY <1>4 DEF Assign, Grown
<1>5. CASE Fail
  BY <1>5 DEF Fail, Grown
<1>6. ASSUME NEW p \in Assigned, PollMessage(p) PROVE Grown'
  <2>1. p \in Partitions
    BY DEF Assigned, TypeOK, Partitions
  <2>2. Deliverable(p) \in SUBSET Nat /\ Deliverable(p) # {}
    BY <1>6, <2>1 DEF Deliverable, TypeOK, PollMessage
  <2>3. Min(Deliverable(p)) \in Deliverable(p)
    BY <2>2, MinOfNat
  <2>4. position' = [position EXCEPT ![p] = Min(Deliverable(p)) + 1]
    BY <1>6 DEF PollMessage
  <2>5. Min(Deliverable(p)) + 1 <= Len(log[p]) + 1
    BY <2>1, <2>3 DEF Deliverable, TypeOK
  <2>6. UNCHANGED <<broker, offsets>>
    BY <1>6 DEF PollMessage
  <2> QED BY <2>1, <2>4, <2>5, <2>6 DEF Grown, TypeOK
<1>7. ASSUME NEW p \in Assigned, PollEnd(p) PROVE Grown'
  <2>1. p \in Partitions
    BY DEF Assigned, TypeOK, Partitions
  <2> QED BY <1>7, <2>1 DEF PollEnd, EndOffset, Grown, TypeOK
<1>8. CASE PollNothing
  BY <1>8 DEF PollNothing, Grown
<1>9. CASE PollPastDeadline
  BY <1>9 DEF PollPastDeadline, Return, Grown
<1>10. CASE StopReading
  BY <1>10 DEF StopReading, Return, Grown
<1>11. CASE Close
  BY <1>11 DEF Close, Grown
<1>12. CASE UNCHANGED vars
  BY <1>12 DEF vars, Grown
<1> QED
  BY <1>1, <1>2, <1>3, <1>4, <1>5, <1>6, <1>7, <1>8, <1>9, <1>10, <1>11, <1>12
  DEF Next, Reader, Broker

\* The offsets a partition holds when its watermarks are asked for.
LEMMA OffsetsOf ==
  ASSUME NEW p, NEW a \in Nat, NEW b \in Nat, a <= b
  PROVE  IsFiniteSet({p} \X (a + 1 .. b)) /\ Cardinality({p} \X (a + 1 .. b)) = b - a
<1>1. IsFiniteSet({p}) /\ Cardinality({p}) = 1
  BY FS_Singleton
<1>2. IsFiniteSet(a + 1 .. b) /\ Cardinality(a + 1 .. b) = b - a
  <2>1. a + 1 \in Int /\ b \in Int
    OBVIOUS
  <2>2. IsFiniteSet(a + 1 .. b) /\ Cardinality(a + 1 .. b) = IF a + 1 > b THEN 0 ELSE b - (a + 1) + 1
    BY <2>1, FS_Interval
  <2> QED BY <2>2
<1> QED
  BY <1>1, <1>2, FS_Product

\* Each partition asked for adds its offsets to the count, and no other step
\* changes it.
LEMMA CountedStep == TypeOK /\ Grown /\ Counted /\ [Next]_vars => Counted'
<1> SUFFICES ASSUME TypeOK, Grown, Counted, [Next]_vars PROVE Counted'
  OBVIOUS
<1>1. CASE UNCHANGED <<low, high, expected>>
  BY <1>1 DEF Counted, Snapshot
<1>2. CASE AskWatermarks
  <2> DEFINE p == asked + 1
             New == {p} \X (start[p] + 1 .. Len(log[p]))
  <2>1. /\ p \in Partitions /\ start[p] \in Nat /\ Len(log[p]) \in Nat
        /\ start[p] <= Len(log[p]) /\ Len(log[p]) <= MaxOffset
        /\ low[p] = 0 /\ high[p] = 0
    <3>1. p \in Partitions /\ p > asked
      BY <1>2 DEF AskWatermarks, TypeOK
    <3> HIDE DEF p
    <3> QED BY <3>1 DEF Grown, TypeOK
  <2>2. low' = [low EXCEPT ![p] = start[p]] /\ high' = [high EXCEPT ![p] = Len(log[p])]
    BY <1>2 DEF AskWatermarks
  <2>3. expected' = expected + (Len(log[p]) - start[p])
    BY <1>2 DEF AskWatermarks
  <2>4. IsFiniteSet(New) /\ Cardinality(New) = Len(log[p]) - start[p]
    BY <2>1, OffsetsOf
  <2>5. Snapshot' = Snapshot \cup New
    <3>1. ASSUME NEW m \in Partitions \X (1 .. MaxOffset)
          PROVE  low'[m[1]] < m[2] /\ m[2] <= high'[m[1]]
                   <=> (low[m[1]] < m[2] /\ m[2] <= high[m[1]]) \/ m \in New
      <4>1. m[1] \in Partitions /\ m[2] \in 1 .. MaxOffset /\ m = <<m[1], m[2]>>
        OBVIOUS
      <4>2. CASE m[1] = p
        <5>1. low'[m[1]] = start[p] /\ high'[m[1]] = Len(log[p])
          BY <2>1, <2>2, <4>2 DEF TypeOK
        <5>2. m \in New <=> m[2] \in start[p] + 1 .. Len(log[p])
          BY <4>1, <4>2
        <5> QED BY <5>1, <5>2, <4>1, <4>2, <2>1, KafkaAssumption
      <4>3. CASE m[1] # p
        <5>1. low'[m[1]] = low[m[1]] /\ high'[m[1]] = high[m[1]]
          BY <2>1, <2>2, <4>1, <4>3 DEF TypeOK
        <5>2. m \notin New
          BY <4>1, <4>3
        <5> QED BY <5>1, <5>2
      <4> QED BY <4>2, <4>3
    <3>2. New \subseteq Partitions \X (1 .. MaxOffset)
      BY <2>1, KafkaAssumption
    <3> HIDE DEF New, p
    <3> QED BY <3>1, <3>2 DEF Snapshot
  <2>6. Snapshot \cap New = {}
    <3>1. ASSUME NEW m \in Snapshot, m \in New PROVE FALSE
      <4>1. m[1] = p /\ low[m[1]] < m[2] /\ m[2] <= high[m[1]] /\ m[2] \in 1 .. MaxOffset
        BY <3>1 DEF Snapshot
      <4> QED BY <4>1, <2>1, KafkaAssumption
    <3> QED BY <3>1
  <2> HIDE DEF New
  <2>7. IsFiniteSet(Snapshot \cup New) /\ Cardinality(Snapshot \cup New) = Cardinality(Snapshot) + Cardinality(New)
    <3>1. Cardinality({}) = 0
      BY FS_EmptySet
    <3>2. Cardinality(Snapshot) \in Nat /\ Cardinality(New) \in Nat
      BY <2>4, FS_CardinalityType DEF Counted
    <3>3. /\ IsFiniteSet(Snapshot \cup New)
          /\ Cardinality(Snapshot \cup New)
               = Cardinality(Snapshot) + Cardinality(New) - Cardinality(Snapshot \cap New)
      BY <2>4, FS_Union DEF Counted
    <3>4. Cardinality(Snapshot \cap New) = 0
      BY <3>1, <2>6, Zenon
    <3> QED BY <3>2, <3>3, <3>4
  <2> QED
    BY <2>3, <2>4, <2>5, <2>7 DEF Counted
<1>3. UNCHANGED <<low, high, expected>> \/ AskWatermarks
  BY DEF Next, Reader, Broker, Produce, Expire, Assign, Fail, PollMessage, PollEnd, PollNothing,
         PollPastDeadline, StopReading, Return, Close, vars, offsets
<1> QED
  BY <1>1, <1>2, <1>3

LEMMA CountedInit == Init => Counted
<1> SUFFICES ASSUME Init PROVE Counted
  OBVIOUS
<1>1. \A p \in Partitions : low[p] = 0 /\ high[p] = 0
  BY DEF Init
<1>2. Snapshot = {}
  <2>1. ASSUME NEW m \in Snapshot PROVE FALSE
    <3>1. m[1] \in Partitions /\ m[2] \in 1 .. MaxOffset /\ m[2] <= high[m[1]]
      BY <2>1 DEF Snapshot
    <3> QED BY <3>1, <1>1, KafkaAssumption
  <2> QED BY <2>1
<1> QED
  BY <1>2, FS_EmptySet DEF Counted, Init

\* Appending a message adds it to what was read.
LEMMA ReadAppended ==
  ASSUME TypeOK, NEW m \in Partitions \X Nat, values' = Append(values, m)
  PROVE  Read' = Read \cup {m} /\ Len(values') = Len(values) + 1
<1>1. values \in Seq(Partitions \X Nat) /\ Len(values) \in Nat
  BY DEF TypeOK
<1>2. Len(values') = Len(values) + 1 /\ values'[Len(values) + 1] = m
      /\ \A i \in 1 .. Len(values) : values'[i] = values[i]
  BY <1>1
<1>3. 1 .. Len(values) + 1 = (1 .. Len(values)) \cup {Len(values) + 1}
  BY <1>1
<1>4. \A x : x \in Read' <=> \E i \in 1 .. Len(values) + 1 : x = values'[i]
  BY <1>2 DEF Read
<1>5. \A x : x \in Read <=> \E i \in 1 .. Len(values) : x = values[i]
  BY DEF Read
<1>6. ASSUME NEW x \in Read' PROVE x \in Read \cup {m}
  <2>1. PICK i \in 1 .. Len(values) + 1 : x = values'[i]
    BY <1>4, <1>6
  <2>2. CASE i \in 1 .. Len(values)
    BY <1>2, <1>5, <2>1, <2>2
  <2>3. CASE i = Len(values) + 1
    BY <1>2, <2>1, <2>3
  <2> QED BY <1>3, <2>2, <2>3
<1>7. ASSUME NEW x \in Read \cup {m} PROVE x \in Read'
  <2>1. CASE x = m
    BY <1>1, <1>2, <1>4, <2>1
  <2>2. CASE x \in Read
    <3>1. PICK i \in 1 .. Len(values) : x = values[i]
      BY <1>5, <2>2
    <3>2. i \in 1 .. Len(values) + 1 /\ x = values'[i]
      BY <1>2, <1>3, <3>1
    <3> QED BY <1>4, <3>2
  <2> QED BY <1>7, <2>1, <2>2
<1> QED
  BY <1>2, <1>6, <1>7

\* What the next message of a partition is.
LEMMA NextMessage ==
  ASSUME TypeOK, NEW p \in Assigned, PollMessage(p)
  PROVE  \E i \in Nat :
           /\ p \in Partitions
           /\ i \in Deliverable(p) /\ \A j \in Deliverable(p) : i <= j
           /\ position' = [position EXCEPT ![p] = i + 1]
           /\ values' = IF log[p][i] = "tombstone" THEN values ELSE Append(values, <<p, i>>)
<1>1. p \in Partitions
  BY KafkaAssumption DEF Assigned, TypeOK, Partitions
<1>2. Deliverable(p) \in SUBSET Nat /\ Deliverable(p) # {}
  BY <1>1 DEF Deliverable, TypeOK, PollMessage
<1>3. Min(Deliverable(p)) \in Deliverable(p) /\ \A j \in Deliverable(p) : Min(Deliverable(p)) <= j
  BY <1>2, MinOfNat
<1> QED
  BY <1>1, <1>2, <1>3 DEF PollMessage

LEMMA GatheredInit == Init => Gathered
<1> SUFFICES ASSUME Init PROVE Gathered
  OBVIOUS
<1>1. values = <<>> /\ Len(values) = 0 /\ finished = {} /\ asked = 0 /\ outcome = "none" /\ ~ warned
  BY DEF Init
<1>2. Read = {}
  BY <1>1 DEF Read
<1> QED
  BY <1>1, <1>2, FS_EmptySet DEF Gathered

\* A message comes from where its partition has not been read, so it is new.
LEMMA GatheredStep == TypeOK /\ Grown /\ Gathered /\ [Next]_vars => Gathered'
<1> SUFFICES ASSUME TypeOK, Grown, Gathered, [Next]_vars PROVE Gathered'
  OBVIOUS
<1>1. ASSUME UNCHANGED <<offsets, position, values, finished>>,
             pc' = pc \/ pc' \in {"closing", "closed"} \/ (pc = "offsets" /\ pc' = "reading"),
             pc' \in {"offsets", "reading"} => UNCHANGED <<outcome, warned>>
      PROVE  Gathered'
  <2>1. Read' = Read /\ Assigned' = Assigned
    BY <1>1 DEF Read, Assigned, offsets
  <2>2. pc' \in {"offsets", "reading"} => pc \in {"offsets", "reading"}
    BY <1>1
  <2>3. pc' = "offsets" => pc = "offsets"
    BY <1>1
  <2> QED BY <1>1, <2>1, <2>2, <2>3 DEF Gathered, offsets
<1>2. CASE AskWatermarks
  <2> DEFINE p == asked + 1
  <2>1. /\ pc = "offsets" /\ asked \in Nat /\ p \in Partitions /\ asked' = p
        /\ low' = [low EXCEPT ![p] = start[p]]
        /\ position' = [position EXCEPT ![p] = start[p] + 1]
        /\ UNCHANGED <<pc, outcome, values, finished, warned>>
    BY <1>2 DEF AskWatermarks, TypeOK
  <2>2. values = <<>> /\ finished = {} /\ Read = {} /\ Read' = {} /\ outcome = "none" /\ ~ warned
    BY <2>1 DEF Gathered, Read
  <2> HIDE DEF p
  <2>3. ASSUME NEW q \in 1 .. asked' PROVE position'[q] = low'[q] + 1
    <3>1. q \in Partitions /\ (q # p => q \in 1 .. asked)
      <4>1. q \in 1 .. asked + 1
        BY <2>1 DEF p
      <4> QED BY <2>1, <4>1, KafkaAssumption DEF Partitions, p
    <3>2. CASE q = p
      BY <2>1, <3>1, <3>2 DEF TypeOK
    <3>3. CASE q # p
      <4>1. position[q] = low[q] + 1
        BY <2>1, <3>1, <3>3 DEF Gathered
      <4>2. position'[q] = position[q] /\ low'[q] = low[q]
        BY <2>1, <3>1, <3>3 DEF TypeOK
      <4> QED BY <4>1, <4>2
    <3> QED BY <3>2, <3>3
  <2>4. IsFiniteSet(Read') /\ Cardinality(Read') = Len(values')
    <3>1. Len(values') = 0
      BY <2>1, <2>2
    <3> QED BY <2>2, <3>1, FS_EmptySet
  <2> QED
    BY <2>1, <2>2, <2>3, <2>4 DEF Gathered
<1>3. ASSUME NEW p \in Assigned, PollMessage(p) PROVE Gathered'
  <2>1. PICK i \in Nat :
          /\ p \in Partitions
          /\ i \in Deliverable(p)
          /\ position' = [position EXCEPT ![p] = i + 1]
          /\ values' = IF log[p][i] = "tombstone" THEN values ELSE Append(values, <<p, i>>)
    BY <1>3, NextMessage
  <2>2. pc = "reading" /\ UNCHANGED <<offsets, pc, outcome, finished, warned>> /\ Assigned' = Assigned
    BY <1>3 DEF PollMessage, offsets, Assigned
  <2>3. i >= position[p] /\ position[p] \in Nat
    BY <2>1 DEF Deliverable, TypeOK
  <2>4. Read \subseteq Partitions \X Nat
    BY DEF Read, TypeOK
  <2>5. ASSUME NEW m \in Partitions \X Nat, m[2] < position[m[1]] PROVE m[2] < position'[m[1]]
    BY <2>1, <2>3, <2>5 DEF TypeOK
  <2>6. CASE values' = values
    <3>1. Read' = Read
      BY <2>6 DEF Read
    <3> QED BY <2>2, <2>4, <2>5, <2>6, <3>1 DEF Gathered, offsets
  <2>7. CASE values' = Append(values, <<p, i>>)
    <3>1. <<p, i>> \in Partitions \X Nat
      BY <2>1
    <3>2. Read' = Read \cup {<<p, i>>} /\ Len(values') = Len(values) + 1
      BY <2>7, <3>1, ReadAppended
    <3>3. <<p, i>> \notin Read
      BY <2>3 DEF Gathered
    <3>4. IsFiniteSet(Read') /\ Cardinality(Read') = Cardinality(Read) + 1
      BY <3>2, <3>3, FS_AddElement DEF Gathered
    <3>5. i < position'[p]
      BY <2>1 DEF TypeOK
    <3>6. \A m \in Read' : m[2] < position'[m[1]]
      BY <2>4, <2>5, <3>2, <3>5 DEF Gathered
    <3> QED BY <2>2, <3>2, <3>4, <3>6 DEF Gathered
  <2> QED
    BY <2>1, <2>6, <2>7
<1>4. ASSUME NEW p \in Assigned, PollEnd(p) PROVE Gathered'
  <2>1. p \in Partitions
    BY KafkaAssumption DEF Assigned, TypeOK, Partitions
  <2>2. /\ pc = "reading" /\ finished' = finished \cup {p}
        /\ position' = [position EXCEPT ![p] = Len(log[p]) + 1]
        /\ UNCHANGED <<offsets, pc, outcome, values, warned>>
    BY <1>4 DEF PollEnd, EndOffset
  <2>3. Read' = Read /\ Assigned' = Assigned /\ Read \subseteq Partitions \X Nat
    <3>1. Read' = Read
      BY <2>2 DEF Read
    <3>2. Assigned' = Assigned
      BY <2>2 DEF Assigned, offsets
    <3>3. Read \subseteq Partitions \X Nat
      <4>1. values \in Seq(Partitions \X Nat)
        BY DEF TypeOK
      <4> QED BY <4>1 DEF Read
    <3> QED BY <3>1, <3>2, <3>3
  <2>4. \A m \in Read : m[2] < position'[m[1]]
    <3>1. position[p] <= Len(log[p]) + 1 /\ position[p] \in Nat /\ Len(log[p]) \in Nat
      BY <2>1 DEF Grown, TypeOK
    <3> QED BY <2>1, <2>2, <2>3, <3>1 DEF Gathered, TypeOK
  <2> QED
    BY <2>2, <2>3, <2>4 DEF Gathered
<1>5. ASSUME NEW p \in Partitions, Produce(p) \/ Expire(p) PROVE Gathered'
  BY <1>1, <1>5 DEF Produce, Expire, progress
<1>6. CASE Assign
  BY <1>1, <1>6 DEF Assign, progress, Gathered
<1>7. CASE Fail
  BY <1>1, <1>7 DEF Fail, progress
<1>8. CASE PollNothing
  BY <1>1, <1>8 DEF PollNothing
<1>9. CASE PollPastDeadline \/ StopReading
  BY <1>1, <1>9 DEF PollPastDeadline, StopReading, Return, progress
<1>10. CASE Close
  BY <1>1, <1>10 DEF Close, progress
<1>11. CASE UNCHANGED vars
  BY <1>1, <1>11 DEF vars, progress, offsets
<1> QED
  BY <1>2, <1>3, <1>4, <1>5, <1>6, <1>7, <1>8, <1>9, <1>10, <1>11 DEF Next, Reader, Broker

\* A write changes nothing that was there before.
LEMMA LogKept ==
  ASSUME TypeOK, NEW p \in Partitions, Produce(p), NEW q \in Partitions, NEW i \in 1 .. Len(log[q])
  PROVE  log'[q][i] = log[q][i] /\ Len(log'[q]) >= Len(log[q])
<1>1. PICK r \in Records : log' = [log EXCEPT ![p] = Append(@, r)]
  BY DEF Produce
<1>2. log \in [Partitions -> Seq(Records)]
  BY DEF TypeOK
<1>3. CASE q = p
  <2>1. log'[q] = Append(log[q], r) /\ log[q] \in Seq(Records)
    BY <1>1, <1>2, <1>3
  <2> QED BY <2>1
<1>4. CASE q # p
  BY <1>1, <1>2, <1>4
<1> QED
  BY <1>3, <1>4

\* Nor does it change what the watermarks promised.
LEMMA SnapshotKept ==
  ASSUME TypeOK, Grown, NEW p \in Partitions, Produce(p) \/ Expire(p)
  PROVE  Snapshot' = Snapshot /\ SnapshotValues' = SnapshotValues
<1>1. low' = low /\ high' = high
  BY DEF Produce, Expire, offsets
<1>2. Snapshot' = Snapshot
  BY <1>1 DEF Snapshot
<1>3. CASE Expire(p)
  BY <1>2, <1>3 DEF Expire, SnapshotValues
<1>4. CASE Produce(p)
  <2>1. ASSUME NEW m \in Snapshot PROVE log'[m[1]][m[2]] = log[m[1]][m[2]]
    <3>1. m[1] \in Partitions /\ m[2] \in 1 .. MaxOffset /\ m[2] <= high[m[1]]
      BY DEF Snapshot
    <3>2. high[m[1]] <= Len(log[m[1]]) /\ high[m[1]] \in Nat /\ Len(log[m[1]]) \in Nat
      BY <3>1 DEF Grown, TypeOK
    <3>3. m[2] \in 1 .. Len(log[m[1]])
      BY <3>1, <3>2, KafkaAssumption
    <3> QED BY <1>4, <3>1, <3>3, LogKept
  <2> QED BY <1>2, <2>1 DEF SnapshotValues
<1> QED
  BY <1>2, <1>3, <1>4

LEMMA AuthenticInit == Init => Authentic
<1> SUFFICES ASSUME Init PROVE Authentic
  OBVIOUS
<1>1. Read = {}
  BY DEF Init, Read
<1> QED BY <1>1 DEF Authentic

\* What is read was there to be read, and is not written over.
LEMMA AuthenticStep == TypeOK /\ Grown /\ Gathered /\ Authentic /\ [Next]_vars => Authentic'
<1> SUFFICES ASSUME TypeOK, Grown, Gathered, Authentic, [Next]_vars PROVE Authentic'
  OBVIOUS
<1>1. CASE UNCHANGED <<log, low, values>>
  BY <1>1 DEF Authentic, Read
<1>2. CASE AskWatermarks
  <2>1. values' = <<>>
    BY <1>2 DEF AskWatermarks, Gathered
  <2>2. Read' = {}
    BY <2>1 DEF Read
  <2> QED BY <2>2 DEF Authentic
<1>3. ASSUME NEW p \in Assigned, PollMessage(p) PROVE Authentic'
  <2>1. PICK i \in Nat :
          /\ p \in Partitions
          /\ i \in Deliverable(p)
          /\ values' = IF log[p][i] = "tombstone" THEN values ELSE Append(values, <<p, i>>)
    BY <1>3, NextMessage
  <2>2. log' = log /\ low' = low
    BY <1>3 DEF PollMessage, broker, offsets
  <2>3. CASE values' = values
    BY <1>1, <2>2, <2>3
  <2>4. CASE values' # values
    <3>1. log[p][i] # "tombstone" /\ values' = Append(values, <<p, i>>) /\ <<p, i>> \in Partitions \X Nat
      BY <2>1, <2>4
    <3>2. Read' = Read \cup {<<p, i>>}
      BY <3>1, ReadAppended
    <3>3. i \in 1 .. Len(log[p]) /\ low[p] < i /\ log[p][i] # "gap"
      <4>1. i \in position[p] .. Len(log[p]) /\ i > start[p] /\ log[p][i] # "gap"
        BY <2>1 DEF Deliverable
      <4>2. low[p] <= start[p] /\ low[p] \in Nat /\ start[p] \in Nat /\ Len(log[p]) \in Nat
        BY <2>1 DEF Grown, TypeOK
      <4> QED BY <4>1, <4>2
    <3>4. log[p][i] \in Records
      <4>1. log[p] \in Seq(Records)
        BY <2>1 DEF TypeOK
      <4> QED BY <3>3, <4>1
    <3>5. log[p][i] = "value"
      BY <3>1, <3>3, <3>4 DEF Records
    <3> QED BY <2>1, <2>2, <3>2, <3>3, <3>5 DEF Authentic
  <2> QED BY <2>3, <2>4
<1>4. ASSUME NEW p \in Partitions, Produce(p) PROVE Authentic'
  <2>1. Read' = Read /\ low' = low
    BY <1>4 DEF Produce, Read, progress, offsets
  <2>2. ASSUME NEW m \in Read
        PROVE  m[2] \in 1 .. Len(log'[m[1]]) /\ log'[m[1]][m[2]] = "value"
    <3>1. m[1] \in Partitions /\ m[2] \in 1 .. Len(log[m[1]]) /\ log[m[1]][m[2]] = "value"
      BY DEF Authentic
    <3>2. log'[m[1]][m[2]] = "value" /\ Len(log'[m[1]]) >= Len(log[m[1]])
      BY <1>4, <3>1, LogKept
    <3>3. log' \in [Partitions -> Seq(Records)]
      BY <1>4, AppendedLog DEF Produce, TypeOK
    <3>4. Len(log'[m[1]]) \in Nat /\ Len(log[m[1]]) \in Nat
      <4>1. log'[m[1]] \in Seq(Records)
        BY <3>1, <3>3
      <4>2. log[m[1]] \in Seq(Records)
        BY <3>1 DEF TypeOK
      <4> QED BY <4>1, <4>2
    <3> QED BY <3>1, <3>2, <3>4
  <2> QED BY <2>1, <2>2 DEF Authentic
<1>5. ASSUME (\E p \in Partitions : Expire(p)) \/ Assign \/ Fail \/ (\E p \in Assigned : PollEnd(p))
             \/ PollNothing \/ PollPastDeadline \/ StopReading \/ Close \/ UNCHANGED vars
      PROVE  UNCHANGED <<log, low, values>>
  BY <1>5 DEF Expire, Assign, Fail, PollEnd, PollNothing, PollPastDeadline, StopReading, Return, Close,
              vars, broker, offsets, progress
<1> QED
  BY <1>1, <1>2, <1>3, <1>4, <1>5 DEF Next, Reader, Broker

\* Before the partitions are assigned nothing is read and nothing is passed.
LEMMA CoveringOffsets == TypeOK /\ Grown /\ Gathered /\ pc = "offsets" => Covering
<1> SUFFICES ASSUME TypeOK, Grown, Gathered, pc = "offsets" PROVE Covering
  OBVIOUS
<1>1. finished = {}
  BY DEF Gathered
<1>2. ASSUME NEW m \in SnapshotValues, m[2] < position[m[1]] PROVE FALSE
  <2>1. m[1] \in Partitions /\ m[2] \in Nat /\ low[m[1]] < m[2] /\ m[2] <= high[m[1]]
    BY <1>2, KafkaAssumption DEF SnapshotValues, Snapshot
  <2>2. CASE m[1] > asked
    BY <2>1, <2>2 DEF Grown
  <2>3. CASE ~ (m[1] > asked)
    <3>1. m[1] \in 1 .. asked
      BY <2>1, <2>3, KafkaAssumption DEF Partitions, TypeOK
    <3>2. position[m[1]] = low[m[1]] + 1
      BY <3>1 DEF Gathered
    <3>3. low[m[1]] \in Nat
      BY <2>1 DEF TypeOK
    <3> QED BY <1>2, <2>1, <3>2, <3>3
  <2> QED BY <2>2, <2>3
<1> QED
  BY <1>1, <1>2 DEF Covering

\* While retention removes nothing, the messages of a partition that were
\* promised and not read are waiting from its position on.
LEMMA Waiting ==
  ASSUME TypeOK, Grown, start = low, NEW m \in SnapshotValues, m[2] >= position[m[1]]
  PROVE  m[2] \in Deliverable(m[1])
<1>1. m[1] \in Partitions /\ m[2] \in Nat /\ low[m[1]] < m[2] /\ m[2] <= high[m[1]]
      /\ log[m[1]][m[2]] = "value"
  BY KafkaAssumption DEF SnapshotValues, Snapshot
<1>2. /\ start[m[1]] = low[m[1]] /\ high[m[1]] <= Len(log[m[1]])
      /\ high[m[1]] \in Nat /\ Len(log[m[1]]) \in Nat
  BY <1>1 DEF Grown, TypeOK
<1>3. position[m[1]] \in Nat
  BY <1>1 DEF TypeOK
<1>4. m[2] \in position[m[1]] .. Len(log[m[1]])
  BY <1>1, <1>2, <1>3
<1> QED
  BY <1>1, <1>2, <1>4 DEF Deliverable

\* A removal is noticed by comparing the topic with its watermarks.
LEMMA Removed ==
  ASSUME TypeOK, Grown, NEW p \in Partitions, Expire(p)
  PROVE  start' # low'
<1>1. low' = low /\ low[p] \in Nat /\ start[p] \in Nat /\ low[p] <= start[p]
  BY DEF Expire, offsets, TypeOK, Grown
<1>2. start'[p] = start[p] + 1
  BY DEF Expire, TypeOK
<1> QED
  BY <1>1, <1>2

LEMMA CoveringStep ==
  TypeOK /\ Grown /\ Gathered /\ Covering /\ [Next]_vars /\ TypeOK' /\ Grown' /\ Gathered' => Covering'
<1>0. (TypeOK /\ Grown /\ Gathered /\ pc = "offsets" => Covering)'
  BY CoveringOffsets, PTL
<1> SUFFICES ASSUME TypeOK, Grown, Gathered, Covering, [Next]_vars, TypeOK', Grown', Gathered' PROVE Covering'
  OBVIOUS
<1>1. CASE UNCHANGED <<broker, low, high, position, values, finished>>
  <2>1. Read' = Read /\ SnapshotValues' = SnapshotValues
    BY <1>1 DEF broker, Read, SnapshotValues, Snapshot
  <2> QED BY <1>1, <2>1 DEF Covering, broker
<1>2. CASE AskWatermarks
  <2>1. pc' = "offsets"
    BY <1>2 DEF AskWatermarks
  <2> QED BY <2>1, <1>0
<1>3. ASSUME NEW p \in Assigned, PollMessage(p) PROVE Covering'
  <2> SUFFICES ASSUME start' = low'
               PROVE  /\ \A m \in SnapshotValues' : m[2] < position'[m[1]] => m \in Read'
                      /\ \A q \in finished' : position'[q] > high'[q]
    BY DEF Covering
  <2>1. PICK i \in Nat :
          /\ p \in Partitions
          /\ i \in Deliverable(p) /\ \A j \in Deliverable(p) : i <= j
          /\ position' = [position EXCEPT ![p] = i + 1]
          /\ values' = IF log[p][i] = "tombstone" THEN values ELSE Append(values, <<p, i>>)
    BY <1>3, NextMessage
  <2>2. UNCHANGED <<log, start, low, high, finished>>
    BY <1>3 DEF PollMessage, broker, offsets
  <2>3. start = low /\ SnapshotValues' = SnapshotValues
    BY <2>2 DEF SnapshotValues, Snapshot
  <2>4. /\ \A m \in SnapshotValues : m[2] < position[m[1]] => m \in Read
        /\ \A q \in finished : position[q] > high[q]
    BY <2>3 DEF Covering
  <2>5. i >= position[p] /\ position[p] \in Nat
    BY <2>1 DEF Deliverable, TypeOK
  <2>6. Read' = IF log[p][i] = "tombstone" THEN Read ELSE Read \cup {<<p, i>>}
    <3>1. CASE log[p][i] = "tombstone"
      BY <2>1, <3>1 DEF Read
    <3>2. CASE log[p][i] # "tombstone"
      <4>1. <<p, i>> \in Partitions \X Nat
        BY <2>1
      <4> QED BY <2>1, <3>2, <4>1, ReadAppended
    <3> QED BY <3>1, <3>2
  <2>7. ASSUME NEW m \in SnapshotValues, m[2] < position'[m[1]] PROVE m \in Read'
    <3>1. m[1] \in Partitions /\ m[2] \in Nat /\ m = <<m[1], m[2]>> /\ log[m[1]][m[2]] = "value"
      BY KafkaAssumption DEF SnapshotValues, Snapshot
    <3>2. CASE m[2] < position[m[1]]
      BY <2>4, <2>6, <3>2
    <3>3. CASE ~ (m[2] < position[m[1]])
      <4>1. position[m[1]] \in Nat
        BY <3>1 DEF TypeOK
      <4>2. m[1] = p
        BY <2>1, <2>7, <3>1, <3>3 DEF TypeOK
      <4>3. m[2] >= position[m[1]]
        BY <3>1, <3>3, <4>1
      <4>4. m[2] \in Deliverable(p)
        BY <2>3, <4>2, <4>3, Waiting
      <4>5. position'[p] = i + 1
        BY <2>1 DEF TypeOK
      <4>6. m[2] = i
        BY <2>1, <2>7, <3>1, <4>2, <4>4, <4>5
      <4>7. m = <<p, i>> /\ log[p][i] = "value"
        BY <3>1, <4>2, <4>6
      <4> QED BY <2>6, <4>7
    <3> QED BY <3>2, <3>3
  <2>8. ASSUME NEW q \in finished PROVE position'[q] > high[q]
    <3>1. q \in Partitions /\ position[q] > high[q] /\ position[q] \in Nat /\ high[q] \in Nat
      BY <2>4 DEF TypeOK
    <3>2. position'[q] = position[q] \/ (q = p /\ position'[q] = i + 1)
      BY <2>1, <3>1 DEF TypeOK
    <3>3. position'[q] \in Nat /\ position'[q] >= position[q]
      BY <2>5, <3>1, <3>2
    <3> QED BY <3>1, <3>2, <3>3
  <2> QED BY <2>2, <2>3, <2>7, <2>8
<1>4. ASSUME NEW p \in Assigned, PollEnd(p) PROVE Covering'
  <2> SUFFICES ASSUME start' = low'
               PROVE  /\ \A m \in SnapshotValues' : m[2] < position'[m[1]] => m \in Read'
                      /\ \A q \in finished' : position'[q] > high'[q]
    BY DEF Covering
  <2>1. p \in Partitions
    BY KafkaAssumption DEF Assigned, TypeOK, Partitions
  <2>2. /\ Deliverable(p) = {} /\ finished' = finished \cup {p}
        /\ position' = [position EXCEPT ![p] = Len(log[p]) + 1]
        /\ UNCHANGED <<log, start, low, high, values>>
    BY <1>4 DEF PollEnd, EndOffset, broker, offsets
  <2>3. start = low /\ SnapshotValues' = SnapshotValues /\ Read' = Read
    BY <2>2 DEF SnapshotValues, Snapshot, Read
  <2>4. /\ \A m \in SnapshotValues : m[2] < position[m[1]] => m \in Read
        /\ \A q \in finished : position[q] > high[q]
    BY <2>3 DEF Covering
  <2>5. ASSUME NEW m \in SnapshotValues, m[2] < position'[m[1]] PROVE m \in Read
    <3>1. m[1] \in Partitions /\ m[2] \in Nat
      BY KafkaAssumption DEF SnapshotValues, Snapshot
    <3>2. position[m[1]] \in Nat
      BY <3>1 DEF TypeOK
    <3>3. CASE m[1] = p
      <4>1. ~ (m[2] >= position[m[1]])
        BY <2>2, <2>3, <3>3, Waiting
      <4> QED BY <2>4, <3>1, <3>2, <4>1
    <3>4. CASE m[1] # p
      <4>1. position'[m[1]] = position[m[1]]
        BY <2>2, <3>1, <3>4 DEF TypeOK
      <4> QED BY <2>4, <2>5, <4>1
    <3> QED BY <3>3, <3>4
  <2>6. ASSUME NEW q \in finished' PROVE position'[q] > high[q]
    <3>1. CASE q = p
      <4>1. position'[p] = Len(log[p]) + 1 /\ high[p] <= Len(log[p])
            /\ high[p] \in Nat /\ Len(log[p]) \in Nat
        BY <2>1, <2>2 DEF TypeOK, Grown
      <4> QED BY <3>1, <4>1
    <3>2. CASE q # p
      <4>1. q \in finished /\ position'[q] = position[q]
        BY <2>2, <2>6, <3>2 DEF TypeOK
      <4> QED BY <2>4, <4>1
    <3> QED BY <3>1, <3>2
  <2> QED BY <2>2, <2>3, <2>5, <2>6
<1>5. ASSUME NEW p \in Partitions, Expire(p) PROVE Covering'
  BY <1>5, Removed DEF Covering
<1>6. ASSUME NEW p \in Partitions, Produce(p) PROVE Covering'
  <2>1. UNCHANGED <<start, low, high, position, values, finished>>
    BY <1>6 DEF Produce, offsets, progress
  <2>2. SnapshotValues' = SnapshotValues /\ Read' = Read
    BY <1>6, <2>1, SnapshotKept DEF Read
  <2> QED BY <2>1, <2>2 DEF Covering
<1>7. ASSUME Assign \/ Fail \/ PollNothing \/ PollPastDeadline \/ StopReading \/ Close \/ UNCHANGED vars
      PROVE  Covering'
  BY <1>1, <1>7 DEF Assign, Fail, PollNothing, PollPastDeadline, StopReading, Return, Close, vars,
                    broker, offsets, progress
<1> QED
  BY <1>2, <1>3, <1>4, <1>5, <1>6, <1>7 DEF Next, Reader, Broker

\* The facts a complete read rests on hold throughout.
ReadFacts == Grown /\ Counted /\ Gathered /\ Authentic /\ Covering

LEMMA ReadingFacts == Spec => []ReadFacts
<1>1. Init /\ TypeOK => ReadFacts
  <2>1. Init => pc = "offsets"
    BY DEF Init
  <2> QED BY <2>1, GrownInit, CountedInit, GatheredInit, AuthenticInit, CoveringOffsets DEF ReadFacts
<1>2. ReadFacts /\ TypeOK /\ TypeOK' /\ [Next]_vars => ReadFacts'
  BY GrownStep, CountedStep, GatheredStep, AuthenticStep, CoveringStep DEF ReadFacts
<1> QED
  BY <1>1, <1>2, TypeCorrect, PTL DEF Spec

\* Only assigned partitions hold what was promised.
LEMMA PromisedIsAssigned ==
  ASSUME TypeOK, Grown, NEW m \in Snapshot
  PROVE  m[1] \in Assigned
<1>1. m[1] \in Partitions /\ m[2] \in Nat /\ low[m[1]] < m[2] /\ m[2] <= high[m[1]]
  BY KafkaAssumption DEF Snapshot
<1>2. low[m[1]] \in Nat /\ high[m[1]] \in Nat
  BY <1>1 DEF TypeOK
<1>3. ~ (m[1] > asked)
  BY <1>1, <1>2 DEF Grown
<1>4. m[1] \in 1 .. asked
  BY <1>1, <1>3, KafkaAssumption DEF Partitions, TypeOK
<1> QED
  BY <1>1, <1>2, <1>4 DEF Assigned

\* What was read is what was promised, where no message came late.
LEMMA NothingLate ==
  ASSUME TypeOK, Grown, Authentic, Read \cap Late = {}
  PROVE  Read \subseteq SnapshotValues
<1> SUFFICES ASSUME NEW m \in Read PROVE m \in SnapshotValues
  OBVIOUS
<1>1. /\ m[1] \in Partitions /\ m[2] \in 1 .. Len(log[m[1]]) /\ low[m[1]] < m[2]
      /\ log[m[1]][m[2]] = "value" /\ m = <<m[1], m[2]>>
  <2>1. m \in Partitions \X Nat
    BY DEF Read, TypeOK
  <2> QED BY <2>1 DEF Authentic
<1>2. m[2] <= high[m[1]] /\ Len(log[m[1]]) <= MaxOffset /\ Len(log[m[1]]) \in Nat
  <2>1. high[m[1]] \in Nat /\ m \notin Late
    BY <1>1 DEF TypeOK
  <2> QED BY <1>1, <2>1 DEF Late, Grown, TypeOK
<1> QED
  BY <1>1, <1>2, KafkaAssumption DEF SnapshotValues, Snapshot

\* When every partition ended, or as many messages as were promised have come,
\* and none of them late, all of them have come.
LEMMA WholeAtLast ==
  ASSUME TypeOK, ReadFacts, start = low, Read \cap Late = {}, ~ ReadMore, ~ Report
  PROVE  Read = SnapshotValues
<1> USE DEF ReadFacts
<1>1. Read \subseteq SnapshotValues
  BY NothingLate
<1>2. /\ IsFiniteSet(Assigned) /\ Cardinality(Assigned) \in Nat
      /\ Cardinality(finished) \in Nat /\ Cardinality(finished) <= Cardinality(Assigned)
      /\ Cardinality(finished) = Cardinality(Assigned) => finished = Assigned
  <2>1. IsFiniteSet(1 .. asked)
    BY FS_Interval DEF TypeOK
  <2>2. IsFiniteSet(Assigned)
    BY <2>1, FS_Subset DEF Assigned
  <2>3. finished \subseteq Assigned
    BY DEF Gathered
  <2> QED BY <2>2, <2>3, FS_Subset, FS_CardinalityType
<1>3. CASE Cardinality(finished) >= Cardinality(Assigned)
  <2>1. finished = Assigned
    BY <1>2, <1>3
  <2>2. ASSUME NEW m \in SnapshotValues PROVE m \in Read
    <3>1. m \in Snapshot /\ m[1] \in Partitions /\ m[2] \in Nat /\ m[2] <= high[m[1]]
      BY KafkaAssumption DEF SnapshotValues, Snapshot
    <3>2. position[m[1]] > high[m[1]]
      BY <2>1, <3>1, PromisedIsAssigned DEF Covering
    <3>3. high[m[1]] \in Nat /\ position[m[1]] \in Nat
      BY <3>1 DEF TypeOK
    <3> QED BY <3>1, <3>2, <3>3 DEF Covering
  <2> QED BY <1>1, <2>2
<1>4. CASE Len(values) >= Limit
  <2>1. Len(values) >= expected
    BY <1>4, KafkaAssumption DEF Report, Limit, TypeOK
  <2>2. Read \subseteq Snapshot
    BY <1>1 DEF SnapshotValues
  <2>3. IsFiniteSet(Snapshot) /\ Cardinality(Snapshot) = expected
    BY DEF Counted
  <2>4. Cardinality(Read) = Len(values) /\ Len(values) \in Nat
    BY DEF Gathered, TypeOK
  <2>5. /\ Cardinality(Read) <= Cardinality(Snapshot)
        /\ Cardinality(Read) = Cardinality(Snapshot) => Read = Snapshot
    BY <2>2, <2>3, FS_Subset
  <2>6. Read = Snapshot
    BY <2>1, <2>3, <2>4, <2>5 DEF TypeOK
  <2> QED BY <1>1, <2>6 DEF SnapshotValues
<1>5. Len(values) \in Nat /\ Limit \in Int
  BY KafkaAssumption DEF TypeOK, Limit
<1> QED
  BY <1>2, <1>3, <1>4, <1>5 DEF ReadMore

LEMMA WholeStep == TypeOK /\ ReadFacts /\ ReadIsWhole /\ [Next]_vars => ReadIsWhole'
<1> SUFFICES ASSUME TypeOK, ReadFacts, ReadIsWhole, [Next]_vars PROVE ReadIsWhole'
  OBVIOUS
<1> USE DEF ReadFacts
<1>1. ASSUME UNCHANGED <<low, high, values>>, SnapshotValues' = SnapshotValues
      PROVE  Read' = Read /\ Late' = Late
  BY <1>1 DEF Read, Late
<1>2. CASE UNCHANGED <<broker, low, high, values, outcome, warned>>
  BY <1>1, <1>2 DEF ReadIsWhole, broker, SnapshotValues, Snapshot
<1>3. ASSUME NEW p \in Partitions, Expire(p) PROVE ReadIsWhole'
  BY <1>3, Removed DEF ReadIsWhole
<1>4. ASSUME NEW p \in Partitions, Produce(p) PROVE ReadIsWhole'
  <2>1. UNCHANGED <<start, outcome, warned, low, high, values>>
    BY <1>4 DEF Produce, offsets, progress
  <2>2. SnapshotValues' = SnapshotValues
    BY <1>4, SnapshotKept
  <2> QED BY <1>1, <2>1, <2>2 DEF ReadIsWhole
<1>5. ASSUME outcome' # "complete" PROVE ReadIsWhole'
  BY <1>5 DEF ReadIsWhole
<1>6. ASSUME AskWatermarks \/ (\E p \in Assigned : PollMessage(p) \/ PollEnd(p)) \/ PollNothing
      PROVE  outcome' # "complete"
  BY <1>6 DEF AskWatermarks, PollMessage, PollEnd, PollNothing, Gathered
<1>7. ASSUME Fail \/ PollPastDeadline PROVE outcome' # "complete"
  BY <1>7 DEF Fail, PollPastDeadline, Return
<1>8. CASE Assign
  <2>1. CASE Assigned = {}
    <3>1. SnapshotValues = {} /\ Read = {}
      BY <1>8, <2>1, PromisedIsAssigned DEF Assign, Gathered, Read, SnapshotValues
    <3>2. SnapshotValues' = {} /\ Read' = {}
      BY <1>8, <3>1 DEF Assign, broker, offsets, progress, Read, SnapshotValues, Snapshot
    <3> QED BY <3>2 DEF ReadIsWhole
  <2>2. CASE Assigned # {}
    BY <1>2, <1>8, <2>2 DEF Assign, broker, offsets, progress
  <2> QED BY <2>1, <2>2
<1>9. CASE StopReading
  <2>1. UNCHANGED <<broker, low, high, values>> /\ ~ ReadMore /\ warned' = Report
    BY <1>9 DEF StopReading, Return, offsets, progress
  <2>2. SnapshotValues' = SnapshotValues
    BY <2>1 DEF broker, SnapshotValues, Snapshot
  <2> QED BY <1>1, <2>1, <2>2, WholeAtLast DEF ReadIsWhole, broker
<1>10. CASE Close
  BY <1>2, <1>10 DEF Close, broker, offsets, progress
<1>11. CASE UNCHANGED vars
  BY <1>2, <1>11 DEF vars, broker
<1> QED
  BY <1>3, <1>4, <1>5, <1>6, <1>7, <1>8, <1>9, <1>10, <1>11 DEF Next, Reader, Broker

\* Producers may go on writing while a read runs: it returns every message that
\* was there, unless a message that came late took the place of one, or the run
\* says that it read only a sample (kafka.py:163-190).
THEOREM OnlyLateMessagesDisplace == Spec => []ReadIsWhole
<1>1. Init => ReadIsWhole
  BY DEF Init, ReadIsWhole
<1> QED
  BY <1>1, WholeStep, ReadingFacts, TypeCorrect, PTL DEF Spec

\* A read that ran to its end over a topic nobody changed returns every message
\* that was there, or the run says that it read only a sample
\* (kafka.py:163-190).
THEOREM QuietReadReturnsAll == Spec => []QuietReadIsWhole
<1>1. TypeOK /\ ReadFacts /\ ReadIsWhole => QuietReadIsWhole
  <2> SUFFICES ASSUME TypeOK, ReadFacts, ReadIsWhole, outcome = "complete", Quiet, ~ warned
               PROVE  Read = SnapshotValues
    BY DEF QuietReadIsWhole
  <2>1. start = low
    BY DEF Quiet, TypeOK
  <2>2. Read \cap Late = {}
    <3>1. ASSUME NEW m \in Read PROVE m \notin Late
      <4>1. m[1] \in Partitions /\ m[2] \in 1 .. Len(log[m[1]])
        BY DEF ReadFacts, Authentic
      <4>2. Len(log[m[1]]) = high[m[1]] /\ high[m[1]] \in Nat
        BY <4>1 DEF Quiet, TypeOK
      <4> QED BY <4>1, <4>2 DEF Late
    <3> QED BY <3>1
  <2> QED BY <2>1, <2>2 DEF ReadIsWhole
<1> QED
  BY <1>1, OnlyLateMessagesDisplace, ReadingFacts, TypeCorrect, PTL

\* The end last reported for a partition is not past its end.
Reported == \A p \in Partitions : eof[p] <= Len(log[p]) + 1

LEMMA ReportedStep == TypeOK /\ Reported /\ [Next]_vars => Reported'
<1> SUFFICES ASSUME TypeOK, Reported, [Next]_vars PROVE Reported'
  OBVIOUS
<1>1. CASE UNCHANGED <<log, eof>>
  BY <1>1 DEF Reported
<1>2. ASSUME NEW p \in Partitions, Produce(p) PROVE Reported'
  <2>1. PICK r \in Records : log' = [log EXCEPT ![p] = Append(@, r)] /\ eof' = eof
    BY <1>2 DEF Produce, progress
  <2>2. ASSUME NEW q \in Partitions PROVE eof'[q] <= Len(log'[q]) + 1
    <3>1. log[q] \in Seq(Records) /\ eof[q] \in Nat /\ eof[q] <= Len(log[q]) + 1
      BY DEF TypeOK, Reported
    <3>2. log'[q] = log[q] \/ log'[q] = Append(log[q], r)
      BY <2>1 DEF TypeOK
    <3> QED BY <2>1, <3>1, <3>2
  <2> QED BY <2>2 DEF Reported
<1>3. ASSUME NEW p \in Assigned, PollEnd(p) PROVE Reported'
  BY <1>3 DEF PollEnd, EndOffset, broker, Reported, TypeOK
<1>4. UNCHANGED <<log, eof>> \/ (\E p \in Partitions : Produce(p)) \/ (\E p \in Assigned : PollEnd(p))
  BY DEF Next, Reader, Broker, Expire, AskWatermarks, Assign, Fail, PollMessage, PollNothing,
         PollPastDeadline, StopReading, Return, Close, vars, broker, offsets, progress
<1> QED
  BY <1>1, <1>2, <1>3, <1>4

\* What a poll takes from a partition takes the reader further in it.
LEMMA PollGetsOn ==
  ASSUME TypeOK, Grown, Reported, NEW p \in Assigned, PollMessage(p) \/ PollEnd(p)
  PROVE  pc' = pc /\ NoneBack /\ \E q \in Partitions : Further(q)
<1>1. p \in Partitions /\ position[p] \in Nat /\ eof[p] \in Nat /\ Len(log[p]) \in Nat
  BY KafkaAssumption DEF Assigned, TypeOK, Partitions
<1>2. CASE PollMessage(p)
  <2>1. PICK i \in Nat : i \in Deliverable(p) /\ position' = [position EXCEPT ![p] = i + 1]
    BY <1>2, NextMessage
  <2>2. i >= position[p]
    BY <1>1, <2>1 DEF Deliverable
  <2>3. pc' = pc /\ eof' = eof
    BY <1>2 DEF PollMessage
  <2>4. position'[p] = i + 1 /\ \A q \in Partitions \ {p} : position'[q] = position[q]
    BY <1>1, <2>1 DEF TypeOK
  <2>5. \A q \in Partitions : position[q] \in Nat /\ eof[q] \in Nat
    BY DEF TypeOK
  <2>6. NoneBack
    BY <1>1, <2>2, <2>3, <2>4, <2>5 DEF NoneBack
  <2> QED BY <1>1, <2>2, <2>3, <2>4, <2>6 DEF Further
<1>3. CASE PollEnd(p)
  <2>1. /\ pc' = pc /\ eof[p] # Len(log[p]) + 1
        /\ eof' = [eof EXCEPT ![p] = Len(log[p]) + 1]
        /\ position' = [position EXCEPT ![p] = Len(log[p]) + 1]
    BY <1>3 DEF PollEnd, EndOffset
  <2>2. position[p] <= Len(log[p]) + 1 /\ eof[p] <= Len(log[p]) + 1
    BY <1>1 DEF Grown, Reported
  <2>3. /\ eof'[p] = Len(log[p]) + 1 /\ position'[p] = Len(log[p]) + 1
        /\ \A q \in Partitions \ {p} : position'[q] = position[q] /\ eof'[q] = eof[q]
    BY <1>1, <2>1 DEF TypeOK
  <2>4. \A q \in Partitions : position[q] \in Nat /\ eof[q] \in Nat
    BY DEF TypeOK
  <2>5. NoneBack
    BY <1>1, <2>2, <2>3, <2>4 DEF NoneBack
  <2> QED BY <1>1, <2>1, <2>2, <2>3, <2>5 DEF Further
<1> QED
  BY <1>2, <1>3

LEMMA GetsOnStep ==
  ASSUME TypeOK, Grown, Reported, Reader
  PROVE  \/ Stage[pc'] > Stage[pc]
         \/ pc' = pc /\ asked' > asked
         \/ pc' = pc /\ NoneBack /\ \E p \in Partitions : Further(p)
         \/ UNCHANGED <<pc, position, eof>> /\ idle' > idle
<1>1. CASE AskWatermarks
  BY <1>1 DEF AskWatermarks, TypeOK
<1>2. CASE Assign \/ Fail \/ PollPastDeadline \/ StopReading \/ Close
  BY <1>2 DEF Assign, Fail, PollPastDeadline, StopReading, Return, Close, Stage
<1>3. CASE PollNothing
  BY <1>3 DEF PollNothing, TypeOK
<1>4. CASE \E p \in Assigned : PollMessage(p) \/ PollEnd(p)
  BY <1>4, PollGetsOn
<1> QED
  BY <1>1, <1>2, <1>3, <1>4 DEF Reader

\* Every step of the reader gets on with the read, also while producers and
\* retention go on: it takes at most three changes of stage, one step for each
\* partition to be asked, one for each offset and each end of a partition up to
\* MaxOffset, and between two of them no more than IdlePolls (kafka.py:142-177).
THEOREM ReaderGetsOn == Spec => GetsOn
<1>1. Init => Reported
  <2> SUFFICES ASSUME Init, NEW p \in Partitions PROVE eof[p] <= Len(log[p]) + 1
    BY DEF Reported
  <2>1. eof[p] = 0 /\ Len(log[p]) \in Nat
    BY KafkaAssumption DEF Init
  <2> QED BY <2>1
<1>2. Spec => []Reported
  BY <1>1, ReportedStep, TypeCorrect, PTL DEF Spec
<1>3. ASSUME TypeOK, Grown, Reported
      PROVE  [Reader =>
                \/ Stage[pc'] > Stage[pc]
                \/ pc' = pc /\ asked' > asked
                \/ pc' = pc /\ NoneBack /\ \E p \in Partitions : Further(p)
                \/ UNCHANGED <<pc, position, eof>> /\ idle' > idle]_vars
  BY <1>3, GetsOnStep
<1> QED
  BY <1>2, <1>3, ReadingFacts, TypeCorrect, PTL DEF ReadFacts, GetsOn

LEMMA SampleStep ==
  TypeOK /\ Paced /\ Counted /\ Gathered /\ SampleIsPartial /\ [Next]_vars => SampleIsPartial'
<1> SUFFICES ASSUME TypeOK, Paced, Counted, Gathered, SampleIsPartial, [Next]_vars
             PROVE  SampleIsPartial'
  OBVIOUS
<1>1. CASE UNCHANGED <<low, high, values, warned>>
  BY <1>1 DEF SampleIsPartial, Snapshot
<1>2. ASSUME AskWatermarks \/ (\E p \in Assigned : PollMessage(p) \/ PollEnd(p)) \/ PollNothing
      PROVE  SampleIsPartial'
  <2>1. ~ warned'
    BY <1>2 DEF AskWatermarks, PollMessage, PollEnd, PollNothing, Gathered
  <2> QED BY <2>1 DEF SampleIsPartial
<1>3. ASSUME PollPastDeadline \/ StopReading PROVE SampleIsPartial'
  <2>1. pc = "reading" /\ warned' = Report /\ UNCHANGED <<low, high, values>>
    BY <1>3 DEF PollPastDeadline, StopReading, Return, offsets, progress
  <2>2. ASSUME Report PROVE Len(values) = MaxMessages /\ Cardinality(Snapshot) > MaxMessages
    <3>1. Len(values) \in Nat /\ Len(values) <= Limit
      BY <2>1 DEF Paced, TypeOK
    <3> QED BY <2>2, <3>1, KafkaAssumption DEF Report, Limit, Counted, TypeOK
  <2>3. Snapshot' = Snapshot
    BY <2>1 DEF Snapshot
  <2> QED BY <2>1, <2>2, <2>3 DEF SampleIsPartial
<1>4. ASSUME Assign \/ Fail \/ Close \/ UNCHANGED vars \/ (\E p \in Partitions : Produce(p) \/ Expire(p))
      PROVE  UNCHANGED <<low, high, values, warned>>
  BY <1>4 DEF Assign, Fail, Close, Produce, Expire, vars, offsets, progress
<1> QED
  BY <1>1, <1>2, <1>3, <1>4 DEF Next, Reader, Broker

\* The sample warning is given only for a read that stopped at the limit with
\* offsets of the topic left (kafka.py:185).
THEOREM SampleWarningIsRight == Spec => []SampleIsPartial
<1>1. Init => SampleIsPartial
  BY DEF Init, SampleIsPartial
<1> QED
  BY <1>1, SampleStep, PacedIsInductive, ReadingFacts, TypeCorrect, PTL DEF Spec, ReadFacts
=============================================================================
