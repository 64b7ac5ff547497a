------------------------------ MODULE KafkaRead ------------------------------
(***************************************************************************)
(* The batch read of a Kafka topic (engines/ibis/connections/kafka.py,     *)
(* consume_topic): the watermarks of every partition are asked for one     *)
(* after the other, then the partitions are polled until as many messages  *)
(* arrived as the watermarks promised, until every partition reported its  *)
(* end, or until no message arrived for the idle timeout.                  *)
(*                                                                         *)
(* Producers and the retention of the topic run concurrently.  A partition *)
(* is the sequence of what was ever written to it; offset i is its i-th    *)
(* element.  The clock is the number of polls that returned nothing: each  *)
(* waits one second.                                                       *)
(***************************************************************************)
EXTENDS Integers, Sequences, FiniteSets, FiniteSetsExt

CONSTANTS
  NumPartitions,  \* the partitions are 1 .. NumPartitions, asked in this order
  MaxOffset,      \* bound: how many records a partition may ever hold
  MaxMessages,    \* DATACONTRACT_KAFKA_MAX_MESSAGES, 0 when it is not set
  IdlePolls       \* the idle timeout, in polls of one second

ASSUME KafkaAssumption ==
  /\ NumPartitions \in Nat \ {0}
  /\ MaxOffset \in Nat
  /\ MaxMessages \in Nat
  /\ IdlePolls \in Nat

Partitions == 1 .. NumPartitions

\* A record holds a value, is a compaction tombstone, or occupies an offset
\* that is never delivered (compacted away, or a transaction marker).
Records == {"value", "tombstone", "gap"}

VARIABLES
  log,        \* what was written to each partition
  start,      \* how many records of each partition retention has removed
  pc,         \* where the reader is
  outcome,    \* how the read ended
  asked,      \* the watermarks of partitions 1 .. asked are known
  low, high,  \* the watermarks: offsets low[p]+1 .. high[p] were there
  expected,   \* how many offsets the watermarks span
  position,   \* the next offset to deliver from each partition
  eof,        \* the end offset last reported for each partition, 0 for none
  values,     \* the messages read, as <<partition, offset>>
  finished,   \* the partitions whose end was reported
  idle,       \* empty polls since the deadline was set
  warned      \* the run says that only a sample was read

broker == <<log, start>>
offsets == <<asked, low, high, expected>>
progress == <<position, eof, values, finished, idle>>
vars == <<log, start, pc, outcome, asked, low, high, expected, position, eof,
          values, finished, idle, warned>>

-----------------------------------------------------------------------------
(* Only partitions that hold messages are assigned.  The definitions named *)
(* Broken... are plausible mistakes the properties must catch.             *)
BrokenAssigned == {p \in 1 .. asked : high[p] > low[p] + 1}
Assigned == {p \in 1 .. asked : high[p] > low[p]}

Limit == IF MaxMessages # 0 /\ MaxMessages < expected THEN MaxMessages ELSE expected

BrokenReadMore == Len(values) <= Limit /\ Cardinality(finished) < Cardinality(Assigned)
ReadMore == Len(values) < Limit /\ Cardinality(finished) < Cardinality(Assigned)

\* What the consumer could still deliver from p: a position that retention
\* has overtaken is reset to the earliest offset left.
Deliverable(p) ==
  {i \in position[p] .. Len(log[p]) : i > start[p] /\ log[p][i] # "gap"}

EndOffset(p) == Len(log[p]) + 1

Init ==
  /\ log \in [Partitions -> UNION {[1 .. n -> Records] : n \in 0 .. MaxOffset}]
  /\ start = [p \in Partitions |-> 0]
  /\ pc = "offsets"
  /\ outcome = "none"
  /\ asked = 0
  /\ low = [p \in Partitions |-> 0]
  /\ high = [p \in Partitions |-> 0]
  /\ expected = 0
  /\ position = [p \in Partitions |-> 1]
  /\ eof = [p \in Partitions |-> 0]
  /\ values = <<>>
  /\ finished = {}
  /\ idle = 0
  /\ warned = FALSE

-----------------------------------------------------------------------------
(* The broker's side, independent of the reader.                           *)

Produce(p) ==
  /\ Len(log[p]) < MaxOffset
  /\ \E r \in Records : log' = [log EXCEPT ![p] = Append(@, r)]
  /\ UNCHANGED <<start, pc, outcome, warned, offsets, progress>>

Expire(p) ==
  /\ start[p] < Len(log[p])
  /\ start' = [start EXCEPT ![p] = @ + 1]
  /\ UNCHANGED <<log, pc, outcome, warned, offsets, progress>>

-----------------------------------------------------------------------------
(* The reader's side.                                                      *)

AskWatermarks ==
  LET p == asked + 1 IN
  /\ pc = "offsets"
  /\ p \in Partitions
  /\ asked' = p
  /\ low' = [low EXCEPT ![p] = start[p]]
  /\ high' = [high EXCEPT ![p] = Len(log[p])]
  /\ expected' = expected + (Len(log[p]) - start[p])
  /\ position' = [position EXCEPT ![p] = start[p] + 1]
  /\ UNCHANGED <<broker, pc, outcome, eof, values, finished, idle, warned>>

Assign ==
  /\ pc = "offsets"
  /\ asked = NumPartitions
  /\ IF Assigned = {}
       THEN pc' = "closing" /\ outcome' = "complete"
       ELSE pc' = "reading" /\ UNCHANGED outcome
  /\ UNCHANGED <<broker, offsets, progress, warned>>

\* The topic is missing, the broker does not answer, or a poll reports an
\* error: the exception leaves through the finally that closes the consumer.
Fail ==
  /\ \/ pc = "offsets"
     \/ pc = "reading" /\ ReadMore
  /\ pc' = "closing"
  /\ outcome' = "failed"
  /\ UNCHANGED <<broker, offsets, progress, warned>>

PollMessage(p) ==
  /\ pc = "reading" /\ ReadMore
  /\ Deliverable(p) # {}
  /\ LET i == Min(Deliverable(p)) IN
       /\ position' = [position EXCEPT ![p] = i + 1]
       /\ values' = IF log[p][i] = "tombstone" THEN values ELSE Append(values, <<p, i>>)
  /\ idle' = 0
  /\ UNCHANGED <<broker, offsets, pc, outcome, eof, finished, warned>>

\* The end of a partition is an event of its own, once per end reached.
PollEnd(p) ==
  /\ pc = "reading" /\ ReadMore
  /\ Deliverable(p) = {}
  /\ eof[p] # EndOffset(p)
  /\ eof' = [eof EXCEPT ![p] = EndOffset(p)]
  /\ position' = [position EXCEPT ![p] = EndOffset(p)]
  /\ finished' = finished \cup {p}
  /\ idle' = 0
  /\ UNCHANGED <<broker, offsets, pc, outcome, values, warned>>

BrokenWithinDeadline == TRUE
WithinDeadline == idle < IdlePolls

\* Every poll sets the deadline anew, whether or not a message arrived.
BrokenPollNothing ==
  /\ pc = "reading" /\ ReadMore
  /\ idle' = IF idle = 0 THEN 1 ELSE 0
  /\ UNCHANGED <<broker, offsets, pc, outcome, position, eof, values, finished, warned>>

\* A poll may return nothing although messages are waiting: the broker is slow.
PollNothing ==
  /\ pc = "reading" /\ ReadMore
  /\ WithinDeadline
  /\ idle' = idle + 1
  /\ UNCHANGED <<broker, offsets, pc, outcome, position, eof, values, finished, warned>>

BrokenReport == MaxMessages # 0 /\ Len(values) >= MaxMessages
Report == MaxMessages # 0 /\ Len(values) >= MaxMessages /\ MaxMessages < expected

Return(how) ==
  /\ pc' = "closing"
  /\ outcome' = how
  /\ warned' = Report
  /\ UNCHANGED <<broker, offsets, progress>>

PollPastDeadline ==
  /\ pc = "reading" /\ ReadMore
  /\ ~ WithinDeadline
  /\ Return("idle")

StopReading ==
  /\ pc = "reading" /\ ~ ReadMore
  /\ Return("complete")

Close ==
  /\ pc = "closing"
  /\ pc' = "closed"
  /\ UNCHANGED <<broker, offsets, progress, outcome, warned>>

-----------------------------------------------------------------------------
Reader ==
  \/ AskWatermarks
  \/ Assign
  \/ Fail
  \/ \E p \in Assigned : PollMessage(p)
  \/ \E p \in Assigned : PollEnd(p)
  \/ PollNothing
  \/ PollPastDeadline
  \/ StopReading
  \/ Close

Broker == \E p \in Partitions : Produce(p) \/ Expire(p)

Next == Reader \/ Broker

Spec == Init /\ [][Next]_vars

\* Only the reading thread is scheduled fairly: nothing obliges a producer.
FairSpec == Spec /\ WF_vars(Reader)

-----------------------------------------------------------------------------
TypeOK ==
  /\ log \in [Partitions -> Seq(Records)]
  /\ start \in [Partitions -> Nat]
  /\ pc \in {"offsets", "reading", "closing", "closed"}
  /\ outcome \in {"none", "complete", "idle", "failed"}
  /\ asked \in 0 .. NumPartitions
  /\ low \in [Partitions -> Nat]
  /\ high \in [Partitions -> Nat]
  /\ expected \in Int
  /\ position \in [Partitions -> Nat]
  /\ eof \in [Partitions -> Nat]
  /\ values \in Seq(Partitions \X Nat)
  /\ finished \subseteq Partitions
  /\ idle \in 0 .. IdlePolls
  /\ warned \in BOOLEAN

\* The offsets a partition held when its watermarks were asked for.
Snapshot == {m \in Partitions \X (1 .. MaxOffset) : low[m[1]] < m[2] /\ m[2] <= high[m[1]]}

SnapshotValues == {m \in Snapshot : log[m[1]][m[2]] = "value"}

Read == {values[i] : i \in 1 .. Len(values)}

\* No record was written to or removed from the topic since its watermarks.
Quiet == \A p \in Partitions : start[p] = low[p] /\ Len(log[p]) = high[p]

\* Memory is bounded: the read never holds more messages than the watermarks
\* promised nor than DATACONTRACT_KAFKA_MAX_MESSAGES allows, whatever is
\* produced meanwhile (kafka.py:157-163).
BoundedRead ==
  /\ Len(values) <= Limit \/ pc = "offsets"
  /\ MaxMessages # 0 => Len(values) <= MaxMessages

\* What makes that inductive: retention never passes the end of a partition,
\* so the watermarks promise at least nothing, and the reading only starts
\* once they are all known.
Paced ==
  /\ \A p \in Partitions : start[p] <= Len(log[p])
  /\ expected >= 0
  /\ IF pc = "offsets" THEN values = <<>> ELSE Len(values) <= Limit

\* A read that ran to its end over a topic nobody changed returns every
\* message that was there, in whatever order the partitions answered, unless
\* the run says that it read only a sample (kafka.py:163-190).
QuietReadIsWhole ==
  outcome = "complete" /\ Quiet => Read = SnapshotValues \/ warned

\* A message written after the watermarks of its partition were asked for.
Late == {m \in Partitions \X Nat : m[2] > high[m[1]]}

\* Producers may go on writing: what a read that ran to its end returns is what
\* was there, unless it returns a message that came late, of which one counted
\* for one that was there (kafka.py:163), or the run says that it is a sample.
ReadIsWhole ==
  outcome = "complete" /\ ~ warned /\ start = low =>
    Read = SnapshotValues \/ Read \cap Late # {}

\* The sample warning is given only for a read that stopped at the limit with
\* offsets of the topic left (kafka.py:185).
SampleIsPartial ==
  warned => Len(values) = MaxMessages /\ Cardinality(Snapshot) > MaxMessages

\* "Every partition is read from its earliest offset up to the latest offset
\* at the time the run starts" (docs/reference/kafka.md:40), when retention
\* removes nothing and neither timeout nor sample limit cut the read short.
EveryPartitionIsRead ==
  outcome = "complete" /\ ~ warned /\ start = low => SnapshotValues \subseteq Read

\* Why a read ends: each step of the reader takes it to its next stage, or asks
\* for one more partition, or gets further in one and back in none, or waits one
\* of the polls of the idle timeout.  A partition cannot report the same end again
\* (kafka.py:142-177).
Stage == [offsets |-> 0, reading |-> 1, closing |-> 2, closed |-> 3]
Further(p) == position'[p] > position[p] \/ eof'[p] > eof[p]
NoneBack == \A p \in Partitions : position'[p] >= position[p] /\ eof'[p] >= eof[p]
GetsOn ==
  [][Reader =>
       \/ Stage[pc'] > Stage[pc]
       \/ pc' = pc /\ asked' > asked
       \/ pc' = pc /\ NoneBack /\ \E p \in Partitions : Further(p)
       \/ UNCHANGED <<pc, position, eof>> /\ idle' > idle]_vars

\* The read always ends and the consumer is always closed, with a broker that
\* is slow, silent or failing, and with producers that keep writing
\* (kafka.py:160-193).
ReadEnds == <>(pc = "closed")
=============================================================================
