---------------------------- MODULE OutageProofs ----------------------------
(***************************************************************************)
(* Proofs about the agent's loop and the collector's event table while the *)
(* collector comes and goes, for every size of the buffer, any pods,       *)
(* events and caps.                                                        *)
(*                                                                         *)
(* A sample is dropped only at a tick, from the head of a full buffer.     *)
(* What makes the property inductive is the state of the buffer between    *)
(* two ticks: a flush by an agent that reaches the collector either        *)
(* empties it or stops at a sample that cannot be accepted, so that this   *)
(* one is the head.                                                        *)
(***************************************************************************)
EXTENDS Outage, FiniteSetTheorems, TLAPS

(***************************************************************************)
(* The buffer.                                                             *)
(***************************************************************************)
\* What a tick does to the buffer: one sample more, or the head less.
LEMMA TickedBuffer ==
    ASSUME NEW q \in Seq(Sample), Len(q) <= BufferSize, NEW s \in Sample
    PROVE  LET r == Newest(Append(q, s))
           IN  /\ r \in Seq(Sample) /\ Len(r) <= BufferSize /\ Len(r) >= 1 /\ r[Len(r)] = s
               /\ \/ /\ Len(r) = Len(q) + 1
                     /\ \A i \in 1..Len(q) : r[i] = q[i]
                  \/ /\ Len(r) = Len(q) /\ Len(q) = BufferSize
                     /\ \A i \in 1..(Len(q) - 1) : r[i] = q[i + 1]
  <1>. USE BufferAssumption
  <1>. DEFINE a == Append(q, s)
  <1>1. /\ Len(q) \in Nat /\ a \in Seq(Sample) /\ Len(a) = Len(q) + 1
        /\ \A i \in 1..Len(q) : a[i] = q[i]
        /\ a[Len(q) + 1] = s
    OBVIOUS
  <1>2. CASE Len(q) < BufferSize
    <2>1. Newest(a) = a
      BY <1>1, <1>2 DEF Newest
    <2>. QED  BY <1>1, <1>2, <2>1
  <1>3. CASE Len(q) = BufferSize
    <2>1. Newest(a) = SubSeq(a, 2, Len(a))
      BY <1>1, <1>3 DEF Newest
    <2>2. /\ SubSeq(a, 2, Len(a)) \in Seq(Sample)
          /\ Len(SubSeq(a, 2, Len(a))) = Len(q)
          /\ \A i \in 1..Len(q) : SubSeq(a, 2, Len(a))[i] = a[i + 1]
      BY <1>1, <1>3
    <2>. QED  BY <1>1, <1>3, <2>1, <2>2
  <1>. QED  BY <1>1, <1>2, <1>3

LEMMA TailFacts ==
    ASSUME NEW q \in Seq(Sample), q # <<>>
    PROVE  /\ Tail(q) \in Seq(Sample) /\ Len(Tail(q)) = Len(q) - 1 /\ Len(q) >= 1
           /\ \A i \in 1..(Len(q) - 1) : Tail(q)[i] = q[i + 1]
           /\ Head(q) = q[1] /\ Head(q) \in Sample
  OBVIOUS

(***************************************************************************)
(* The agent.                                                              *)
(***************************************************************************)
\* Between two ticks, what the flush has left behind.
HeldUp == phase = "idle" /\ Watched(buffer) => ~Head(buffer).acceptable

AgentInv ==
    /\ TypeOK
    /\ phase = "wait" => buffer # <<>>
    /\ fate = "buffered" <=> Watched(buffer)
    /\ \A i, j \in DOMAIN buffer : buffer[i].watched /\ buffer[j].watched => i = j
    /\ clean => up /\ HeldUp

LEMMA AgentInvInit == ASSUME Init PROVE AgentInv
  <1>1. buffer = <<>> /\ phase = "idle" /\ fate = "untaken" /\ ~clean /\ up \in BOOLEAN
    BY DEF Init, AgentInit
  <1>2. clean \in BOOLEAN
    BY DEF Init
  <1>3. buffer \in Seq(Sample) /\ Len(buffer) = 0 /\ DOMAIN buffer = {}
    BY <1>1
  <1>4. TypeOK
    BY <1>1, <1>2, <1>3, BufferAssumption DEF TypeOK, Phase, Fate
  <1>. QED  BY <1>1, <1>3, <1>4 DEF AgentInv, Watched

LEMMA TickKeepsInv == ASSUME AgentInv, NEW s \in Sample, Tick(s) PROVE AgentInv'
  <1>1. buffer \in Seq(Sample) /\ Len(buffer) <= BufferSize /\ Len(buffer) \in Nat
    BY DEF AgentInv, TypeOK
  <1>2. buffer' = Newest(Append(buffer, s)) /\ phase' = "flush" /\ up' = up
    BY DEF Tick, TakeSample
  <1>3. TypeOK'
    <2>1. fate' \in Fate /\ clean' \in BOOLEAN
      BY DEF Tick, AgentInv, TypeOK, Fate
    <2>. QED  BY <1>1, <1>2, <2>1, TickedBuffer DEF TypeOK, Phase, AgentInv
  <1>4. s.watched => ~Watched(buffer)
    BY DEF Tick, AgentInv
  <1>5. ASSUME NEW i \in DOMAIN buffer', NEW j \in DOMAIN buffer',
               buffer'[i].watched, buffer'[j].watched
        PROVE  i = j
    <2>1. \A k, l \in 1..Len(buffer) : buffer[k].watched /\ buffer[l].watched => k = l
      BY <1>1 DEF AgentInv
    <2>2. s.watched => \A k \in 1..Len(buffer) : ~buffer[k].watched
      BY <1>1, <1>4 DEF Watched
    <2>3. /\ DOMAIN buffer' = 1..Len(buffer') /\ Len(buffer') \in Nat /\ Len(buffer') >= 1
          /\ buffer'[Len(buffer')] = s
      <3>1. buffer' \in Seq(Sample) /\ Len(buffer') >= 1 /\ buffer'[Len(buffer')] = s
        BY <1>1, <1>2, TickedBuffer
      <3>. QED  BY <3>1
    <2>4. CASE Len(buffer') = Len(buffer) + 1 /\ \A k \in 1..Len(buffer) : buffer'[k] = buffer[k]
      BY <1>1, <1>5, <2>1, <2>2, <2>3, <2>4
    <2>5. CASE Len(buffer') = Len(buffer)
               /\ \A k \in 1..(Len(buffer) - 1) : buffer'[k] = buffer[k + 1]
      BY <1>1, <1>5, <2>1, <2>2, <2>3, <2>5
    <2>. QED  BY <1>1, <1>2, <2>4, <2>5, TickedBuffer
  <1>6. fate' = "buffered" <=> Watched(buffer')
    BY DEF Tick, AgentInv
  <1>7. clean' => up'
    <2>1. clean' = (IF s.watched THEN up ELSE clean) /\ (clean => up)
      BY DEF Tick, AgentInv
    <2>2. CASE s.watched
      BY <1>2, <2>1, <2>2
    <2>3. CASE ~s.watched
      BY <1>2, <2>1, <2>3
    <2>. QED  BY <2>2, <2>3
  <1>. QED  BY <1>2, <1>3, <1>5, <1>6, <1>7 DEF AgentInv, HeldUp

LEMMA AcceptedKeepsInv == ASSUME AgentInv, phase = "wait", Accepted PROVE AgentInv'
  <1>1. buffer \in Seq(Sample) /\ buffer # <<>> /\ Len(buffer) <= BufferSize /\ Len(buffer) \in Nat
    BY DEF AgentInv, TypeOK
  <1>2. buffer' = Tail(buffer) /\ phase' = "flush" /\ UNCHANGED <<up, clean>>
    BY DEF Accepted, PostSucceeds
  <1>3. TypeOK'
    BY <1>1, <1>2, TailFacts, BufferAssumption DEF TypeOK, Phase, Fate, AgentInv, Accepted
  <1>4. \A i, j \in DOMAIN buffer' : buffer'[i].watched /\ buffer'[j].watched => i = j
    BY <1>1, <1>2, TailFacts DEF AgentInv
  <1>5. fate' = "buffered" <=> Watched(buffer')
    <2>1. CASE Head(buffer).watched
      BY <1>1, <1>2, <2>1, TailFacts DEF Accepted, AgentInv, Watched
    <2>2. CASE ~Head(buffer).watched
      <3>1. fate' = fate
        BY <2>2 DEF Accepted
      <3>2. Watched(buffer) => Watched(buffer')
        <4>. SUFFICES ASSUME NEW i \in DOMAIN buffer, buffer[i].watched PROVE Watched(buffer')
          BY DEF Watched
        <4>1. i # 1 /\ i - 1 \in 1..(Len(buffer) - 1)
          BY <1>1, <2>2, TailFacts
        <4>2. Tail(buffer)[i - 1] = buffer[i] /\ i - 1 \in DOMAIN Tail(buffer)
          BY <1>1, <4>1, TailFacts
        <4>. QED  BY <1>2, <4>2 DEF Watched
      <3>3. Watched(buffer') => Watched(buffer)
        BY <1>1, <1>2, TailFacts DEF Watched
      <3>. QED  BY <3>1, <3>2, <3>3 DEF AgentInv
    <2>. QED  BY <2>1, <2>2
  <1>. QED  BY <1>2, <1>3, <1>4, <1>5 DEF AgentInv, HeldUp

LEMMA FailedKeepsInv == ASSUME AgentInv, phase = "wait", Failed PROVE AgentInv'
  BY DEF AgentInv, Failed, PostFails, TypeOK, Phase, HeldUp, Watched

LEMMA RestKeepsInv ==
    ASSUME AgentInv, Post \/ StopFlush \/ CollectorGoes \/ CollectorComes \/ UNCHANGED vars
    PROVE  AgentInv'
  <1>. USE DEF AgentInv, TypeOK, Phase, HeldUp, Watched
  <1>1. CASE Post
    BY <1>1 DEF Post, BeginPost
  <1>2. CASE StopFlush
    BY <1>2 DEF StopFlush, EndFlush
  <1>3. CASE CollectorGoes
    BY <1>3 DEF CollectorGoes
  <1>4. CASE CollectorComes
    BY <1>4 DEF CollectorComes
  <1>5. CASE UNCHANGED vars
    BY <1>5 DEF vars
  <1>. QED  BY <1>1, <1>2, <1>3, <1>4, <1>5

LEMMA RestartKeepsInv == ASSUME AgentInv, Restart PROVE AgentInv'
  BY BufferAssumption DEF AgentInv, Restart, LoseBuffer, TypeOK, Phase, Fate, HeldUp, Watched

LEMMA AgentInvStep == ASSUME AgentInv, [Next]_vars PROVE AgentInv'
  BY TickKeepsInv, AcceptedKeepsInv, FailedKeepsInv, RestKeepsInv, RestartKeepsInv
     DEF Next, Answer

(***************************************************************************)
(* The event table.                                                        *)
(***************************************************************************)
LEMMA LogInitType == ASSUME LogInit PROVE LogTypeOK
  BY EventLogAssumption DEF LogInit, LogTypeOK, Node, CapPhase

LEMMA ClusterStepType ==
    ASSUME LogTypeOK, NEW u \in Uids, Happen(u) \/ Expire(u)
    PROVE  LogTypeOK'
  <1>. USE DEF LogTypeOK, Node, capVars, clusterVars
  <1>1. CASE Happen(u)
    <2>1. api' \in [Uids -> Node \cup {NoEvent}]
      BY <1>1 DEF Happen
    <2>2. due' \in [Uids -> Node \cup {NoEvent}]
      BY <1>1, <2>1 DEF Happen
    <2>. QED  BY <1>1, <2>1, <2>2 DEF Happen
  <1>2. CASE Expire(u)
    BY <1>2 DEF Expire
  <1>. QED  BY <1>1, <1>2

LEMMA InformerStepType ==
    ASSUME LogTypeOK, NEW u \in Uids, Put(u) \/ PutFails(u) \/ PruneEvent(u)
    PROVE  LogTypeOK'
  <1>. USE DEF LogTypeOK, Node, capVars, clusterVars
  <1>1. CASE Put(u)
    <2>1. NodeOf(due[u]) \in Node
      BY <1>1 DEF Put, NodeOf
    <2>. QED  BY <1>1, <2>1 DEF Put
  <1>2. CASE PutFails(u)
    BY <1>2 DEF PutFails
  <1>3. CASE PruneEvent(u)
    BY <1>3 DEF PruneEvent
  <1>. QED  BY <1>1, <1>2, <1>3

LEMMA CapStepType ==
    ASSUME LogTypeOK, CapStarts \/ EnforceSizeCap
    PROVE  LogTypeOK'
  <1>. USE EventLogAssumption DEF LogTypeOK, Node, clusterVars, CapPhase
  <1>1. CASE CapStarts
    BY <1>1 DEF CapStarts
  <1>2. CASE CapMeasures
    BY <1>2 DEF CapMeasures
  <1>3. CASE CapDropsSnapshots
    BY <1>3 DEF CapDropsSnapshots
  <1>4. CASE CapDropsEvents
    BY <1>4 DEF CapDropsEvents
  <1>5. CASE CapFails
    BY <1>5 DEF CapFails
  <1>. QED  BY <1>1, <1>2, <1>3, <1>4, <1>5 DEF EnforceSizeCap

LEMMA LogStepType == ASSUME LogTypeOK, LogStep PROVE LogTypeOK'
  <1>1. ASSUME NEW n \in Node, Move(n) PROVE LogTypeOK'
    BY <1>1 DEF Move, LogTypeOK, capVars
  <1>2. ASSUME NEW u \in Uids, Happen(u) \/ Expire(u) PROVE LogTypeOK'
    BY <1>2, ClusterStepType
  <1>3. ASSUME NEW u \in Uids, Put(u) \/ PutFails(u) \/ PruneEvent(u) PROVE LogTypeOK'
    BY <1>3, InformerStepType
  <1>4. ASSUME SyncPods \/ Resync PROVE LogTypeOK'
    BY <1>4 DEF SyncPods, Resync, LogTypeOK, capVars, clusterVars
  <1>. QED  BY <1>1, <1>2, <1>3, <1>4, CapStepType DEF LogStep

(***************************************************************************)
(* Both.                                                                   *)
(***************************************************************************)
OutageInv == AgentInv /\ LogTypeOK

LEMMA AnswerStoredType == ASSUME LogTypeOK, AnswerStored PROVE LogTypeOK'
  <1>1. up' = up
    BY DEF AnswerStored, Answer, Accepted, Failed
  <1>2. snaps' \in 0..MaxSnaps
    BY EventLogAssumption DEF AnswerStored, AddSnapshot, LogTypeOK
  <1>. QED  BY <1>1, <1>2 DEF AnswerStored, LogTypeOK, clusterVars

\* Next to the event table the agent's loop takes the steps it takes alone.
LEMMA AgentAlone == ASSUME [OutageNext]_allVars PROVE [Next]_vars
  BY DEF OutageNext, AgentStep, AnswerStored, Next, allVars

LEMMA OutageStep == ASSUME OutageInv, [OutageNext]_allVars PROVE OutageInv'
  <1>1. AgentInv'
    BY AgentAlone, AgentInvStep DEF OutageInv
  <1>2. LogTypeOK'
    <2>1. CASE AgentStep /\ UNCHANGED logVars
      BY <2>1 DEF OutageInv, LogTypeOK, logVars
    <2>2. CASE AnswerStored
      BY <2>2, AnswerStoredType DEF OutageInv
    <2>3. CASE LogStep
      BY <2>3, LogStepType DEF OutageInv
    <2>4. CASE CollectorGoes /\ LogStops
      BY <2>4 DEF OutageInv, LogTypeOK, CollectorGoes, LogStops, clusterVars, Node, CapPhase
    <2>5. CASE CollectorComes /\ LogStarts
      BY <2>5 DEF OutageInv, LogTypeOK, CollectorComes, LogStarts, clusterVars, capVars
    <2>6. CASE UNCHANGED allVars
      BY <2>6 DEF OutageInv, LogTypeOK, allVars, logVars
    <2>. QED  BY <2>1, <2>2, <2>3, <2>4, <2>5, <2>6 DEF OutageNext
  <1>. QED  BY <1>1, <1>2 DEF OutageInv

LEMMA OutageInvAlways == OutageSpec => []OutageInv
  <1>1. OutageInit => OutageInv
    BY AgentInvInit, LogInitType DEF OutageInit, OutageInv
  <1>2. OutageInv /\ [OutageNext]_allVars => OutageInv'
    BY OutageStep
  <1>. QED  BY <1>1, <1>2, PTL DEF OutageSpec

\* The watched sample is dropped at a tick, and was the head of the buffer.
LEMMA DroppedIsHead ==
    ASSUME AgentInv, [Next]_vars, fate' = "dropped", fate # "dropped"
    PROVE  phase = "idle" /\ buffer # <<>> /\ Head(buffer).watched
  <1>1. PICK s \in Sample : Tick(s)
    BY DEF Next, Post, StopFlush, Answer, Accepted, Failed, Restart, CollectorGoes,
           CollectorComes, vars
  <1>2. buffer \in Seq(Sample) /\ Len(buffer) <= BufferSize /\ Len(buffer) \in Nat
    BY DEF AgentInv, TypeOK
  <1>3. Watched(buffer) /\ ~Watched(buffer') /\ buffer' = Newest(Append(buffer, s))
    BY <1>1 DEF Tick, TakeSample
  <1>4. PICK i \in 1..Len(buffer) : buffer[i].watched
    BY <1>2, <1>3 DEF Watched
  <1>5. buffer' \in Seq(Sample) /\ \A k \in 1..Len(buffer') : ~buffer'[k].watched
    <2>1. buffer' \in Seq(Sample)
      BY <1>2, <1>3, TickedBuffer
    <2>. QED  BY <1>3, <2>1 DEF Watched
  <1>6. i = 1
    <2>1. CASE Len(buffer') = Len(buffer) + 1 /\ \A k \in 1..Len(buffer) : buffer'[k] = buffer[k]
      BY <1>2, <1>4, <1>5, <2>1
    <2>2. CASE Len(buffer') = Len(buffer)
               /\ \A k \in 1..(Len(buffer) - 1) : buffer'[k] = buffer[k + 1]
      <3>. SUFFICES ASSUME i # 1 PROVE FALSE
        OBVIOUS
      <3>1. i - 1 \in 1..(Len(buffer) - 1) /\ (i - 1) + 1 = i
        BY <1>2
      <3>2. buffer'[i - 1] = buffer[i] /\ i - 1 \in 1..Len(buffer')
        BY <1>2, <2>2, <3>1
      <3>. QED  BY <1>4, <1>5, <3>2
    <2>. QED  BY <1>2, <1>3, <2>1, <2>2, TickedBuffer
  <1>7. buffer # <<>> /\ Head(buffer) = buffer[1]
    BY <1>2, <1>4
  <1>. QED  BY <1>1, <1>4, <1>6, <1>7 DEF Tick, TakeSample

\* The variables of the agent's loop, of the event table and of the size cap keep
\* their types: among others, no batch takes more rows than there are.
THEOREM OutageTypes == OutageSpec => []OutageTypeOK
  <1>1. OutageInv => OutageTypeOK
    BY DEF OutageInv, AgentInv, OutageTypeOK
  <1>. QED  BY <1>1, OutageInvAlways, PTL

\* While the collector is reachable, the only samples that an overflow discards
\* are those the collector would not accept, whatever the size of the buffer
\* and however many of them are in the way.
THEOREM OverflowSparesAcceptable == OutageSpec => OnlyUnacceptableDropped
  <1>1. OutageInv /\ [OutageNext]_allVars =>
            [fate' = "dropped" /\ fate # "dropped" =>
                ~clean \/ \E i \in DOMAIN buffer : buffer[i].watched /\ ~buffer[i].acceptable]_vars
    <2>. SUFFICES ASSUME AgentInv, [Next]_vars, fate' = "dropped", fate # "dropped", clean
                  PROVE  \E i \in DOMAIN buffer : buffer[i].watched /\ ~buffer[i].acceptable
      BY AgentAlone DEF OutageInv
    <2>1. phase = "idle" /\ buffer # <<>> /\ Head(buffer).watched
      BY DroppedIsHead
    <2>2. buffer \in Seq(Sample) /\ 1 \in DOMAIN buffer /\ Head(buffer) = buffer[1]
      BY <2>1 DEF AgentInv, TypeOK
    <2>3. ~Head(buffer).acceptable
      BY <2>1, <2>2 DEF AgentInv, HeldUp, Watched
    <2>. QED  BY <2>1, <2>2, <2>3
  <1>. QED  BY <1>1, OutageInvAlways, PTL DEF OutageSpec, OnlyUnacceptableDropped

(***************************************************************************)
(* Progress.  Under the fairness of OutageSpec these four are why CapEnds, *)
(* NodeSettles, NothingStuck and EventsRecorded hold.                      *)
(***************************************************************************)
Stored == {u \in Uids : events[u] # NoEvent}

\* How many statements EnforceSizeCap has left at most: up to three for each row
\* that may go, and what remains of this round.
CapLeft ==
    3 * (snaps + Cardinality(Stored))
    + (IF cap = "measure" THEN 2 ELSE IF cap = "snapshots" THEN 1 ELSE 0)

NoRowAdded == snaps' <= snaps /\ Stored' \subseteq Stored

LEMMA StoredFinite ==
    ASSUME NEW S \in SUBSET Uids
    PROVE  IsFiniteSet(S) /\ Cardinality(S) \in Nat
  BY FS_Subset, FS_CardinalityType, EventLogAssumption

LEMMA CapStatement ==
    ASSUME LogTypeOK, EnforceSizeCap
    PROVE  cap' = "idle" \/ CapLeft' < CapLeft
  <1>. DEFINE rows == Cardinality(Stored)
              rowsAfter == Cardinality(Stored')
  <1>1. rows \in Nat /\ rowsAfter \in Nat /\ snaps \in Nat
    BY StoredFinite DEF Stored, LogTypeOK
  <1>2. CASE CapMeasures
    <2>1. cap = "measure" /\ cap' \in {"idle", "snapshots"} /\ UNCHANGED <<snaps, events>>
      BY <1>2 DEF CapMeasures
    <2>2. rowsAfter = rows
      BY <2>1 DEF Stored
    <2>. HIDE DEF rows, rowsAfter
    <2>. QED  BY <1>1, <2>1, <2>2 DEF CapLeft, rows, rowsAfter
  <1>3. CASE CapDropsSnapshots
    <2>1. /\ cap = "snapshots" /\ UNCHANGED events
          /\ \/ cap' = "events" /\ UNCHANGED snaps
             \/ cap' = "measure" /\ snaps' \in 0..(snaps - 1)
      BY <1>3 DEF CapDropsSnapshots
    <2>2. rowsAfter = rows
      BY <2>1 DEF Stored
    <2>. QED  BY <1>1, <2>1, <2>2 DEF CapLeft
  <1>4. CASE CapDropsEvents
    <2>. SUFFICES ASSUME cap' # "idle" PROVE CapLeft' < CapLeft
      OBVIOUS
    <2>1. /\ cap = "events" /\ cap' = "measure" /\ UNCHANGED snaps
          /\ \E U \in (SUBSET Stored) \ {{}} :
                events' = [u \in Uids |-> IF u \in U THEN NoEvent ELSE events[u]]
      BY <1>4 DEF CapDropsEvents, Stored
    <2>. HIDE DEF rows, rowsAfter
    <2>2. PICK U \in SUBSET Stored :
                U # {} /\ events' = [u \in Uids |-> IF u \in U THEN NoEvent ELSE events[u]]
      BY ONLY <2>1
    <2>3. PICK w \in U : w \in Stored
      BY <2>2
    <2>4. Stored' \in SUBSET Stored /\ w \notin Stored'
      BY <2>2, <2>3 DEF Stored
    <2>5. rowsAfter < rows
      <3>. USE DEF rows, rowsAfter
      <3>1. IsFiniteSet(Stored)
        BY StoredFinite DEF Stored
      <3>2. rowsAfter <= rows /\ (rows = rowsAfter => Stored = Stored')
        BY <2>4, <3>1, FS_Subset
      <3>. QED  BY <1>1, <2>3, <2>4, <3>2
    <2>. QED  BY <1>1, <2>1, <2>5 DEF CapLeft, rows, rowsAfter
  <1>. QED  BY <1>2, <1>3, <1>4 DEF EnforceSizeCap, CapFails

\* The size cap's loop gains ground: each of its statements ends it or leaves
\* fewer to come, for any cap and any number of rows, and while it runs nothing
\* else than a row that is stored takes it further from its end.
THEOREM CapGainsGround ==
    OutageSpec =>
        [][/\ EnforceSizeCap => cap' = "idle" \/ CapLeft' < CapLeft
           /\ cap # "idle" /\ NoRowAdded => cap' = "idle" \/ CapLeft' <= CapLeft]_allVars
  <1>1. ASSUME LogTypeOK, LogTypeOK', [OutageNext]_allVars, cap # "idle", NoRowAdded
        PROVE  cap' = "idle" \/ CapLeft' <= CapLeft
    <2>1. /\ Cardinality(Stored) \in Nat /\ Cardinality(Stored') \in Nat
          /\ snaps \in Nat /\ snaps' \in Nat
      BY <1>1, StoredFinite DEF Stored, LogTypeOK
    <2>2. CASE cap' = cap
      <3>1. Cardinality(Stored') <= Cardinality(Stored)
        BY <1>1, StoredFinite, FS_Subset DEF NoRowAdded, Stored
      <3>. QED  BY <1>1, <2>1, <2>2, <3>1 DEF NoRowAdded, CapLeft
    <2>3. CASE cap' # cap
      <3>1. EnforceSizeCap \/ cap' = "idle"
        BY <1>1, <2>3
           DEF OutageNext, AnswerStored, LogStep, LogStops, LogStarts, Move, Happen, Expire, Put,
               PutFails, PruneEvent, SyncPods, Resync, CapStarts, capVars, clusterVars, logVars,
               allVars
      <3>2. CASE EnforceSizeCap
        <4>1. CapLeft' \in Nat /\ CapLeft \in Nat
          BY <2>1 DEF CapLeft
        <4>. QED  BY <1>1, <3>2, <4>1, CapStatement
      <3>. QED  BY <3>1, <3>2
    <2>. QED  BY <2>2, <2>3
  <1>2. OutageInv /\ OutageInv' /\ [OutageNext]_allVars =>
            [/\ EnforceSizeCap => cap' = "idle" \/ CapLeft' < CapLeft
             /\ cap # "idle" /\ NoRowAdded => cap' = "idle" \/ CapLeft' <= CapLeft]_allVars
    BY <1>1, CapStatement DEF OutageInv
  <1>. QED  BY <1>2, OutageInvAlways, PTL DEF OutageSpec

\* The pod runs on n, the collector knows it, and the event is filed there if
\* at all.
SettledOn(n, u) == up /\ pod = n /\ lister = n /\ events[u] \in {n, NoEvent}

\* From then on it stays filed there for as long as the pod and the collector
\* stay, however often it is delivered again, pruned or dropped.
THEOREM SettledStays ==
    OutageSpec =>
        [][\A n \in Nodes, u \in Uids :
            SettledOn(n, u) /\ up' /\ pod' = n => SettledOn(n, u)']_allVars
  <1>1. ASSUME LogTypeOK, [OutageNext]_allVars, NEW n \in Nodes, NEW u \in Uids,
               SettledOn(n, u), up', pod' = n
        PROVE  SettledOn(n, u)'
    <2>. USE DEF SettledOn
    <2>1. n # NoNode
      BY EventLogAssumption
    <2>2. CASE LogStep
      <3>1. CASE \E m \in Node : Move(m)
        BY <1>1, <3>1 DEF Move
      <3>2. CASE \E v \in Uids : Put(v)
        BY <1>1, <2>1, <3>2 DEF Put, NodeOf, LogTypeOK, clusterVars
      <3>3. CASE \E v \in Uids : Happen(v) \/ Expire(v) \/ PutFails(v) \/ PruneEvent(v)
        BY <1>1, <3>3 DEF Happen, Expire, PutFails, PruneEvent, LogTypeOK, clusterVars
      <3>4. CASE SyncPods \/ Resync \/ CapStarts
        BY <1>1, <3>4 DEF SyncPods, Resync, CapStarts, clusterVars
      <3>5. CASE EnforceSizeCap
        BY <1>1, <3>5 DEF EnforceSizeCap, CapMeasures, CapDropsSnapshots, CapDropsEvents, CapFails,
                           clusterVars
      <3>. QED  BY <2>2, <3>1, <3>2, <3>3, <3>4, <3>5 DEF LogStep
    <2>3. CASE UNCHANGED <<up, pod, lister, events>>
      BY <1>1, <2>3
    <2>4. CASE (CollectorGoes /\ LogStops) \/ (CollectorComes /\ LogStarts)
      BY <1>1, <2>4 DEF CollectorGoes, CollectorComes
    <2>. QED  BY <1>1, <2>2, <2>3, <2>4
              DEF OutageNext, AnswerStored, Answer, Accepted, Failed, allVars, logVars, clusterVars
  <1>2. OutageInv /\ [OutageNext]_allVars =>
            [\A n \in Nodes, u \in Uids :
                SettledOn(n, u) /\ up' /\ pod' = n => SettledOn(n, u)']_allVars
    BY <1>1 DEF OutageInv
  <1>. QED  BY <1>2, OutageInvAlways, PTL DEF OutageSpec

\* The watched sample waits at place i of the buffer.
WaitsAt(i) == i \in DOMAIN buffer /\ buffer[i].watched

\* A post is accepted, or a tick finds the buffer full.
MovesUp ==
    \/ phase = "wait" /\ phase' = "flush"
    \/ phase = "idle" /\ phase' = "flush" /\ Len(buffer) = BufferSize

\* Why NothingStuck holds: a sample never falls back in the buffer.  Each accepted
\* post and each tick that finds the buffer full brings it one place nearer to the
\* head, from where it leaves; no failed post and no restart of the collector
\* makes it wait behind another.
THEOREM SamplesMoveUp ==
    OutageSpec =>
        [][\A i \in Nat : WaitsAt(i) =>
            \/ fate' \in {"stored", "dropped", "lost"}
            \/ MovesUp /\ i > 1 /\ WaitsAt(i - 1)'
            \/ ~MovesUp /\ WaitsAt(i)']_allVars
  <1>1. ASSUME AgentInv, [Next]_vars, NEW i \in Nat, WaitsAt(i),
               fate' \notin {"stored", "dropped", "lost"}
        PROVE  \/ MovesUp /\ i > 1 /\ WaitsAt(i - 1)'
               \/ ~MovesUp /\ WaitsAt(i)'
    <2>0. /\ buffer \in Seq(Sample) /\ Len(buffer) <= BufferSize /\ Len(buffer) \in Nat
          /\ i \in 1..Len(buffer) /\ buffer[i].watched /\ BufferSize \in Nat
      BY <1>1, BufferAssumption DEF AgentInv, TypeOK, WaitsAt
    <2>1. ASSUME NEW s \in Sample, Tick(s)
          PROVE  \/ MovesUp /\ i > 1 /\ WaitsAt(i - 1)'
                 \/ ~MovesUp /\ WaitsAt(i)'
      <3>1. /\ buffer' = Newest(Append(buffer, s)) /\ phase = "idle" /\ phase' = "flush"
            /\ Watched(buffer')
        BY <1>1, <2>0, <2>1 DEF Tick, TakeSample, Watched
      <3>2. buffer' \in Seq(Sample) /\ Len(buffer') <= BufferSize /\ buffer'[Len(buffer')] = s
        BY <2>0, <3>1, TickedBuffer
      <3>3. /\ Len(buffer') \in Nat /\ Len(buffer') <= BufferSize
            /\ DOMAIN buffer' = 1..Len(buffer')
            /\ buffer'[Len(buffer')] = s
        BY <3>2
      <3>4. CASE /\ Len(buffer') = Len(buffer) + 1
                 /\ \A k \in 1..Len(buffer) : buffer'[k] = buffer[k]
        <4>1. Len(buffer) # BufferSize /\ i \in DOMAIN buffer' /\ buffer'[i] = buffer[i]
          BY <2>0, <3>3, <3>4
        <4>. QED  BY <2>0, <3>1, <4>1 DEF MovesUp, WaitsAt
      <3>5. CASE /\ Len(buffer') = Len(buffer) /\ Len(buffer) = BufferSize
                 /\ \A k \in 1..(Len(buffer) - 1) : buffer'[k] = buffer[k + 1]
        <4>1. i # 1
          <5>. SUFFICES ASSUME i = 1 PROVE FALSE
            OBVIOUS
          <5>1. ~s.watched
            BY <1>1, <2>0, <2>1 DEF Tick, AgentInv, Watched
          <5>2. PICK j \in 1..Len(buffer') : buffer'[j].watched
            BY <3>1, <3>3 DEF Watched
          <5>3. j \in 1..(Len(buffer) - 1) /\ buffer[j + 1].watched /\ j + 1 \in DOMAIN buffer
            BY <2>0, <3>3, <3>5, <5>1, <5>2
          <5>4. j + 1 = 1
            BY <1>1, <2>0, <5>3 DEF AgentInv
          <5>. QED  BY <5>3, <5>4
        <4>2. i - 1 \in 1..(Len(buffer) - 1) /\ (i - 1) + 1 = i /\ i > 1
          BY <2>0, <4>1
        <4>3. i - 1 \in DOMAIN buffer' /\ buffer'[i - 1] = buffer[i]
          BY <2>0, <3>3, <3>5, <4>2
        <4>. QED  BY <2>0, <3>1, <3>5, <4>2, <4>3 DEF MovesUp, WaitsAt
      <3>. QED  BY <2>0, <3>1, <3>4, <3>5, TickedBuffer
    <2>2. CASE phase = "wait" /\ Accepted
      <3>1. /\ buffer' = Tail(buffer) /\ phase' = "flush" /\ ~Head(buffer).watched
        BY <1>1, <2>2 DEF Accepted, PostSucceeds
      <3>2. buffer # <<>> /\ i # 1
        BY <2>0, <3>1
      <3>3. i - 1 \in 1..(Len(buffer) - 1) /\ (i - 1) + 1 = i /\ i > 1
        BY <2>0, <3>2
      <3>4. i - 1 \in DOMAIN buffer' /\ buffer'[i - 1] = buffer[i]
        BY <2>0, <3>1, <3>2, <3>3, TailFacts
      <3>. QED  BY <2>0, <2>2, <3>1, <3>3, <3>4 DEF MovesUp, WaitsAt
    <2>3. CASE (phase = "wait" /\ Failed) \/ Post \/ StopFlush \/ CollectorGoes \/ CollectorComes
               \/ UNCHANGED vars
      <3>1. buffer' = buffer /\ ~MovesUp
        BY <2>3 DEF Failed, PostFails, Post, BeginPost, StopFlush, EndFlush, CollectorGoes,
                    CollectorComes, vars, MovesUp
      <3>. QED  BY <1>1, <3>1 DEF WaitsAt
    <2>4. CASE Restart
      BY <1>1, <2>0, <2>4 DEF Restart, Watched
    <2>. QED  BY <1>1, <2>1, <2>2, <2>3, <2>4 DEF Next, Answer
  <1>2. OutageInv /\ [OutageNext]_allVars =>
            [\A i \in Nat : WaitsAt(i) =>
                \/ fate' \in {"stored", "dropped", "lost"}
                \/ MovesUp /\ i > 1 /\ WaitsAt(i - 1)'
                \/ ~MovesUp /\ WaitsAt(i)']_allVars
    BY <1>1, AgentAlone DEF OutageInv
  <1>. QED  BY <1>2, OutageInvAlways, PTL DEF OutageSpec

\* The collector has what the API server has: filed, or delivered and to be filed.
Reached(u) == up /\ api[u] # NoEvent => due[u] # NoEvent \/ events[u] # NoEvent

\* Why EventsRecorded holds: an event that is raised while the collector runs, is
\* there when it starts or is delivered again reaches it, and until the API server
\* forgets the event only a statement that fails or a batch of the size cap takes
\* it away: no pruning, and no restart.
THEOREM EventsReach ==
    OutageSpec =>
        [][\A u \in Uids :
            Reached(u) \/ Resync =>
                PutFails(u) \/ CapDropsEvents \/ Reached(u)']_allVars
  <1>1. ASSUME LogTypeOK, [OutageNext]_allVars, NEW u \in Uids, Reached(u),
               ~PutFails(u), ~CapDropsEvents
        PROVE  Reached(u)'
    <2>. USE DEF Reached, clusterVars
    <2>0. /\ api \in [Uids -> Node \cup {NoEvent}] /\ due \in [Uids -> Node \cup {NoEvent}]
          /\ events \in [Uids -> Node \cup {NoEvent}] /\ NoEvent \notin Node
          /\ pod \in Node /\ lister \in Node
      BY <1>1, EventLogAssumption DEF LogTypeOK, Node
    <2>1. ASSUME NEW v \in Uids, Happen(v)  PROVE Reached(u)'
      BY <1>1, <2>0, <2>1 DEF Happen
    <2>2. ASSUME NEW v \in Uids, Put(v)  PROVE Reached(u)'
      <3>1. CASE u = v
        <4>1. due[v] \in Node /\ NodeOf(due[v]) \in Node
          BY <2>0, <2>2 DEF Put, NodeOf
        <4>2. events'[u] # NoEvent
          BY <2>0, <2>2, <3>1, <4>1 DEF Put
        <4>. QED  BY <4>2
      <3>2. CASE u # v
        BY <1>1, <2>0, <2>2, <3>2 DEF Put
      <3>. QED  BY <3>1, <3>2
    <2>3. ASSUME NEW v \in Uids, Expire(v) \/ PutFails(v) \/ PruneEvent(v)  PROVE Reached(u)'
      BY <1>1, <2>0, <2>3 DEF Expire, PutFails, PruneEvent
    <2>4. CASE Resync
      BY <1>1, <2>0, <2>4 DEF Resync
    <2>5. CASE UNCHANGED <<up, api, due, events>>
      BY <1>1, <2>5
    <2>6. CASE (CollectorGoes /\ LogStops) \/ (CollectorComes /\ LogStarts)
      BY <1>1, <2>6 DEF CollectorGoes, CollectorComes, LogStarts
    <2>7. CASE LogStep
      BY <1>1, <2>1, <2>2, <2>3, <2>4, <2>5, <2>7
         DEF LogStep, Move, SyncPods, CapStarts, EnforceSizeCap, CapMeasures, CapDropsSnapshots,
             CapFails, capVars
    <2>. QED  BY <1>1, <2>5, <2>6, <2>7
              DEF OutageNext, AnswerStored, Answer, Accepted, Failed, allVars, logVars, clusterVars
  <1>2. ASSUME LogTypeOK, Resync, NEW u \in Uids  PROVE Reached(u)'
    BY <1>2 DEF Resync, Reached, LogTypeOK, clusterVars
  <1>3. OutageInv /\ [OutageNext]_allVars =>
            [\A u \in Uids :
                Reached(u) \/ Resync =>
                    PutFails(u) \/ CapDropsEvents \/ Reached(u)']_allVars
    BY <1>1, <1>2 DEF OutageInv
  <1>. QED  BY <1>3, OutageInvAlways, PTL DEF OutageSpec
=============================================================================
