---------------------------- MODULE IngestProofs ----------------------------
(***************************************************************************)
(* Proofs about Ingest, for every size of the buffer, any number of        *)
(* requests under way and any readings.                                    *)
(***************************************************************************)
EXTENDS Ingest, FieldsProofs

LEMMA LatestType ==
    ASSUME NEW table \in Seq(Snapshot)
    PROVE  Latest(table) \in ToSet(table) \cup {NoSnapshot}
  BY DEF Latest, LatestIds, ToSet

LEMMA StoredType ==
    ASSUME NEW table \in Seq(Snapshot)
    PROVE  ToSet(table) \subseteq Snapshot
  BY DEF ToSet

\* Appending adds exactly the appended element.
LEMMA AppendSet ==
    ASSUME NEW S, NEW q \in Seq(S), NEW e \in S
    PROVE  ToSet(Append(q, e)) = ToSet(q) \cup {e}
  <1>1. /\ DOMAIN Append(q, e) = 1..(Len(q) + 1)
        /\ \A i \in 1..Len(q) : Append(q, e)[i] = q[i]
        /\ Append(q, e)[Len(q) + 1] = e
        /\ DOMAIN q = 1..Len(q) /\ Len(q) \in Nat
    OBVIOUS
  <1>. QED  BY <1>1 DEF ToSet

LEMMA ChangesType ==
    ASSUME NEW p \in Snapshot \cup {NoSnapshot}, NEW q \in Snapshot
    PROVE  ChangesBetween(p, q) \subseteq Change
  <1>1. CASE p = NoSnapshot
    BY <1>1 DEF ChangesBetween
  <1>2. CASE p # NoSnapshot
    <2>1. p \in Snapshot /\ p.fields \in FieldMap /\ q.fields \in FieldMap /\ q.time \in Nat
      BY <1>2 DEF Snapshot
    <2>2. \A c \in Diff(p.fields, q.fields) :
            c.field \in Keys /\ c.old \in Field /\ c.new \in Field /\ c.severity \in Severity
      BY <2>1, DiffType
    <2>3. {[time |-> q.time, field |-> c.field, old |-> c.old, new |-> c.new,
            severity |-> c.severity] : c \in Diff(p.fields, q.fields)} \subseteq Change
      BY <2>1, <2>2 DEF Change, AnyField
    <2>4. DriverDiff(p, q) \subseteq Change
      BY <2>1 DEF DriverDiff, Change, AnyField, Severity, Snapshot
    <2>. QED  BY <1>2, <2>3, <2>4 DEF ChangesBetween
  <1>. QED  BY <1>1, <1>2

\* Trimming the buffer keeps a sequence of its samples, no longer than its size.
LEMMA NewestType ==
    ASSUME NEW S, NEW q \in Seq(S)
    PROVE  Newest(q) \in Seq(S) /\ Len(Newest(q)) <= BufferSize
  <1>. USE BufferAssumption
  <1>1. Len(q) \in Nat
    OBVIOUS
  <1>2. CASE Len(q) <= BufferSize
    BY <1>1, <1>2 DEF Newest
  <1>3. CASE Len(q) > BufferSize
    <2>1. Newest(q) = SubSeq(q, Len(q) - BufferSize + 1, Len(q))
      BY <1>3 DEF Newest
    <2>2. SubSeq(q, Len(q) - BufferSize + 1, Len(q)) \in Seq(S)
      BY <1>1, <1>3
    <2>3. Len(SubSeq(q, Len(q) - BufferSize + 1, Len(q))) = BufferSize
      BY <1>1, <1>3
    <2>. QED  BY <2>1, <2>2, <2>3
  <1>. QED  BY <1>1, <1>2, <1>3

-----------------------------------------------------------------------------
LEMMA FreeSlotType == FreeSlot \in SlotType
  BY DEF FreeSlot, SlotType, Pc

LEMMA AnsweredType ==
    ASSUME NEW r \in SlotType, NEW o \in Pc
    PROVE  Answered(r, o) \in SlotType
  BY FreeSlotType DEF Answered, SlotType

LEMMA AbandonedType ==
    ASSUME NEW r \in SlotType
    PROVE  Abandoned(r) \in SlotType
  BY FreeSlotType DEF Abandoned, SlotType

LEMMA InitType == Init => TypeOK
  <1>. SUFFICES ASSUME Init PROVE TypeOK
    OBVIOUS
  <1>. QED  BY FreeSlotType DEF Init, AgentInit, TypeOK, Phase

LEMMA StepType == TypeOK /\ Carrying /\ [Next]_vars => TypeOK'
  <1>. SUFFICES ASSUME TypeOK, Carrying, [Next]_vars PROVE TypeOK'
    OBVIOUS
  <1>. USE DEF TypeOK
  <1>1. CASE UNCHANGED vars
    BY <1>1 DEF vars
  <1>2. ASSUME NEW r \in Readings, Tick(r) PROVE TypeOK'
    <2>1. r.driver \in Drivers /\ r.fields \in FieldMap
      BY IngestAssumption
    <2> DEFINE new == [time |-> clock + 1, driver |-> r.driver, fields |-> r.fields]
    <2>2. new \in Snapshot
      BY <2>1 DEF Snapshot
    <2>3. Append(buffer, new) \in Seq(Snapshot)
      BY <2>2
    <2>4. buffer' \in Seq(Snapshot)
      BY <1>2, <2>3, NewestType DEF Tick, TakeSample
    <2>5. TimesIn(buffer) \subseteq Nat
      BY StoredType DEF TimesIn, Snapshot
    <2>6. gone' \subseteq gone \cup TimesIn(buffer) \cup {clock + 1}
      BY <1>2 DEF Tick
    <2>7. gone' \subseteq Nat
      BY <2>5, <2>6
    <2>. QED  BY <1>2, <2>4, <2>7 DEF Tick, TakeSample, Phase
  <1>3. CASE StopFlush
    BY <1>3 DEF StopFlush, EndFlush, Phase
  <1>4. CASE Restart
    <2>1. TimesIn(buffer) \subseteq Nat
      BY StoredType DEF TimesIn, Snapshot
    <2>2. slot' \in [Slots -> SlotType]
      BY <1>4, AbandonedType DEF Restart
    <2>3. gone' \subseteq Nat
      BY <1>4, <2>1 DEF Restart
    <2>4. buffer' \in Seq(Snapshot) /\ phase' \in Phase
      BY <1>4 DEF Restart, LoseBuffer, Phase
    <2>. QED  BY <1>4, <2>2, <2>3, <2>4 DEF Restart
  <1>5. ASSUME NEW s \in Slots, AgentStep(s) PROVE TypeOK'
    <2>1. CASE Send(s)
      <3>1. Head(buffer) \in Snapshot
        BY <2>1 DEF Send, BeginPost
      <3>2. [pc |-> "sent", snap |-> Head(buffer), prev |-> NoSnapshot,
             todo |-> {}, client |-> TRUE] \in SlotType
        BY <3>1 DEF SlotType, Pc
      <3>. QED  BY <2>1, <3>2 DEF Send, BeginPost, Phase
    <2>2. CASE ReceiveAccepted(s)
      <3>1. buffer # <<>> => Tail(buffer) \in Seq(Snapshot)
        OBVIOUS
      <3>2. buffer = <<>> => Tail(buffer) \in Seq(Snapshot)
        OBVIOUS
      <3>. QED  BY <2>2, <3>1, <3>2, FreeSlotType DEF ReceiveAccepted, PostSucceeds, Phase
    <2>3. CASE ReceiveError(s)
      BY <2>3, FreeSlotType DEF ReceiveError, PostFails, Phase
    <2>4. CASE GiveUp(s)
      BY <2>4, AbandonedType DEF GiveUp, PostFails, Phase
    <2>. QED  BY <1>5, <2>1, <2>2, <2>3, <2>4 DEF AgentStep
  <1>6. ASSUME NEW s \in Slots, Handler(s) PROVE TypeOK'
    <2>1. CASE Refuse(s)
      BY <2>1, AnsweredType DEF Refuse, Pc
    <2>2. CASE ReadPrevious(s)
      <3>1. Latest(snapshots) \in Snapshot \cup {NoSnapshot}
        BY LatestType, StoredType
      <3>. QED  BY <2>2, <3>1 DEF ReadPrevious, SlotType, Pc
    <2>3. CASE PutSnapshot(s)
      <3>1. slot[s].snap \in Snapshot /\ slot[s].prev \in Snapshot \cup {NoSnapshot}
        BY <2>3 DEF PutSnapshot, Carrying, SlotType
      <3>2. ChangesBetween(slot[s].prev, slot[s].snap) \subseteq Change
        BY <3>1, ChangesType
      <3>3. snapshots' \in Seq(Snapshot)
        BY <2>3, <3>1 DEF PutSnapshot
      <3>4. slot' \in [Slots -> SlotType]
        BY <2>3, <3>2 DEF PutSnapshot, SlotType, Pc
      <3>. QED  BY <2>3, <3>3, <3>4 DEF PutSnapshot
    <2>4. CASE PutChange(s)
      <3>1. PICK c \in slot[s].todo : /\ changes' = Append(changes, c)
                                      /\ slot' = [slot EXCEPT ![s].todo = @ \ {c}]
        BY <2>4 DEF PutChange
      <3>2. c \in Change /\ slot[s].todo \ {c} \subseteq Change
        BY <3>1 DEF SlotType
      <3>3. slot' \in [Slots -> SlotType]
        BY <3>1, <3>2 DEF SlotType
      <3>. QED  BY <2>4, <3>1, <3>2, <3>3 DEF PutChange
    <2>5. CASE Accept(s)
      BY <2>5, AnsweredType DEF Accept, Pc
    <2>. QED  BY <1>6, <2>1, <2>2, <2>3, <2>4, <2>5 DEF Handler
  <1>7. ASSUME NEW s \in Slots, Fault(s) PROVE TypeOK'
    <2>1. CASE LoseRequest(s)
      BY <2>1, AnsweredType DEF LoseRequest, Pc
    <2>2. CASE LoseAnswer(s)
      BY <2>2 DEF LoseAnswer, SlotType, Pc
    <2>3. CASE HandlerFails(s)
      BY <2>3, AnsweredType DEF HandlerFails, Pc
    <2>. QED  BY <1>7, <2>1, <2>2, <2>3 DEF Fault
  <1>. QED  BY <1>1, <1>2, <1>3, <1>4, <1>5, <1>6, <1>7 DEF Next

-----------------------------------------------------------------------------
\* How each step changes the slots: at most one of them, except in a restart,
\* and never in a way that starts a handler without its snapshot.
LEMMA FreeFacts ==
    /\ FreeSlot.pc = "free" /\ FreeSlot.client = FALSE
    /\ FreeSlot.snap = NoSnapshot /\ FreeSlot.todo = {}
  BY DEF FreeSlot

LEMMA AnsweredFacts ==
    ASSUME NEW r \in SlotType, NEW o \in Pc
    PROVE  \/ Answered(r, o) = FreeSlot
           \/ /\ Answered(r, o).pc = o
              /\ Answered(r, o).snap = r.snap
              /\ Answered(r, o).client = r.client
              /\ r.client
  BY DEF Answered, SlotType

LEMMA AbandonedFacts ==
    ASSUME NEW r \in SlotType
    PROVE  /\ Abandoned(r).client = FALSE
           /\ \/ Abandoned(r) = FreeSlot
              \/ /\ r.pc \in {"sent", "read", "put"}
                 /\ Abandoned(r).pc = r.pc
                 /\ Abandoned(r).snap = r.snap
                 /\ Abandoned(r).prev = r.prev
                 /\ Abandoned(r).todo = r.todo
  BY FreeFacts DEF Abandoned, SlotType

LEMMA StepCarrying == TypeOK /\ Carrying /\ [Next]_vars => Carrying'
  <1>. SUFFICES ASSUME TypeOK, Carrying, [Next]_vars,
                       NEW t \in Slots, slot'[t].pc # "free"
                PROVE  slot'[t].snap \in Snapshot
    BY DEF Carrying
  <1>0. slot \in [Slots -> SlotType]
    BY DEF TypeOK
  <1>. USE FreeFacts DEF Carrying
  <1>1. CASE UNCHANGED vars
    BY <1>1 DEF vars
  <1>2. ASSUME NEW r \in Readings, Tick(r) PROVE slot'[t].snap \in Snapshot
    BY <1>2 DEF Tick
  <1>3. CASE StopFlush
    BY <1>3 DEF StopFlush
  <1>4. CASE Restart
    BY <1>0, <1>4, AbandonedFacts DEF Restart
  <1>5. ASSUME NEW s \in Slots, AgentStep(s) PROVE slot'[t].snap \in Snapshot
    <2>1. CASE Send(s)
      <3>1. Head(buffer) \in Snapshot
        BY <2>1 DEF Send, BeginPost, TypeOK
      <3>. QED  BY <1>0, <2>1, <3>1 DEF Send
    <2>2. CASE ReceiveAccepted(s)
      BY <1>0, <2>2 DEF ReceiveAccepted
    <2>3. CASE ReceiveError(s)
      BY <1>0, <2>3 DEF ReceiveError
    <2>4. CASE GiveUp(s)
      BY <1>0, <2>4, AbandonedFacts DEF GiveUp
    <2>. QED  BY <1>5, <2>1, <2>2, <2>3, <2>4 DEF AgentStep
  <1>6. ASSUME NEW s \in Slots, Handler(s) PROVE slot'[t].snap \in Snapshot
    <2>1. CASE Refuse(s)
      BY <1>0, <2>1, AnsweredFacts DEF Refuse, Pc
    <2>2. CASE ReadPrevious(s)
      BY <1>0, <2>2 DEF ReadPrevious, SlotType
    <2>3. CASE PutSnapshot(s)
      BY <1>0, <2>3 DEF PutSnapshot, SlotType
    <2>4. CASE PutChange(s)
      BY <1>0, <2>4 DEF PutChange, SlotType
    <2>5. CASE Accept(s)
      BY <1>0, <2>5, AnsweredFacts DEF Accept, Pc
    <2>. QED  BY <1>6, <2>1, <2>2, <2>3, <2>4, <2>5 DEF Handler
  <1>7. ASSUME NEW s \in Slots, Fault(s) PROVE slot'[t].snap \in Snapshot
    <2>1. CASE LoseRequest(s)
      BY <1>0, <2>1, AnsweredFacts DEF LoseRequest, Pc
    <2>2. CASE LoseAnswer(s)
      BY <1>0, <2>2 DEF LoseAnswer, SlotType
    <2>3. CASE HandlerFails(s)
      BY <1>0, <2>3, AnsweredFacts DEF HandlerFails, Pc
    <2>. QED  BY <1>7, <2>1, <2>2, <2>3 DEF Fault
  <1>. QED  BY <1>1, <1>2, <1>3, <1>4, <1>5, <1>6, <1>7 DEF Next

\* The type invariant of the specification.
THEOREM TypeCorrect == Spec => []TypeOK
  <1>1. Init => TypeOK /\ Carrying
    BY InitType DEF Init, Carrying, FreeSlot
  <1>2. TypeOK /\ Carrying /\ [Next]_vars => TypeOK' /\ Carrying'
    BY StepType, StepCarrying
  <1>. QED  BY <1>1, <1>2, PTL DEF Spec

-----------------------------------------------------------------------------
\* The agent waits for at most one request, the one that carries the head of
\* its buffer.
LEMMA StepOnePost == TypeOK /\ Carrying /\ OnePost /\ [Next]_vars => OnePost'
  <1>. SUFFICES ASSUME TypeOK, Carrying, OnePost, [Next]_vars PROVE OnePost'
    OBVIOUS
  <1>0. slot \in [Slots -> SlotType]
    BY DEF TypeOK
  <1>. USE FreeFacts DEF OnePost
  <1>1. CASE UNCHANGED vars
    BY <1>1 DEF vars
  <1>2. ASSUME NEW r \in Readings, Tick(r) PROVE OnePost'
    <2>1. \A s \in Slots : ~slot[s].client
      BY <1>2 DEF Tick, TakeSample
    <2>. QED  BY <1>2, <2>1 DEF Tick
  <1>3. CASE StopFlush
    <2>1. \A s \in Slots : ~slot[s].client
      BY <1>3 DEF StopFlush, EndFlush
    <2>. QED  BY <1>3, <2>1 DEF StopFlush
  <1>4. CASE Restart
    <2>1. \A s \in Slots : ~slot'[s].client
      BY <1>0, <1>4, AbandonedFacts DEF Restart
    <2>. QED  BY <2>1
  <1>5. ASSUME NEW s \in Slots, AgentStep(s) PROVE OnePost'
    <2>1. CASE Send(s)
      <3>1. \A t \in Slots : ~slot[t].client
        BY <2>1 DEF Send, BeginPost
      <3>2. slot'[s].snap = Head(buffer) /\ buffer' = buffer /\ buffer # <<>> /\ phase' = "wait"
        BY <1>0, <2>1 DEF Send, BeginPost
      <3>3. \A t \in Slots : slot'[t].client => t = s
        BY <1>0, <2>1, <3>1 DEF Send
      <3>. QED  BY <3>2, <3>3
    <2>2. CASE ReceiveAccepted(s)
      <3>1. \A t \in Slots : ~slot'[t].client
        BY <1>0, <2>2 DEF ReceiveAccepted
      <3>. QED  BY <3>1
    <2>3. CASE ReceiveError(s)
      <3>1. \A t \in Slots : ~slot'[t].client
        BY <1>0, <2>3 DEF ReceiveError
      <3>. QED  BY <3>1
    <2>4. CASE GiveUp(s)
      <3>1. \A t \in Slots : ~slot'[t].client
        BY <1>0, <2>4, AbandonedFacts DEF GiveUp
      <3>. QED  BY <3>1
    <2>. QED  BY <1>5, <2>1, <2>2, <2>3, <2>4 DEF AgentStep
  <1>6. ASSUME NEW s \in Slots, Handler(s) \/ Fault(s) PROVE OnePost'
    <2>1. \A t \in Slots : slot'[t].client => slot[t].client /\ slot'[t].snap = slot[t].snap
      <3>1. CASE Refuse(s)
        BY <1>0, <3>1, AnsweredFacts DEF Refuse, Pc
      <3>2. CASE ReadPrevious(s)
        BY <1>0, <3>2 DEF ReadPrevious, SlotType
      <3>3. CASE PutSnapshot(s)
        BY <1>0, <3>3 DEF PutSnapshot, SlotType
      <3>4. CASE PutChange(s)
        BY <1>0, <3>4 DEF PutChange, SlotType
      <3>5. CASE Accept(s)
        BY <1>0, <3>5, AnsweredFacts DEF Accept, Pc
      <3>6. CASE LoseRequest(s)
        BY <1>0, <3>6, AnsweredFacts DEF LoseRequest, Pc
      <3>7. CASE LoseAnswer(s)
        BY <1>0, <3>7 DEF LoseAnswer, SlotType
      <3>8. CASE HandlerFails(s)
        BY <1>0, <3>8, AnsweredFacts DEF HandlerFails, Pc
      <3>. QED  BY <1>6, <3>1, <3>2, <3>3, <3>4, <3>5, <3>6, <3>7, <3>8 DEF Handler, Fault
    <2>2. buffer' = buffer /\ phase' = phase
      BY <1>6 DEF Handler, Fault, Refuse, ReadPrevious, PutSnapshot, PutChange, Accept,
                  LoseRequest, LoseAnswer, HandlerFails
    <2>. QED  BY <2>1, <2>2
  <1>. QED  BY <1>1, <1>2, <1>3, <1>4, <1>5, <1>6 DEF Next

\* Rows are only ever added to the snapshot table.
LEMMA SnapshotsGrow ==
    TypeOK /\ Carrying /\ [Next]_vars => ToSet(snapshots) \subseteq ToSet(snapshots')
  <1>. SUFFICES ASSUME TypeOK, Carrying, [Next]_vars
                PROVE  ToSet(snapshots) \subseteq ToSet(snapshots')
    OBVIOUS
  <1>1. ASSUME NEW s \in Slots, PutSnapshot(s)
        PROVE  ToSet(snapshots') = ToSet(snapshots) \cup {slot[s].snap}
    <2>1. slot[s].snap \in Snapshot /\ snapshots \in Seq(Snapshot)
      BY <1>1 DEF PutSnapshot, Carrying, TypeOK
    <2>. QED  BY <1>1, <2>1, AppendSet DEF PutSnapshot
  <1>2. (\E s \in Slots : PutSnapshot(s)) \/ snapshots' = snapshots
    BY DEF Next, vars, Tick, StopFlush, Restart, AgentStep, Send, ReceiveAccepted, ReceiveError,
           GiveUp, Handler, Fault, Refuse, ReadPrevious, PutChange, Accept, LoseRequest,
           LoseAnswer, HandlerFails
  <1>. QED  BY <1>1, <1>2

\* A handler past its second operation has its sample in the store, and only
\* changes between stored snapshots left to insert.
LEMMA StepHandlerStored ==
    TypeOK /\ Carrying /\ HandlerStored /\ [Next]_vars => HandlerStored'
  <1>. SUFFICES ASSUME TypeOK, Carrying, HandlerStored, [Next]_vars PROVE HandlerStored'
    OBVIOUS
  <1> DEFINE Good(r, table) ==
        /\ r.pc = "read" => r.prev \in table \cup {NoSnapshot}
        /\ r.pc \in {"put", "ok"} => r.snap \in table
        /\ r.pc = "put" => \A c \in r.todo : \E p, q \in table : c \in ChangesBetween(p, q)
  <1>0. slot \in [Slots -> SlotType] /\ snapshots \in Seq(Snapshot)
    BY DEF TypeOK
  <1>a. ToSet(snapshots) \subseteq ToSet(snapshots')
    BY SnapshotsGrow
  <1>b. ASSUME NEW r, Good(r, ToSet(snapshots)) PROVE Good(r, ToSet(snapshots'))
    BY <1>a, <1>b
  <1>c. \A t \in Slots : Good(slot[t], ToSet(snapshots))
    BY DEF HandlerStored
  <1>d. Good(FreeSlot, ToSet(snapshots'))
    BY FreeFacts
  <1>e. ASSUME NEW r \in SlotType, Good(r, ToSet(snapshots)) PROVE Good(Abandoned(r), ToSet(snapshots'))
    BY <1>a, <1>e, <1>d, AbandonedFacts
  <1>f. ASSUME NEW r \in SlotType, NEW o \in {"error", "lost"} PROVE Good(Answered(r, o), ToSet(snapshots'))
    BY <1>d, AnsweredFacts DEF Pc
  <1>. SUFFICES ASSUME NEW t \in Slots PROVE Good(slot'[t], ToSet(snapshots'))
    BY DEF HandlerStored
  <1>g. slot[t] \in SlotType /\ Good(slot[t], ToSet(snapshots'))
    BY <1>0, <1>b, <1>c
  <1>. HIDE DEF Good
  <1>1. CASE UNCHANGED vars
    BY <1>1, <1>g DEF vars
  <1>2. ASSUME NEW r \in Readings, Tick(r) PROVE Good(slot'[t], ToSet(snapshots'))
    BY <1>2, <1>g DEF Tick
  <1>3. CASE StopFlush
    BY <1>3, <1>g DEF StopFlush
  <1>4. CASE Restart
    BY <1>0, <1>4, <1>c, <1>e DEF Restart
  <1>5. ASSUME NEW s \in Slots, AgentStep(s) PROVE Good(slot'[t], ToSet(snapshots'))
    <2>1. CASE Send(s)
      <3>1. CASE t = s
        BY <1>0, <2>1, <3>1 DEF Send, Good
      <3>2. CASE t # s
        BY <1>0, <1>g, <2>1, <3>2 DEF Send
      <3>. QED  BY <3>1, <3>2
    <2>2. CASE ReceiveAccepted(s)
      BY <1>0, <1>d, <1>g, <2>2 DEF ReceiveAccepted
    <2>3. CASE ReceiveError(s)
      BY <1>0, <1>d, <1>g, <2>3 DEF ReceiveError
    <2>4. CASE GiveUp(s)
      BY <1>0, <1>c, <1>e, <1>g, <2>4 DEF GiveUp
    <2>. QED  BY <1>5, <2>1, <2>2, <2>3, <2>4 DEF AgentStep
  <1>6. ASSUME NEW s \in Slots, Handler(s) PROVE Good(slot'[t], ToSet(snapshots'))
    <2>1. CASE Refuse(s)
      BY <1>0, <1>f, <1>g, <2>1 DEF Refuse
    <2>2. CASE ReadPrevious(s)
      <3>1. Latest(snapshots) \in ToSet(snapshots') \cup {NoSnapshot}
        BY <1>0, <1>a, LatestType
      <3>2. CASE t = s
        BY <1>0, <2>2, <3>1, <3>2 DEF ReadPrevious, SlotType, Good
      <3>3. CASE t # s
        BY <1>0, <1>g, <2>2, <3>3 DEF ReadPrevious
      <3>. QED  BY <3>2, <3>3
    <2>3. CASE PutSnapshot(s)
      <3>1. slot[s].snap \in Snapshot
        BY <2>3 DEF PutSnapshot, Carrying
      <3>2. ToSet(snapshots') = ToSet(snapshots) \cup {slot[s].snap}
        BY <1>0, <2>3, <3>1, AppendSet DEF PutSnapshot
      <3>3. CASE t = s
        <4>1. /\ slot'[s].pc = "put" /\ slot'[s].snap = slot[s].snap
              /\ slot'[s].todo = ChangesBetween(slot[s].prev, slot[s].snap)
          BY <1>0, <2>3 DEF PutSnapshot, SlotType
        <4>2. slot[s].prev \in ToSet(snapshots') \/ slot[s].prev = NoSnapshot
          BY <1>a, <1>c, <2>3 DEF PutSnapshot, Good
        <4>3. slot[s].prev = NoSnapshot => slot'[s].todo = {}
          BY <4>1 DEF ChangesBetween
        <4>. QED  BY <3>2, <3>3, <4>1, <4>2, <4>3 DEF Good
      <3>4. CASE t # s
        BY <1>0, <1>g, <2>3, <3>4 DEF PutSnapshot
      <3>. QED  BY <3>3, <3>4
    <2>4. CASE PutChange(s)
      <3>1. CASE t = s
        <4>1. /\ slot[s].pc = "put" /\ slot'[s].pc = "put" /\ slot'[s].snap = slot[s].snap
              /\ slot'[s].todo \subseteq slot[s].todo
          BY <1>0, <2>4 DEF PutChange, SlotType
        <4>. QED  BY <1>g, <3>1, <4>1 DEF Good
      <3>2. CASE t # s
        BY <1>0, <1>g, <2>4, <3>2 DEF PutChange
      <3>. QED  BY <3>1, <3>2
    <2>5. CASE Accept(s)
      <3>1. CASE t = s
        <4>1. slot'[s] = Answered(slot[s], "ok") /\ slot[s].pc = "put"
          BY <1>0, <2>5 DEF Accept
        <4>2. slot'[s] = FreeSlot \/ (slot'[s].pc = "ok" /\ slot'[s].snap = slot[s].snap)
          BY <1>0, <4>1, AnsweredFacts DEF Pc
        <4>. QED  BY <1>d, <1>g, <3>1, <4>1, <4>2 DEF Good
      <3>2. CASE t # s
        BY <1>0, <1>g, <2>5, <3>2 DEF Accept
      <3>. QED  BY <3>1, <3>2
    <2>. QED  BY <1>6, <2>1, <2>2, <2>3, <2>4, <2>5 DEF Handler
  <1>7. ASSUME NEW s \in Slots, Fault(s) PROVE Good(slot'[t], ToSet(snapshots'))
    <2>1. CASE LoseRequest(s)
      BY <1>0, <1>f, <1>g, <2>1 DEF LoseRequest
    <2>2. CASE LoseAnswer(s)
      BY <1>0, <1>g, <2>2 DEF LoseAnswer, SlotType, Good
    <2>3. CASE HandlerFails(s)
      BY <1>0, <1>f, <1>g, <2>3 DEF HandlerFails
    <2>. QED  BY <1>7, <2>1, <2>2, <2>3 DEF Fault
  <1>. QED  BY <1>1, <1>2, <1>3, <1>4, <1>5, <1>6, <1>7 DEF Next

-----------------------------------------------------------------------------
LEMMA HeadTail ==
    ASSUME NEW q \in Seq(Snapshot), q # <<>>
    PROVE  TimesIn(q) \subseteq TimesIn(Tail(q)) \cup {Head(q).time}
  <1>. SUFFICES ASSUME NEW i \in DOMAIN q PROVE q[i].time \in TimesIn(Tail(q)) \cup {Head(q).time}
    BY DEF TimesIn, ToSet
  <1>1. /\ DOMAIN q = 1..Len(q) /\ Len(q) \in Nat
        /\ Head(q) = q[1]
        /\ DOMAIN Tail(q) = 1..(Len(q) - 1)
        /\ \A j \in 1..(Len(q) - 1) : Tail(q)[j] = q[j + 1]
    OBVIOUS
  <1>2. CASE i = 1
    BY <1>1, <1>2
  <1>3. CASE i # 1
    <2>1. i - 1 \in DOMAIN Tail(q) /\ Tail(q)[i - 1] = q[i]
      BY <1>1, <1>3
    <2>. QED  BY <2>1 DEF TimesIn, ToSet
  <1>. QED  BY <1>2, <1>3

\* No sample disappears.
LEMMA StepAccounted ==
    TypeOK /\ Handshake /\ SamplesAccounted /\ [Next]_vars => SamplesAccounted'
  <1>. SUFFICES ASSUME TypeOK, Handshake, SamplesAccounted, [Next]_vars PROVE SamplesAccounted'
    OBVIOUS
  <1>1. TimesIn(snapshots) \subseteq TimesIn(snapshots')
    BY SnapshotsGrow DEF TimesIn, Handshake
  <1>2. ASSUME NEW r \in Readings, Tick(r) PROVE SamplesAccounted'
    <2>1. clock \in Nat /\ clock' = clock + 1
      BY <1>2 DEF Tick, TypeOK
    <2>2. 1..clock' \subseteq 1..clock \cup {clock + 1}
      BY <2>1
    <2>3. TimesIn(buffer) \cup {clock + 1} \cup gone \subseteq TimesIn(buffer') \cup gone'
      BY <1>2 DEF Tick
    <2>. QED  BY <1>1, <2>2, <2>3 DEF SamplesAccounted
  <1>3. CASE Restart
    <2>1. clock' = clock /\ TimesIn(buffer) \cup gone \subseteq gone'
      BY <1>3 DEF Restart
    <2>. QED  BY <1>1, <2>1 DEF SamplesAccounted
  <1>4. ASSUME NEW s \in Slots, ReceiveAccepted(s) PROVE SamplesAccounted'
    <2>1. /\ slot[s].client /\ slot[s].pc = "ok" /\ buffer' = Tail(buffer)
          /\ clock' = clock /\ gone' = gone
      BY <1>4 DEF ReceiveAccepted, PostSucceeds
    <2>2. buffer # <<>> /\ slot[s].snap = Head(buffer) /\ slot[s].snap \in ToSet(snapshots)
      BY <2>1 DEF Handshake, OnePost, HandlerStored
    <2>3. Head(buffer).time \in TimesIn(snapshots)
      BY <2>2 DEF TimesIn
    <2>4. TimesIn(buffer) \subseteq TimesIn(buffer') \cup {Head(buffer).time}
      BY <2>1, <2>2, HeadTail DEF TypeOK
    <2>. QED  BY <1>1, <2>1, <2>3, <2>4 DEF SamplesAccounted
  <1>5. CASE UNCHANGED <<buffer, clock, gone>>
    BY <1>1, <1>5 DEF SamplesAccounted
  <1>6. \/ \E r \in Readings : Tick(r)
        \/ Restart
        \/ \E s \in Slots : ReceiveAccepted(s)
        \/ UNCHANGED <<buffer, clock, gone>>
    BY DEF Next, vars, StopFlush, EndFlush, AgentStep, Send, BeginPost, ReceiveError, PostFails,
           GiveUp, Handler, Fault, Refuse, ReadPrevious, PutSnapshot, PutChange, Accept,
           LoseRequest, LoseAnswer, HandlerFails
  <1>. QED  BY <1>2, <1>3, <1>4, <1>5, <1>6

\* No change is invented.
LEMMA StepJustified ==
    TypeOK /\ Handshake /\ ChangesJustified /\ [Next]_vars => ChangesJustified'
  <1>. SUFFICES ASSUME TypeOK, Handshake, ChangesJustified, [Next]_vars PROVE ChangesJustified'
    OBVIOUS
  <1>1. ToSet(snapshots) \subseteq ToSet(snapshots')
    BY SnapshotsGrow DEF Handshake
  <1>2. ASSUME NEW s \in Slots, PutChange(s) PROVE ChangesJustified'
    <2>1. PICK c \in slot[s].todo : changes' = Append(changes, c)
      BY <1>2 DEF PutChange
    <2>2. slot[s].pc = "put" /\ c \in Change /\ changes \in Seq(Change)
      BY <1>2 DEF PutChange, TypeOK, SlotType
    <2>3. ToSet(changes') = ToSet(changes) \cup {c}
      BY <2>1, <2>2, AppendSet
    <2>4. \E p, q \in ToSet(snapshots) : c \in ChangesBetween(p, q)
      BY <2>2 DEF Handshake, HandlerStored
    <2>. QED  BY <1>1, <2>3, <2>4 DEF ChangesJustified
  <1>3. CASE changes' = changes
    BY <1>1, <1>3 DEF ChangesJustified
  <1>4. (\E s \in Slots : PutChange(s)) \/ changes' = changes
    BY DEF Next, vars, Tick, StopFlush, Restart, AgentStep, Send, ReceiveAccepted, ReceiveError,
           GiveUp, Handler, Fault, Refuse, ReadPrevious, PutSnapshot, Accept, LoseRequest,
           LoseAnswer, HandlerFails
  <1>. QED  BY <1>2, <1>3, <1>4

\* The inductive invariant.
IInv ==
    /\ TypeOK
    /\ Handshake
    /\ SamplesAccounted
    /\ ChangesJustified

LEMMA InitIInv == Init => IInv
  <1>. SUFFICES ASSUME Init PROVE IInv
    OBVIOUS
  <1>1. TypeOK
    BY InitType
  <1>2. Handshake
    BY FreeFacts DEF Init, AgentInit, Handshake, OnePost, Carrying, HandlerStored
  <1>3. SamplesAccounted
    BY DEF Init, SamplesAccounted
  <1>4. ChangesJustified
    BY DEF Init, ChangesJustified, ToSet
  <1>. QED  BY <1>1, <1>2, <1>3, <1>4 DEF IInv

LEMMA StepIInv == IInv /\ [Next]_vars => IInv'
  BY StepType, StepCarrying, StepOnePost, StepHandlerStored, StepAccounted, StepJustified
  DEF IInv, Handshake

LEMMA Invariance == Spec => []IInv
  BY InitIInv, StepIInv, PTL DEF Spec

\* Whatever the network, the collector and restarts do, every sample the agent
\* took is stored, buffered, or was discarded by the agent itself.
THEOREM NoSampleDisappears == Spec => []SamplesAccounted
  BY Invariance, PTL DEF IInv

\* Every change record is the difference of two stored snapshots, however
\* requests interleave, time out and are repeated.
THEOREM NoChangeInvented == Spec => []ChangesJustified
  BY Invariance, PTL DEF IInv

\* The agent's outstanding request and its buffer agree.
THEOREM HandshakeHolds == Spec => []Handshake
  BY Invariance, PTL DEF IInv

-----------------------------------------------------------------------------
\* Progress.  Under the fairness of FairSpec the next two are why FlushEnds holds.

\* An agent that waits has a request to wait for, which its client can end.
WaitsForRequest == phase = "wait" => \E s \in Slots : slot[s].client

LEMMA StepWaits == TypeOK /\ OnePost /\ WaitsForRequest /\ [Next]_vars => WaitsForRequest'
  <1>. SUFFICES ASSUME TypeOK, OnePost, WaitsForRequest, [Next]_vars, phase' = "wait"
                PROVE  \E s \in Slots : slot'[s].client
    BY DEF WaitsForRequest
  <1>0. slot \in [Slots -> SlotType]
    BY DEF TypeOK
  <1>1. CASE UNCHANGED vars
    BY <1>1 DEF vars, WaitsForRequest
  <1>2. ASSUME NEW s \in Slots, Send(s)  PROVE slot'[s].client
    BY <1>0, <1>2 DEF Send
  <1>3. ASSUME NEW s \in Slots, Handler(s) \/ Fault(s)
        PROVE  \E t \in Slots : slot'[t].client
    <2>1. phase' = phase
      BY <1>3 DEF Handler, Fault, Refuse, ReadPrevious, PutSnapshot, PutChange, Accept,
                  LoseRequest, LoseAnswer, HandlerFails
    <2>2. PICK t \in Slots : slot[t].client
      BY <2>1 DEF WaitsForRequest
    <2>3. slot'[t].client
      <3>1. \A o \in Pc : Answered(slot[t], o).client
        BY <1>0, <2>2 DEF Answered, SlotType
      <3>. QED  BY <1>0, <1>3, <2>2, <3>1
                DEF Handler, Fault, Refuse, ReadPrevious, PutSnapshot, PutChange, Accept,
                    LoseRequest, LoseAnswer, HandlerFails, SlotType, Pc
    <2>. QED  BY <2>3
  <1>. QED  BY <1>1, <1>2, <1>3
            DEF Next, Tick, TakeSample, StopFlush, EndFlush, Restart, LoseBuffer, AgentStep,
                ReceiveAccepted, ReceiveError, GiveUp, PostSucceeds, PostFails

\* An agent in the middle of a post always has a request open: no fault of the
\* network or of the collector leaves it waiting for nothing.
THEOREM NeverWaitsForNothing == Spec => []WaitsForRequest
  <1>1. Init => WaitsForRequest
    BY DEF Init, AgentInit, WaitsForRequest
  <1>2. IInv /\ WaitsForRequest /\ [Next]_vars => WaitsForRequest'
    BY StepWaits DEF IInv, Handshake
  <1>. QED  BY <1>1, <1>2, Invariance, PTL DEF Spec

\* How many steps the agent has left at most before it waits for its ticker.
FlushLeft == 2 * Len(buffer) + (IF phase = "flush" THEN 1 ELSE 0)

\* A flush cannot be drawn out: every step of the agent's between two ticks ends
\* it or leaves fewer to come, however many samples are in the buffer, and no
\* step of anyone else gives it more to do.
THEOREM FlushGainsGround ==
    Spec => [][phase # "idle" =>
                  /\ phase' = "idle" \/ FlushLeft' < FlushLeft \/ UNCHANGED agentVars
                  /\ StopFlush \/ (\E s \in Slots : AgentStep(s)) =>
                        phase' = "idle" \/ FlushLeft' < FlushLeft]_vars
  <1>1. ASSUME TypeOK, OnePost, NEW s \in Slots, AgentStep(s)
        PROVE  phase' = "idle" \/ FlushLeft' < FlushLeft
    <2>0. buffer \in Seq(Snapshot) /\ Len(buffer) \in Nat
      BY <1>1 DEF TypeOK
    <2>1. CASE Send(s)
      BY <2>0, <2>1 DEF Send, BeginPost, FlushLeft
    <2>2. CASE ReceiveAccepted(s)
      <3>1. phase = "wait" /\ phase' = "flush" /\ buffer' = Tail(buffer)
        BY <2>2 DEF ReceiveAccepted, PostSucceeds
      <3>2. buffer # <<>>
        BY <1>1, <2>2 DEF OnePost, ReceiveAccepted
      <3>3. Len(buffer') = Len(buffer) - 1
        BY <2>0, <3>1, <3>2
      <3>. QED  BY <2>0, <3>1, <3>3 DEF FlushLeft
    <2>3. CASE ReceiveError(s) \/ GiveUp(s)
      BY <2>3 DEF ReceiveError, GiveUp, PostFails
    <2>. QED  BY <1>1, <2>1, <2>2, <2>3 DEF AgentStep
  <1>2. ASSUME Next, phase # "idle", ~(\E s \in Slots : AgentStep(s))
        PROVE  phase' = "idle" \/ UNCHANGED agentVars
    BY <1>2 DEF Next, Tick, TakeSample, StopFlush, EndFlush, Restart, LoseBuffer, Handler, Fault,
        Refuse, ReadPrevious, PutSnapshot, PutChange, Accept, LoseRequest, LoseAnswer,
        HandlerFails, agentVars
  <1>3. StopFlush => phase' = "idle"
    BY DEF StopFlush, EndFlush
  <1>4. IInv /\ [Next]_vars =>
            [phase # "idle" =>
                /\ phase' = "idle" \/ FlushLeft' < FlushLeft \/ UNCHANGED agentVars
                /\ StopFlush \/ (\E s \in Slots : AgentStep(s)) =>
                      phase' = "idle" \/ FlushLeft' < FlushLeft]_vars
    BY <1>1, <1>2, <1>3 DEF IInv, Handshake
  <1>. QED  BY <1>4, Invariance, PTL DEF Spec

-----------------------------------------------------------------------------
\* The order of the buffer, for any number of requests.
LEMMA NewestElements ==
    ASSUME NEW q \in Seq(Snapshot)
    PROVE  \E d \in Nat : /\ Len(Newest(q)) + d = Len(q)
                          /\ \A i \in 1..Len(Newest(q)) : Newest(q)[i] = q[i + d]
  <1>. USE BufferAssumption
  <1>1. Len(q) \in Nat
    OBVIOUS
  <1>2. CASE Len(q) <= BufferSize
    <2>1. Newest(q) = q
      BY <1>1, <1>2 DEF Newest
    <2>2. Len(Newest(q)) + 0 = Len(q) /\ \A i \in 1..Len(Newest(q)) : Newest(q)[i] = q[i + 0]
      BY <1>1, <2>1
    <2>. QED  BY <2>2
  <1>3. CASE Len(q) > BufferSize
    <2> DEFINE d == Len(q) - BufferSize
    <2>1. d \in Nat /\ Newest(q) = SubSeq(q, d + 1, Len(q))
      BY <1>1, <1>3 DEF Newest
    <2>2. /\ Len(SubSeq(q, d + 1, Len(q))) = Len(q) - d
          /\ \A i \in 1..(Len(q) - d) : SubSeq(q, d + 1, Len(q))[i] = q[i + d]
      BY <1>1, <2>1
    <2>3. /\ Len(Newest(q)) + d = Len(q)
          /\ \A i \in 1..Len(Newest(q)) : Newest(q)[i] = q[i + d]
      BY <1>1, <2>1, <2>2
    <2>. HIDE DEF d
    <2>. QED  BY <2>1, <2>3
  <1>. QED  BY <1>1, <1>2, <1>3

InTime(q) == \A i, j \in DOMAIN q : i < j => q[i].time < q[j].time

LEMMA NewestInTime ==
    ASSUME NEW q \in Seq(Snapshot), InTime(q)
    PROVE  InTime(Newest(q)) /\ TimesIn(Newest(q)) \subseteq TimesIn(q)
  <1>1. PICK d \in Nat : /\ Len(Newest(q)) + d = Len(q)
                         /\ \A i \in 1..Len(Newest(q)) : Newest(q)[i] = q[i + d]
    BY NewestElements
  <1>2. /\ Newest(q) \in Seq(Snapshot) /\ Len(Newest(q)) \in Nat /\ Len(q) \in Nat
        /\ DOMAIN Newest(q) = 1..Len(Newest(q)) /\ DOMAIN q = 1..Len(q)
    BY NewestType
  <1>3. \A i \in DOMAIN Newest(q) : i + d \in DOMAIN q
    BY <1>1, <1>2
  <1>4. InTime(Newest(q))
    <2>. SUFFICES ASSUME NEW i \in DOMAIN Newest(q), NEW j \in DOMAIN Newest(q), i < j
                  PROVE  Newest(q)[i].time < Newest(q)[j].time
      BY DEF InTime
    <2>1. i + d < j + d
      BY <1>2
    <2>2. q[i + d].time < q[j + d].time
      BY <1>3, <2>1 DEF InTime
    <2>. QED  BY <1>1, <1>2, <2>2
  <1>5. TimesIn(Newest(q)) \subseteq TimesIn(q)
    BY <1>1, <1>2, <1>3 DEF TimesIn, ToSet
  <1>. QED  BY <1>4, <1>5

LEMMA AppendInTime ==
    ASSUME NEW q \in Seq(Snapshot), NEW e \in Snapshot, InTime(q),
           \A u \in TimesIn(q) : u < e.time
    PROVE  InTime(Append(q, e)) /\ TimesIn(Append(q, e)) = TimesIn(q) \cup {e.time}
  <1>1. /\ DOMAIN Append(q, e) = 1..(Len(q) + 1) /\ DOMAIN q = 1..Len(q) /\ Len(q) \in Nat
        /\ \A i \in 1..Len(q) : Append(q, e)[i] = q[i]
        /\ Append(q, e)[Len(q) + 1] = e
    OBVIOUS
  <1>2. \A i \in 1..Len(q) : q[i].time < e.time
    BY <1>1 DEF TimesIn, ToSet
  <1>3. InTime(Append(q, e))
    <2>. SUFFICES ASSUME NEW i \in 1..(Len(q) + 1), NEW j \in 1..(Len(q) + 1), i < j
                  PROVE  Append(q, e)[i].time < Append(q, e)[j].time
      BY <1>1 DEF InTime
    <2>1. i \in 1..Len(q)
      BY <1>1
    <2>2. CASE j = Len(q) + 1
      BY <1>1, <1>2, <2>1, <2>2
    <2>3. CASE j \in 1..Len(q)
      BY <1>1, <2>1, <2>3 DEF InTime
    <2>. QED  BY <1>1, <2>2, <2>3
  <1>4. ToSet(Append(q, e)) = ToSet(q) \cup {e}
    BY AppendSet
  <1>. QED  BY <1>3, <1>4 DEF TimesIn

LEMMA TailInTime ==
    ASSUME NEW q \in Seq(Snapshot), q # <<>>, InTime(q)
    PROVE  InTime(Tail(q)) /\ TimesIn(Tail(q)) \subseteq TimesIn(q) /\ Len(Tail(q)) <= Len(q)
  <1>1. /\ DOMAIN q = 1..Len(q) /\ Len(q) \in Nat
        /\ DOMAIN Tail(q) = 1..(Len(q) - 1) /\ Len(Tail(q)) = Len(q) - 1
        /\ \A j \in 1..(Len(q) - 1) : Tail(q)[j] = q[j + 1]
    OBVIOUS
  <1>2. \A j \in 1..(Len(q) - 1) : j + 1 \in 1..Len(q)
    BY <1>1
  <1>3. InTime(Tail(q))
    <2>. SUFFICES ASSUME NEW i \in 1..(Len(q) - 1), NEW j \in 1..(Len(q) - 1), i < j
                  PROVE  q[i + 1].time < q[j + 1].time
      BY <1>1 DEF InTime
    <2>1. i + 1 < j + 1
      BY <1>1
    <2>. QED  BY <1>1, <1>2, <2>1 DEF InTime
  <1>4. TimesIn(Tail(q)) \subseteq TimesIn(q)
    BY <1>1, <1>2 DEF TimesIn, ToSet
  <1>. QED  BY <1>1, <1>3, <1>4

LEMMA TimesType ==
    ASSUME NEW q \in Seq(Snapshot)
    PROVE  TimesIn(q) \subseteq Nat
  BY StoredType DEF TimesIn, Snapshot

\* What a step does to the buffer.
LEMMA BufferSteps ==
    [Next]_vars =>
        \/ \E r \in Readings : Tick(r)
        \/ Restart
        \/ \E s \in Slots : ReceiveAccepted(s)
        \/ UNCHANGED <<buffer, clock>>
  BY DEF Next, vars, StopFlush, EndFlush, AgentStep, Send, BeginPost, ReceiveError, PostFails,
         GiveUp, Handler, Fault, Refuse, ReadPrevious, PutSnapshot, PutChange, Accept,
         LoseRequest, LoseAnswer, HandlerFails

\* A new sample comes behind all those that were taken before it.
UpToNow == \A u \in TimesIn(buffer) : u <= clock

LEMMA StepBuffer ==
    IInv /\ BufferInOrder /\ UpToNow /\ [Next]_vars => BufferInOrder' /\ UpToNow'
  <1>. SUFFICES ASSUME IInv, BufferInOrder, UpToNow, [Next]_vars
                PROVE  BufferInOrder' /\ UpToNow'
    OBVIOUS
  <1>0. buffer \in Seq(Snapshot) /\ clock \in Nat /\ TimesIn(buffer) \subseteq Nat /\ InTime(buffer)
    BY TimesType DEF IInv, TypeOK, BufferInOrder, InTime
  <1>1. ASSUME NEW r \in Readings, Tick(r) PROVE BufferInOrder' /\ UpToNow'
    <2> DEFINE new == [time |-> clock + 1, driver |-> r.driver, fields |-> r.fields]
    <2>1. new \in Snapshot /\ new.time = clock + 1
      BY <1>0, IngestAssumption DEF Snapshot
    <2>2. clock' = clock + 1 /\ buffer' = Newest(Append(buffer, new))
      BY <1>1 DEF Tick, TakeSample
    <2>. HIDE DEF new
    <2>3. \A u \in TimesIn(buffer) : u < new.time
      BY <1>0, <2>1 DEF UpToNow
    <2>4. InTime(Append(buffer, new)) /\ TimesIn(Append(buffer, new)) = TimesIn(buffer) \cup {clock + 1}
      BY <1>0, <2>1, <2>3, AppendInTime
    <2>5. Append(buffer, new) \in Seq(Snapshot)
      BY <1>0, <2>1
    <2>6. Len(buffer') <= BufferSize
      BY <2>2, <2>5, NewestType
    <2>7. InTime(buffer') /\ TimesIn(buffer') \subseteq TimesIn(buffer) \cup {clock + 1}
      BY <2>2, <2>4, <2>5, NewestInTime
    <2>8. UpToNow'
      BY <1>0, <2>2, <2>7 DEF UpToNow
    <2>. QED  BY <2>6, <2>7, <2>8 DEF BufferInOrder, InTime
  <1>2. CASE Restart
    <2>1. buffer' = <<>>
      BY <1>2 DEF Restart, LoseBuffer
    <2>2. Len(<<>>) <= BufferSize /\ DOMAIN <<>> = {} /\ TimesIn(<<>>) = {}
      BY BufferAssumption DEF TimesIn, ToSet
    <2>. QED  BY <2>1, <2>2 DEF BufferInOrder, UpToNow
  <1>3. ASSUME NEW s \in Slots, ReceiveAccepted(s) PROVE BufferInOrder' /\ UpToNow'
    <2>1. buffer # <<>> /\ buffer' = Tail(buffer) /\ clock' = clock
      BY <1>3 DEF ReceiveAccepted, PostSucceeds, IInv, Handshake, OnePost
    <2>2. /\ InTime(Tail(buffer)) /\ TimesIn(Tail(buffer)) \subseteq TimesIn(buffer)
          /\ Len(Tail(buffer)) <= Len(buffer)
      BY <1>0, <2>1, TailInTime
    <2>3. Len(Tail(buffer)) <= BufferSize
      <3>1. Len(buffer) \in Nat /\ Len(Tail(buffer)) \in Nat
        BY <1>0, <2>1
      <3>. QED  BY <2>2, <3>1, BufferAssumption DEF BufferInOrder
    <2>. QED  BY <2>1, <2>2, <2>3 DEF BufferInOrder, InTime, UpToNow
  <1>4. CASE UNCHANGED <<buffer, clock>>
    BY <1>4 DEF BufferInOrder, UpToNow
  <1>. QED  BY <1>1, <1>2, <1>3, <1>4, BufferSteps

\* The agent's buffer keeps its size and the order of its samples, whatever is
\* lost, retried and restarted, with any number of requests under way.
THEOREM BufferOrdered == Spec => []BufferInOrder
  <1>1. Init => BufferInOrder /\ UpToNow
    <2>1. Len(<<>>) <= BufferSize /\ DOMAIN <<>> = {} /\ TimesIn(<<>>) = {}
      BY BufferAssumption DEF TimesIn, ToSet
    <2>. QED  BY <2>1 DEF Init, AgentInit, BufferInOrder, UpToNow
  <1>. QED  BY <1>1, InitIInv, StepIInv, StepBuffer, PTL DEF Spec

-----------------------------------------------------------------------------
\* The order of the table, when requests follow one another: what is stored is
\* not newer than what is under way, and that not newer than the buffer.
Ahead ==
    /\ \A u \in TimesIn(snapshots) : u <= clock /\ \A v \in TimesIn(buffer) : u <= v
    /\ \A s \in Slots : slot[s].pc # "free" =>
        /\ slot[s].snap.time <= clock
        /\ \A v \in TimesIn(buffer) : slot[s].snap.time <= v
        /\ \A u \in TimesIn(snapshots) : u <= slot[s].snap.time

\* A request keeps its sample.
LEMMA SlotSteps ==
    ASSUME TypeOK, [Next]_vars
    PROVE  \/ \E s \in Slots : Send(s)
           \/ \A t \in Slots : slot'[t].pc # "free" =>
                slot[t].pc # "free" /\ slot'[t].snap = slot[t].snap
  <1> DEFINE Same == \A t \in Slots : slot'[t].pc # "free" =>
                        slot[t].pc # "free" /\ slot'[t].snap = slot[t].snap
  <1>0. slot \in [Slots -> SlotType]
    BY DEF TypeOK
  <1>. USE FreeFacts
  <1>1. CASE UNCHANGED slot
    BY <1>1
  <1>2. CASE Restart
    BY <1>0, <1>2, AbandonedFacts DEF Restart
  <1>3. ASSUME NEW s \in Slots, AgentStep(s), ~Send(s) PROVE Same
    <2>1. CASE ReceiveAccepted(s)
      BY <1>0, <2>1 DEF ReceiveAccepted
    <2>2. CASE ReceiveError(s)
      BY <1>0, <2>2 DEF ReceiveError
    <2>3. CASE GiveUp(s)
      BY <1>0, <2>3, AbandonedFacts DEF GiveUp
    <2>. QED  BY <1>3, <2>1, <2>2, <2>3 DEF AgentStep
  <1>4. ASSUME NEW s \in Slots, Handler(s) PROVE Same
    <2>1. CASE Refuse(s)
      BY <1>0, <2>1, AnsweredFacts DEF Refuse, Pc
    <2>2. CASE ReadPrevious(s)
      BY <1>0, <2>2 DEF ReadPrevious, SlotType
    <2>3. CASE PutSnapshot(s)
      BY <1>0, <2>3 DEF PutSnapshot, SlotType
    <2>4. CASE PutChange(s)
      BY <1>0, <2>4 DEF PutChange, SlotType
    <2>5. CASE Accept(s)
      BY <1>0, <2>5, AnsweredFacts DEF Accept, Pc
    <2>. QED  BY <1>4, <2>1, <2>2, <2>3, <2>4, <2>5 DEF Handler
  <1>5. ASSUME NEW s \in Slots, Fault(s) PROVE Same
    <2>1. CASE LoseRequest(s)
      BY <1>0, <2>1, AnsweredFacts DEF LoseRequest, Pc
    <2>2. CASE LoseAnswer(s)
      BY <1>0, <2>2 DEF LoseAnswer, SlotType
    <2>3. CASE HandlerFails(s)
      BY <1>0, <2>3, AnsweredFacts DEF HandlerFails, Pc
    <2>. QED  BY <1>5, <2>1, <2>2, <2>3 DEF Fault
  <1>6. (\E r \in Readings : Tick(r)) \/ StopFlush \/ UNCHANGED vars => UNCHANGED slot
    BY DEF Tick, StopFlush, vars
  <1>. QED  BY <1>1, <1>2, <1>3, <1>4, <1>5, <1>6 DEF Next

\* What a step does to the table and the buffer.
LEMMA TableSteps ==
    [Next]_vars =>
        /\ (\E s \in Slots : PutSnapshot(s)) \/ snapshots' = snapshots
        /\ \A s \in Slots : PutSnapshot(s) \/ Send(s) => UNCHANGED <<buffer, clock>>
        /\ \A s \in Slots : Send(s) => snapshots' = snapshots
  BY DEF Next, vars, Tick, StopFlush, Restart, AgentStep, Send, BeginPost, ReceiveAccepted,
         ReceiveError, GiveUp, Handler, Fault, Refuse, ReadPrevious, PutSnapshot, PutChange,
         Accept, LoseRequest, LoseAnswer, HandlerFails

\* The buffer's samples, after a step, are the ones before it or a new one.
LEMMA BufferTimes ==
    ASSUME IInv, BufferInOrder, UpToNow, [Next]_vars
    PROVE  /\ clock' \in Nat /\ clock <= clock'
           /\ \A v \in TimesIn(buffer') : v \in TimesIn(buffer) \/ v > clock
  <1>0. buffer \in Seq(Snapshot) /\ clock \in Nat /\ TimesIn(buffer) \subseteq Nat /\ InTime(buffer)
    BY TimesType DEF IInv, TypeOK, BufferInOrder, InTime
  <1>1. ASSUME NEW r \in Readings, Tick(r)
        PROVE  clock' = clock + 1 /\ \A v \in TimesIn(buffer') : v \in TimesIn(buffer) \/ v = clock + 1
    <2> DEFINE new == [time |-> clock + 1, driver |-> r.driver, fields |-> r.fields]
    <2>1. new \in Snapshot /\ new.time = clock + 1
      BY <1>0, IngestAssumption DEF Snapshot
    <2>2. clock' = clock + 1 /\ buffer' = Newest(Append(buffer, new))
      BY <1>1 DEF Tick, TakeSample
    <2>. HIDE DEF new
    <2>3. \A u \in TimesIn(buffer) : u < new.time
      BY <1>0, <2>1 DEF UpToNow
    <2>4. /\ InTime(Append(buffer, new)) /\ Append(buffer, new) \in Seq(Snapshot)
          /\ TimesIn(Append(buffer, new)) = TimesIn(buffer) \cup {clock + 1}
      BY <1>0, <2>1, <2>3, AppendInTime
    <2>. QED  BY <2>2, <2>4, NewestInTime
  <1>2. CASE Restart
    <2>1. buffer' = <<>> /\ clock' = clock /\ TimesIn(<<>>) = {}
      BY <1>2 DEF Restart, LoseBuffer, TimesIn, ToSet
    <2>. QED  BY <1>0, <2>1
  <1>3. ASSUME NEW s \in Slots, ReceiveAccepted(s)
        PROVE  clock' = clock /\ TimesIn(buffer') \subseteq TimesIn(buffer)
    <2>1. buffer # <<>> /\ buffer' = Tail(buffer) /\ clock' = clock
      BY <1>3 DEF ReceiveAccepted, PostSucceeds, IInv, Handshake, OnePost
    <2>. QED  BY <1>0, <2>1, TailInTime
  <1>. QED  BY <1>0, <1>1, <1>2, <1>3, BufferSteps

LEMMA HeadFirst ==
    ASSUME NEW q \in Seq(Snapshot), q # <<>>, InTime(q)
    PROVE  Head(q).time \in TimesIn(q) /\ \A v \in TimesIn(q) : Head(q).time <= v
  <1>1. DOMAIN q = 1..Len(q) /\ Len(q) \in Nat \ {0} /\ Head(q) = q[1] /\ 1 \in DOMAIN q
    OBVIOUS
  <1>2. TimesIn(q) \subseteq Nat /\ q[1].time \in TimesIn(q)
    BY <1>1, TimesType DEF TimesIn, ToSet
  <1>3. ASSUME NEW i \in DOMAIN q PROVE q[1].time <= q[i].time
    <2>1. q[i].time \in Nat /\ q[1].time \in Nat
      BY <1>1, <1>2 DEF TimesIn, ToSet
    <2>2. CASE i = 1
      BY <2>1, <2>2
    <2>3. CASE i # 1
      <3>1. 1 < i
        BY <1>1, <2>3
      <3>2. q[1].time < q[i].time
        BY <1>1, <3>1 DEF InTime
      <3>. QED  BY <2>1, <3>2
    <2>. QED  BY <2>2, <2>3
  <1>. QED  BY <1>1, <1>2, <1>3 DEF TimesIn, ToSet

LEMMA AppendStored ==
    ASSUME NEW q \in Seq(Snapshot), NEW e \in Snapshot,
           \A i, j \in DOMAIN q : i < j => q[i].time <= q[j].time,
           \A u \in TimesIn(q) : u <= e.time
    PROVE  \A i, j \in DOMAIN Append(q, e) : i < j => Append(q, e)[i].time <= Append(q, e)[j].time
  <1>1. /\ DOMAIN Append(q, e) = 1..(Len(q) + 1) /\ DOMAIN q = 1..Len(q) /\ Len(q) \in Nat
        /\ \A i \in 1..Len(q) : Append(q, e)[i] = q[i]
        /\ Append(q, e)[Len(q) + 1] = e
    OBVIOUS
  <1>2. \A i \in 1..Len(q) : q[i].time <= e.time
    BY <1>1 DEF TimesIn, ToSet
  <1>. SUFFICES ASSUME NEW i \in 1..(Len(q) + 1), NEW j \in 1..(Len(q) + 1), i < j
                PROVE  Append(q, e)[i].time <= Append(q, e)[j].time
    BY <1>1
  <1>3. i \in 1..Len(q)
    BY <1>1
  <1>4. CASE j = Len(q) + 1
    BY <1>1, <1>2, <1>3, <1>4
  <1>5. CASE j \in 1..Len(q)
    BY <1>1, <1>3, <1>5
  <1>. QED  BY <1>1, <1>4, <1>5

LEMMA StepStored ==
    ASSUME \A s, t \in Slots : s = t, IInv, BufferInOrder, UpToNow, Ahead, StoredInOrder, [Next]_vars
    PROVE  Ahead' /\ StoredInOrder'
  <1>0. /\ slot \in [Slots -> SlotType] /\ snapshots \in Seq(Snapshot) /\ buffer \in Seq(Snapshot)
        /\ clock \in Nat /\ TimesIn(buffer) \subseteq Nat /\ TimesIn(snapshots) \subseteq Nat
        /\ InTime(buffer)
    BY TimesType DEF IInv, TypeOK, BufferInOrder, InTime
  <1>a. /\ clock' \in Nat /\ clock <= clock'
        /\ \A v \in TimesIn(buffer') : v \in TimesIn(buffer) \/ v > clock
    BY BufferTimes
  <1>b. TimesIn(buffer') \subseteq Nat
    BY <1>0, StepIInv, TimesType DEF IInv, TypeOK
  <1>c. ASSUME NEW s \in Slots, slot[s].pc # "free"
        PROVE  slot[s].snap \in Snapshot /\ slot[s].snap.time \in Nat
    BY <1>c DEF IInv, Handshake, Carrying, Snapshot
  <1>1. ASSUME NEW s \in Slots, Send(s) PROVE Ahead' /\ StoredInOrder'
    <2>1. /\ snapshots' = snapshots /\ buffer' = buffer /\ clock' = clock
          /\ buffer # <<>> /\ slot'[s].snap = Head(buffer)
      BY <1>0, <1>1, TableSteps DEF Send, BeginPost
    <2>2. /\ Head(buffer).time \in TimesIn(buffer)
          /\ \A v \in TimesIn(buffer) : Head(buffer).time <= v
      BY <1>0, <2>1, HeadFirst
    <2>3. \A t \in Slots : slot'[t].snap = Head(buffer)
      BY <2>1
    <2>. QED  BY <2>1, <2>2, <2>3 DEF Ahead, StoredInOrder, UpToNow
  <1>2. ASSUME NEW s \in Slots, PutSnapshot(s) PROVE Ahead' /\ StoredInOrder'
    <2>1. /\ snapshots' = Append(snapshots, slot[s].snap) /\ slot[s].pc = "read"
          /\ buffer' = buffer /\ clock' = clock /\ slot'[s].snap = slot[s].snap
      BY <1>0, <1>2, TableSteps DEF PutSnapshot, SlotType
    <2>2. slot[s].snap \in Snapshot /\ slot[s].snap.time \in Nat
      BY <1>c, <2>1
    <2>3. TimesIn(snapshots') = TimesIn(snapshots) \cup {slot[s].snap.time}
      BY <1>0, <2>1, <2>2, AppendSet DEF TimesIn
    <2>4. \A u \in TimesIn(snapshots) : u <= slot[s].snap.time
      BY <2>1 DEF Ahead
    <2>5. StoredInOrder'
      BY <1>0, <2>1, <2>2, <2>4, AppendStored DEF StoredInOrder
    <2>6. \A t \in Slots : slot'[t].snap = slot[s].snap
      BY <2>1
    <2>7. Ahead'
      BY <2>1, <2>2, <2>3, <2>4, <2>6 DEF Ahead
    <2>. QED  BY <2>5, <2>7
  <1>3. CASE /\ snapshots' = snapshots
             /\ \A t \in Slots : slot'[t].pc # "free" =>
                    slot[t].pc # "free" /\ slot'[t].snap = slot[t].snap
    <2>1. StoredInOrder'
      BY <1>3 DEF StoredInOrder
    <2>2. \A u \in TimesIn(snapshots') : u <= clock' /\ \A v \in TimesIn(buffer') : u <= v
      BY <1>0, <1>a, <1>b, <1>3 DEF Ahead
    <2>3. ASSUME NEW t \in Slots, slot'[t].pc # "free"
          PROVE  /\ slot'[t].snap.time <= clock'
                 /\ \A v \in TimesIn(buffer') : slot'[t].snap.time <= v
                 /\ \A u \in TimesIn(snapshots') : u <= slot'[t].snap.time
      <3>1. slot[t].pc # "free" /\ slot'[t].snap = slot[t].snap /\ slot[t].snap.time \in Nat
        BY <1>c, <1>3, <2>3
      <3>. QED  BY <1>0, <1>a, <1>b, <1>3, <3>1 DEF Ahead
    <2>. QED  BY <2>1, <2>2, <2>3 DEF Ahead
  <1>. QED  BY <1>1, <1>2, <1>3, SlotSteps, TableSteps DEF IInv

\* The store receives samples in the order they were taken, whatever is lost,
\* retried and restarted, as long as one request at a time is under way.
THEOREM StoredOldestFirst ==
    ASSUME \A s, t \in Slots : s = t
    PROVE  Spec => []StoredInOrder
  <1>1. Init => BufferInOrder /\ UpToNow /\ Ahead /\ StoredInOrder
    <2>1. Len(<<>>) <= BufferSize /\ DOMAIN <<>> = {} /\ TimesIn(<<>>) = {}
      BY BufferAssumption DEF TimesIn, ToSet
    <2>. QED  BY <2>1, FreeFacts DEF Init, AgentInit, BufferInOrder, UpToNow, Ahead, StoredInOrder
  <1>2. IInv /\ BufferInOrder /\ UpToNow /\ Ahead /\ StoredInOrder /\ [Next]_vars
            => BufferInOrder' /\ UpToNow' /\ Ahead' /\ StoredInOrder'
    BY StepBuffer, StepStored
  <1>. QED  BY <1>1, <1>2, InitIInv, StepIInv, PTL DEF Spec

(***************************************************************************)
(* One request at a time: what becomes of a change when its sample is      *)
(* posted again, for every buffer, any readings and, where a theorem does  *)
(* not say otherwise, any faults.                                          *)
(*                                                                         *)
(* With one request at a time the table ends with the newest snapshot, and *)
(* the previous snapshot that a handler has read is still the latest one   *)
(* when it inserts its own.  Either that is the same sample, stored by an  *)
(* earlier post, or an older one; only then are there changes to insert.   *)
(***************************************************************************)
OneAtATime == \A s, t \in Slots : s = t

OrderInv == IInv /\ BufferInOrder /\ UpToNow /\ Ahead /\ StoredInOrder

LEMMA OrderInit == Init => OrderInv
  <1>. SUFFICES ASSUME Init PROVE OrderInv
    OBVIOUS
  <1>1. Len(<<>>) <= BufferSize /\ DOMAIN <<>> = {} /\ TimesIn(<<>>) = {}
    BY BufferAssumption DEF TimesIn, ToSet
  <1>. QED  BY <1>1, FreeFacts, InitIInv
            DEF Init, AgentInit, OrderInv, BufferInOrder, UpToNow, Ahead, StoredInOrder

LEMMA OrderStep == ASSUME OneAtATime, OrderInv, [Next]_vars PROVE OrderInv'
  BY StepIInv, StepBuffer, StepStored DEF OrderInv, OneAtATime

LEMMA OrderTypes ==
    ASSUME OrderInv
    PROVE  /\ slot \in [Slots -> SlotType] /\ snapshots \in Seq(Snapshot) /\ buffer \in Seq(Snapshot)
           /\ changes \in Seq(Change) /\ clock \in Nat
           /\ ToSet(snapshots) \subseteq Snapshot /\ ToSet(buffer) \subseteq Snapshot
           /\ \A s \in Slots : slot[s].pc # "free" => slot[s].snap \in Snapshot
  BY StoredType DEF OrderInv, IInv, TypeOK, Handshake, Carrying

(***************************************************************************)
(* Samples are told apart by their times.                                  *)
(***************************************************************************)
InFlight == {slot[s].snap : s \in {t \in Slots : slot[t].pc # "free"}}

Known == ToSet(snapshots) \cup ToSet(buffer) \cup InFlight

OneOfATime == \A p, q \in Known : p.time = q.time => p = q

LEMMA KnownByNow ==
    ASSUME OrderInv
    PROVE  Known \subseteq Snapshot /\ \A p \in Known : p.time \in Nat /\ p.time <= clock
  <1>1. Known \subseteq Snapshot
    BY OrderTypes DEF Known, InFlight
  <1>2. \A p \in Known : p.time <= clock
    BY DEF OrderInv, Ahead, UpToNow, Known, InFlight, TimesIn
  <1>. QED  BY <1>1, <1>2 DEF Snapshot

LEMMA NewestKnown ==
    ASSUME NEW q \in Seq(Snapshot)
    PROVE  ToSet(Newest(q)) \subseteq ToSet(q)
  <1>1. PICK d \in Nat : /\ Len(Newest(q)) + d = Len(q)
                         /\ \A i \in 1..Len(Newest(q)) : Newest(q)[i] = q[i + d]
    BY NewestElements
  <1>2. /\ Newest(q) \in Seq(Snapshot) /\ Len(Newest(q)) \in Nat /\ Len(q) \in Nat
        /\ DOMAIN Newest(q) = 1..Len(Newest(q)) /\ DOMAIN q = 1..Len(q)
    BY NewestType
  <1>3. \A i \in DOMAIN Newest(q) : i + d \in DOMAIN q
    BY <1>1, <1>2
  <1>. QED  BY <1>1, <1>2, <1>3 DEF ToSet

\* The buffer keeps some of its samples and takes in at most one new one.
LEMMA BufferKnown ==
    ASSUME OrderInv, [Next]_vars
    PROVE  \E x : x.time = clock + 1 /\ ToSet(buffer') \subseteq ToSet(buffer) \cup {x}
  <1>0. buffer \in Seq(Snapshot) /\ clock \in Nat
    BY OrderTypes
  <1> DEFINE Goal == \E x : x.time = clock + 1 /\ ToSet(buffer') \subseteq ToSet(buffer) \cup {x}
  <1>1. ASSUME NEW r \in Readings, Tick(r) PROVE Goal
    <2> DEFINE new == [time |-> clock + 1, driver |-> r.driver, fields |-> r.fields]
    <2>1. new \in Snapshot /\ new.time = clock + 1
      BY <1>0, IngestAssumption DEF Snapshot
    <2>2. buffer' = Newest(Append(buffer, new))
      BY <1>1 DEF Tick, TakeSample
    <2>. HIDE DEF new
    <2>3. Append(buffer, new) \in Seq(Snapshot) /\ ToSet(Append(buffer, new)) = ToSet(buffer) \cup {new}
      BY <1>0, <2>1, AppendSet
    <2>4. ToSet(Newest(Append(buffer, new))) \subseteq ToSet(Append(buffer, new))
      BY <2>3, NewestKnown
    <2>. QED  BY <2>1, <2>2, <2>3, <2>4
  <1>2. CASE ToSet(buffer') \subseteq ToSet(buffer)
    <2>1. [time |-> clock + 1].time = clock + 1
      OBVIOUS
    <2>. QED  BY <1>2, <2>1
  <1>3. CASE Restart
    BY <1>2, <1>3 DEF Restart, LoseBuffer, ToSet
  <1>4. ASSUME NEW s \in Slots, ReceiveAccepted(s) PROVE Goal
    <2>1. buffer # <<>> /\ buffer' = Tail(buffer)
      BY <1>4 DEF ReceiveAccepted, PostSucceeds, OrderInv, IInv, Handshake, OnePost
    <2>2. ToSet(Tail(buffer)) \subseteq ToSet(buffer)
      BY <1>0, <2>1 DEF ToSet
    <2>. QED  BY <1>2, <2>1, <2>2
  <1>. QED  BY <1>1, <1>2, <1>3, <1>4, BufferSteps

LEMMA OneOfATimeStep ==
    ASSUME OrderInv, OneOfATime, [Next]_vars
    PROVE  OneOfATime'
  <1>0. slot \in [Slots -> SlotType] /\ snapshots \in Seq(Snapshot) /\ buffer \in Seq(Snapshot) /\ clock \in Nat
    BY OrderTypes
  <1>1. PICK x : x.time = clock + 1 /\ ToSet(buffer') \subseteq ToSet(buffer) \cup {x}
    BY BufferKnown
  <1>2. InFlight' \subseteq InFlight \cup ToSet(buffer)
    <2>1. ASSUME NEW s \in Slots, Send(s)  PROVE InFlight' \subseteq InFlight \cup ToSet(buffer)
      <3>1. /\ buffer # <<>> /\ slot'[s].snap = Head(buffer)
            /\ \A t \in Slots \ {s} : slot'[t] = slot[t]
        BY <1>0, <2>1 DEF Send, BeginPost
      <3>2. Head(buffer) \in ToSet(buffer)
        BY <1>0, <3>1 DEF ToSet
      <3>. QED  BY <3>1, <3>2 DEF InFlight
    <2>2. CASE \A t \in Slots : slot'[t].pc # "free" =>
                 slot[t].pc # "free" /\ slot'[t].snap = slot[t].snap
      BY <2>2 DEF InFlight
    <2>. QED  BY <2>1, <2>2, SlotSteps DEF OrderInv, IInv
  <1>3. ToSet(snapshots') \subseteq ToSet(snapshots) \cup InFlight
    <2>1. ASSUME NEW s \in Slots, PutSnapshot(s)
          PROVE  ToSet(snapshots') = ToSet(snapshots) \cup {slot[s].snap} /\ slot[s].pc = "read"
      BY <1>0, <2>1, OrderTypes, AppendSet DEF PutSnapshot
    <2>. QED  BY <2>1, TableSteps DEF InFlight
  <1>4. Known' \subseteq Known \cup {x}
    BY <1>1, <1>2, <1>3 DEF Known
  <1>5. \A p \in Known : p.time # x.time
    BY <1>0, <1>1, KnownByNow
  <1>. QED  BY <1>4, <1>5 DEF OneOfATime

(***************************************************************************)
(* The handler and the tables.                                             *)
(***************************************************************************)
\* The steps between those that insert rows and the last one.
Quiet ==
    /\ UNCHANGED <<snapshots, changes>>
    /\ \A t \in Slots : slot'[t].pc = "read" =>
          slot'[t].prev = Latest(snapshots) \/ (slot[t].pc = "read" /\ slot'[t].prev = slot[t].prev)
    /\ \A t \in Slots : slot'[t].pc = "put" =>
          /\ slot[t].pc = "put" /\ slot'[t].snap = slot[t].snap
          /\ slot'[t].prev = slot[t].prev /\ slot'[t].todo = slot[t].todo
    /\ "handler" \in Faults \/ \A t \in Slots : slot[t].pc = "put" => slot'[t].pc = "put"

LEMMA HandlerSteps ==
    ASSUME TypeOK, [Next]_vars
    PROVE  (\E s \in Slots : PutSnapshot(s) \/ PutChange(s) \/ Accept(s)) \/ Quiet
  <1>0. slot \in [Slots -> SlotType]
    BY DEF TypeOK
  <1>. USE FreeFacts
  <1>1. CASE UNCHANGED <<slot, snapshots, changes>>
    BY <1>1 DEF Quiet
  <1>2. CASE Restart
    <2>1. \A t \in Slots : slot[t] \in SlotType /\ slot'[t] = Abandoned(slot[t])
      BY <1>0, <1>2 DEF Restart
    <2>2. \A t \in Slots : slot[t].pc = "put" => Abandoned(slot[t]).pc = "put"
      BY <1>0 DEF Abandoned, SlotType
    <2>3. UNCHANGED <<snapshots, changes>>
      BY <1>2 DEF Restart
    <2>. QED  BY <2>1, <2>2, <2>3, AbandonedFacts DEF Quiet
  <1>3. ASSUME NEW s \in Slots, AgentStep(s) PROVE Quiet
    <2>1. CASE Send(s)
      BY <1>0, <2>1 DEF Send, Quiet
    <2>2. CASE ReceiveAccepted(s)
      BY <1>0, <2>2 DEF ReceiveAccepted, Quiet
    <2>3. CASE ReceiveError(s)
      BY <1>0, <2>3 DEF ReceiveError, Quiet
    <2>4. CASE GiveUp(s)
      <3>1. /\ slot' = [slot EXCEPT ![s] = Abandoned(slot[s])] /\ UNCHANGED <<snapshots, changes>>
            /\ slot[s] \in SlotType
        BY <1>0, <2>4 DEF GiveUp
      <3>2. slot[s].pc = "put" => Abandoned(slot[s]).pc = "put"
        BY DEF Abandoned
      <3>. QED  BY <1>0, <3>1, <3>2, AbandonedFacts DEF Quiet
    <2>. QED  BY <1>3, <2>1, <2>2, <2>3, <2>4 DEF AgentStep
  <1>4. ASSUME NEW s \in Slots, Refuse(s) \/ LoseRequest(s) \/ HandlerFails(s) PROVE Quiet
    <2>1. \E o \in {"error", "lost"} : slot' = [slot EXCEPT ![s] = Answered(slot[s], o)]
      BY <1>4 DEF Refuse, LoseRequest, HandlerFails
    <2>2. UNCHANGED <<snapshots, changes>> /\ ("handler" \in Faults \/ slot[s].pc # "put")
      BY <1>4 DEF Refuse, LoseRequest, HandlerFails
    <2>. QED  BY <1>0, <2>1, <2>2, AnsweredFacts DEF Quiet, Pc
  <1>5. ASSUME NEW s \in Slots, ReadPrevious(s) PROVE Quiet
    BY <1>0, <1>5 DEF ReadPrevious, SlotType, Quiet
  <1>6. ASSUME NEW s \in Slots, LoseAnswer(s) PROVE Quiet
    BY <1>0, <1>6 DEF LoseAnswer, SlotType, Quiet
  <1>7. (\E r \in Readings : Tick(r)) \/ StopFlush \/ UNCHANGED vars => UNCHANGED <<slot, snapshots, changes>>
    BY DEF Tick, StopFlush, vars
  <1>. QED  BY <1>1, <1>2, <1>3, <1>4, <1>5, <1>6, <1>7 DEF Next, Handler, Fault

(***************************************************************************)
(* What two snapshots give rise to, and which snapshot is the latest.      *)
(***************************************************************************)
LEMMA ChangeFacts ==
    ASSUME NEW p \in Snapshot \cup {NoSnapshot}, NEW q \in Snapshot
    PROVE  /\ \A c \in ChangesBetween(p, q) : c.time = q.time
           /\ \A c, d \in ChangesBetween(p, q) : c.field = d.field => c = d
           /\ p = q => ChangesBetween(p, q) = {}
           /\ p = NoSnapshot => ChangesBetween(p, q) = {}
  <1>1. CASE p = NoSnapshot
    BY <1>1, SnapshotAssumption DEF ChangesBetween
  <1>2. CASE p \in Snapshot
    <2>1. p # NoSnapshot /\ p.fields \in FieldMap /\ q.fields \in FieldMap
      BY <1>2, SnapshotAssumption DEF Snapshot
    <2> DEFINE Row(c) == [time |-> q.time, field |-> c.field, old |-> c.old, new |-> c.new,
                          severity |-> c.severity]
    <2>2. ChangesBetween(p, q) = {Row(c) : c \in Diff(p.fields, q.fields)} \cup DriverDiff(p, q)
      BY <2>1 DEF ChangesBetween
    <2>3. \A c \in Diff(p.fields, q.fields) : c.field \in Keys
      BY <2>1, DiffType
    <2>4. \A c, d \in Diff(p.fields, q.fields) : c.field = d.field => c = d
      BY DEF Diff, DiffKey
    <2>5. \A c \in DriverDiff(p, q) : c.time = q.time /\ c.field = "driver"
      BY DEF DriverDiff
    <2>6. \A c, d \in DriverDiff(p, q) : c = d
      BY DEF DriverDiff
    <2>7. \A c \in Diff(p.fields, q.fields) : Row(c).time = q.time /\ Row(c).field = c.field
      OBVIOUS
    <2>8. \A c \in ChangesBetween(p, q) : c.time = q.time
      BY <2>2, <2>5, <2>7
    <2>9. \A c, d \in ChangesBetween(p, q) : c.field = d.field => c = d
      BY <2>2, <2>3, <2>4, <2>5, <2>6, <2>7, SnapshotAssumption
    <2>10. p = q => ChangesBetween(p, q) = {}
      <3>1. p = q => DriverDiff(p, q) = {}
        BY DEF DriverDiff
      <3>2. p = q => Diff(p.fields, q.fields) = {}
        BY <2>1, SelfDiff
      <3>. QED  BY <2>2, <3>1, <3>2
    <2>. QED  BY <2>1, <2>8, <2>9, <2>10
  <1>. QED  BY <1>1, <1>2

LEMMA LatestIsLast ==
    ASSUME NEW table \in Seq(Snapshot),
           \A i, j \in DOMAIN table : i < j => table[i].time <= table[j].time
    PROVE  /\ table = <<>> => Latest(table) = NoSnapshot
           /\ table # <<>> => Latest(table) = table[Len(table)] /\ table[Len(table)] \in ToSet(table)
  <1>1. Len(table) \in Nat /\ DOMAIN table = 1..Len(table)
    OBVIOUS
  <1>2. CASE table = <<>>
    BY <1>2 DEF Latest, LatestIds
  <1>3. CASE table # <<>>
    <2>1. Len(table) \in DOMAIN table
      BY <1>1, <1>3
    <2>2. \A i \in DOMAIN table : table[i].time \in Nat
      <3>1. \A i \in DOMAIN table : table[i] \in Snapshot
        BY <1>1
      <3>. QED  BY <3>1 DEF Snapshot
    <2>3. \A j \in DOMAIN table : table[j].time <= table[Len(table)].time
      BY <1>1, <2>1, <2>2
    <2>4. Len(table) \in LatestIds(table)
      BY <1>1, <2>1, <2>2, <2>3 DEF LatestIds
    <2>5. ASSUME NEW i \in LatestIds(table) PROVE i = Len(table)
      <3>1. i \in 1..Len(table)
        BY <1>1 DEF LatestIds
      <3>2. table[Len(table)].time <= table[i].time
        BY <2>1, <2>2, <2>5, <3>1, <1>1 DEF LatestIds
      <3>3. ~(table[Len(table)].time < table[i].time)
        BY <2>1, <2>2, <2>3, <3>1, <1>1
      <3>4. Len(table) <= i
        BY <1>1, <2>1, <2>2, <2>5, <3>1, <3>3 DEF LatestIds
      <3>5. i \in Nat /\ i <= Len(table)
        BY <1>1, <3>1
      <3>6. Len(table) \in Nat
        OBVIOUS
      <3>. QED  BY ONLY <3>4, <3>5, <3>6
    <2>6. LatestIds(table) = {Len(table)}
      BY <2>4, <2>5
    <2>. QED  BY <1>3, <2>1, <2>6 DEF Latest, ToSet
  <1>. QED  BY <1>2, <1>3

(***************************************************************************)
(* What the handler knows when it inserts changes.                         *)
(***************************************************************************)
\* The request's sample is newer than the one it is compared with.
Fresh(r) == r.prev = NoSnapshot \/ r.prev.time < r.snap.time

ReadsLatest == \A s \in Slots : slot[s].pc = "read" => slot[s].prev = Latest(snapshots)

\* Its sample is the last row; the one before is the newest of the others; the
\* changes are those still to insert and those already inserted.
Inserting(r) ==
    /\ snapshots # <<>> /\ r.snap = snapshots[Len(snapshots)]
    /\ r.prev # NoSnapshot => r.prev \in ToSet(snapshots)
    /\ r.todo \subseteq ChangesBetween(r.prev, r.snap)
    /\ r.prev # NoSnapshot /\ ~Fresh(r) => r.prev = r.snap /\ r.todo = {}
    /\ Fresh(r) =>
        /\ r.prev # NoSnapshot =>
             \A p \in ToSet(snapshots) : p.time <= r.prev.time \/ r.snap.time <= p.time
        /\ {c \in ToSet(changes) : c.time = r.snap.time} \cup r.todo = ChangesBetween(r.prev, r.snap)
    /\ \A c \in r.todo : \A d \in ToSet(changes) : c.time = d.time => c.field # d.field

InsertsInOrder == \A s \in Slots : slot[s].pc = "put" => Inserting(slot[s])

\* A change belongs to a stored sample.
LogTimes == \A c \in ToSet(changes) : c.time \in TimesIn(snapshots)

LogInv ==
    /\ OrderInv /\ OneOfATime
    /\ ReadsLatest /\ InsertsInOrder /\ LogTimes
    /\ RecordedOnce /\ DiffedAgainstPrevious

LEMMA LogInit == Init => LogInv
  <1>. SUFFICES ASSUME Init PROVE LogInv
    OBVIOUS
  <1>1. ToSet(<<>>) = {} /\ DOMAIN <<>> = {}
    BY DEF ToSet
  <1>2. \A s \in Slots : slot[s].pc = "free"
    BY FreeFacts DEF Init
  <1>3. Known = {}
    BY <1>1, <1>2 DEF Known, InFlight, Init, AgentInit
  <1>. QED  BY <1>1, <1>2, <1>3, OrderInit
            DEF Init, LogInv, OneOfATime, ReadsLatest, InsertsInOrder, LogTimes, RecordedOnce,
                DiffedAgainstPrevious

LEMMA LastRow ==
    ASSUME OrderInv
    PROVE  /\ snapshots = <<>> => Latest(snapshots) = NoSnapshot
           /\ snapshots # <<>> => /\ Latest(snapshots) = snapshots[Len(snapshots)]
                                  /\ Latest(snapshots) \in ToSet(snapshots)
                                  /\ Latest(snapshots) \in Snapshot
                                  /\ \A p \in ToSet(snapshots) : p.time <= Latest(snapshots).time
  <1>1. snapshots \in Seq(Snapshot) /\ ToSet(snapshots) \subseteq Snapshot
    BY OrderTypes
  <1>2. /\ snapshots = <<>> => Latest(snapshots) = NoSnapshot
        /\ snapshots # <<>> => /\ Latest(snapshots) = snapshots[Len(snapshots)]
                               /\ snapshots[Len(snapshots)] \in ToSet(snapshots)
    BY <1>1, LatestIsLast DEF OrderInv, StoredInOrder
  <1>3. ASSUME snapshots # <<>>, NEW i \in DOMAIN snapshots
        PROVE  snapshots[i].time <= snapshots[Len(snapshots)].time
    <2>1. DOMAIN snapshots = 1..Len(snapshots) /\ Len(snapshots) \in Nat \ {0}
      BY <1>1, <1>3
    <2>2. snapshots[i] \in Snapshot
      BY <1>1, <2>1
    <2>3. snapshots[i].time \in Nat
      BY <2>2 DEF Snapshot
    <2>4. CASE i = Len(snapshots)
      BY <2>3, <2>4
    <2>5. CASE i < Len(snapshots)
      BY <2>1, <2>5 DEF OrderInv, StoredInOrder
    <2>. QED  BY <2>1, <2>4, <2>5
  <1>. QED  BY <1>1, <1>2, <1>3 DEF ToSet

LEMMA QuietStep ==
    ASSUME OneAtATime, LogInv, [Next]_vars, Quiet
    PROVE  LogInv'
  <1>1. OrderInv' /\ OneOfATime'
    BY OrderStep, OneOfATimeStep DEF LogInv
  <1>2. snapshots' = snapshots /\ changes' = changes
    BY DEF Quiet
  <1>3. ReadsLatest'
    BY <1>2 DEF LogInv, ReadsLatest, Quiet
  <1>4. InsertsInOrder'
    <2>. SUFFICES ASSUME NEW s \in Slots, slot'[s].pc = "put" PROVE Inserting(slot[s])'
      BY DEF InsertsInOrder
    <2>1. /\ slot[s].pc = "put" /\ slot'[s].snap = slot[s].snap
          /\ slot'[s].prev = slot[s].prev /\ slot'[s].todo = slot[s].todo
      BY DEF Quiet
    <2>2. Inserting(slot[s])
      BY <2>1 DEF LogInv, InsertsInOrder
    <2>. QED  BY <1>2, <2>1, <2>2 DEF Inserting, Fresh
  <1>5. LogTimes' /\ RecordedOnce' /\ DiffedAgainstPrevious'
    BY <1>2 DEF LogInv, LogTimes, RecordedOnce, DiffedAgainstPrevious, TimesIn
  <1>. QED  BY <1>1, <1>3, <1>4, <1>5 DEF LogInv

LEMMA AcceptStep ==
    ASSUME OneAtATime, LogInv, [Next]_vars, NEW s \in Slots, Accept(s)
    PROVE  LogInv'
  <1>1. OrderInv' /\ OneOfATime'
    BY OrderStep, OneOfATimeStep DEF LogInv
  <1>2. snapshots' = snapshots /\ changes' = changes
    BY DEF Accept
  <1>3. \A t \in Slots : slot'[t].pc \in {"free", "ok"}
    <2>1. slot[s] \in SlotType /\ slot'[s] = Answered(slot[s], "ok")
      BY OrderTypes DEF LogInv, Accept
    <2>2. slot'[s].pc \in {"free", "ok"}
      BY <2>1, AnsweredFacts, FreeFacts DEF Pc
    <2>. QED  BY <2>2 DEF OneAtATime
  <1>4. LogTimes' /\ RecordedOnce' /\ DiffedAgainstPrevious'
    BY <1>2 DEF LogInv, LogTimes, RecordedOnce, DiffedAgainstPrevious, TimesIn
  <1>. QED  BY <1>1, <1>3, <1>4 DEF LogInv, ReadsLatest, InsertsInOrder

\* The step that stores a sample, and what its handler then knows.
LEMMA PutSnapshotFacts ==
    ASSUME OneAtATime, LogInv, NEW s \in Slots, PutSnapshot(s)
    PROVE  /\ slot[s].pc = "read" /\ slot[s].snap \in Snapshot
           /\ slot[s].prev = Latest(snapshots) /\ slot[s].prev \in Snapshot \cup {NoSnapshot}
           /\ snapshots' # <<>> /\ snapshots'[Len(snapshots')] = slot[s].snap
           /\ ToSet(snapshots') = ToSet(snapshots) \cup {slot[s].snap}
           /\ slot'[s].pc = "put" /\ slot'[s].snap = slot[s].snap /\ slot'[s].prev = slot[s].prev
           /\ slot'[s].todo = ChangesBetween(slot[s].prev, slot[s].snap)
           /\ changes' = changes
           /\ \A p \in ToSet(snapshots) : p.time <= slot[s].snap.time
           /\ slot[s].prev # NoSnapshot =>
                /\ slot[s].prev \in ToSet(snapshots)
                /\ \A p \in ToSet(snapshots) : p.time <= slot[s].prev.time
           /\ slot[s].prev = NoSnapshot => snapshots = <<>>
           /\ ~Fresh(slot[s]) => slot[s].prev = slot[s].snap
  <1>0. /\ slot \in [Slots -> SlotType] /\ snapshots \in Seq(Snapshot)
        /\ slot[s].pc = "read" /\ slot[s].snap \in Snapshot
        /\ snapshots' = Append(snapshots, slot[s].snap) /\ changes' = changes
    BY OrderTypes DEF LogInv, PutSnapshot
  <1>1. slot[s].prev = Latest(snapshots)
    BY <1>0 DEF LogInv, ReadsLatest
  <1>2. /\ snapshots' # <<>> /\ snapshots'[Len(snapshots')] = slot[s].snap
        /\ ToSet(snapshots') = ToSet(snapshots) \cup {slot[s].snap}
    <2>1. /\ Append(snapshots, slot[s].snap) # <<>>
          /\ Append(snapshots, slot[s].snap)[Len(Append(snapshots, slot[s].snap))] = slot[s].snap
      BY <1>0
    <2>. QED  BY <1>0, <2>1, AppendSet
  <1>3. /\ slot'[s].pc = "put" /\ slot'[s].snap = slot[s].snap /\ slot'[s].prev = slot[s].prev
        /\ slot'[s].todo = ChangesBetween(slot[s].prev, slot[s].snap)
    BY <1>0 DEF PutSnapshot, SlotType
  <1>4. \A p \in ToSet(snapshots) : p.time <= slot[s].snap.time
    BY <1>0 DEF LogInv, OrderInv, Ahead, TimesIn
  <1>5. /\ slot[s].prev \in Snapshot \cup {NoSnapshot}
        /\ slot[s].prev # NoSnapshot =>
                /\ slot[s].prev \in ToSet(snapshots)
                /\ \A p \in ToSet(snapshots) : p.time <= slot[s].prev.time
        /\ slot[s].prev = NoSnapshot => snapshots = <<>>
    BY <1>1, LastRow, SnapshotAssumption DEF LogInv
  <1>6. ASSUME ~Fresh(slot[s]) PROVE slot[s].prev = slot[s].snap
    <2>1. slot[s].prev \in ToSet(snapshots) /\ ~(slot[s].prev.time < slot[s].snap.time)
      BY <1>5, <1>6 DEF Fresh
    <2>2. slot[s].prev \in Known /\ slot[s].snap \in Known
      BY <1>0, <2>1 DEF Known, InFlight
    <2>3. slot[s].prev.time \in Nat /\ slot[s].snap.time \in Nat
      BY <2>2, KnownByNow DEF LogInv
    <2>4. slot[s].prev.time = slot[s].snap.time
      BY <1>4, <2>1, <2>3
    <2>. QED  BY <2>2, <2>4 DEF LogInv, OneOfATime
  <1>. QED  BY <1>0, <1>1, <1>2, <1>3, <1>4, <1>5, <1>6

LEMMA PutSnapshotStep ==
    ASSUME OneAtATime, LogInv, [Next]_vars, NEW s \in Slots, PutSnapshot(s)
    PROVE  LogInv'
  <1> DEFINE old == slot[s].prev
             new == slot[s].snap
  <1>1. OrderInv' /\ OneOfATime'
    BY OrderStep, OneOfATimeStep DEF LogInv
  <1>2. ReadsLatest'
    BY PutSnapshotFacts DEF ReadsLatest, OneAtATime
  <1>3. \A c \in ToSet(changes) : \E p \in ToSet(snapshots) : c.time = p.time
    BY DEF LogInv, LogTimes, TimesIn
  <1>4. LogTimes' /\ RecordedOnce'
    BY <1>3, PutSnapshotFacts DEF LogInv, LogTimes, RecordedOnce, TimesIn
  <1>5. DiffedAgainstPrevious'
    BY PutSnapshotFacts DEF LogInv, DiffedAgainstPrevious
  <1>6. Inserting(slot[s])'
    <2>1. ASSUME Fresh(slot[s]), NEW c \in ToSet(changes) PROVE c.time # new.time
      <3>1. PICK p \in ToSet(snapshots) : c.time = p.time
        BY <1>3
      <3>2. old # NoSnapshot
        BY <3>1, PutSnapshotFacts DEF ToSet
      <3>3. p.time <= old.time /\ old.time < new.time
        BY <2>1, <3>2, PutSnapshotFacts DEF Fresh
      <3>4. p \in Snapshot /\ old \in Snapshot /\ new \in Snapshot
        BY <3>2, OrderTypes, PutSnapshotFacts DEF LogInv
      <3>. QED  BY <3>1, <3>3, <3>4 DEF Snapshot
    <2>2. ~Fresh(slot[s]) => old = new /\ ChangesBetween(old, new) = {}
      BY PutSnapshotFacts, ChangeFacts
    <2>3. \A c \in ChangesBetween(old, new) : c.time = new.time
      BY PutSnapshotFacts, ChangeFacts
    <2>4. Fresh(slot[s])' <=> Fresh(slot[s])
      BY PutSnapshotFacts DEF Fresh
    <2>5. /\ snapshots' # <<>> /\ slot'[s].snap = snapshots'[Len(snapshots')]
          /\ slot'[s].prev # NoSnapshot => slot'[s].prev \in ToSet(snapshots')
          /\ slot'[s].todo \subseteq ChangesBetween(slot'[s].prev, slot'[s].snap)
          /\ slot'[s].prev # NoSnapshot /\ ~Fresh(slot[s])' =>
               slot'[s].prev = slot'[s].snap /\ slot'[s].todo = {}
      BY <2>2, <2>4, PutSnapshotFacts
    <2>6. Fresh(slot[s])' =>
            {c \in ToSet(changes') : c.time = slot'[s].snap.time} \cup slot'[s].todo
                = ChangesBetween(slot'[s].prev, slot'[s].snap)
      BY <2>1, <2>4, PutSnapshotFacts
    <2>7. slot'[s].prev # NoSnapshot =>
            \A p \in ToSet(snapshots') : p.time <= slot'[s].prev.time \/ slot'[s].snap.time <= p.time
      <3>1. new.time \in Nat
        BY PutSnapshotFacts DEF Snapshot
      <3>. QED  BY <3>1, PutSnapshotFacts
    <2>8. \A c \in slot'[s].todo : \A d \in ToSet(changes') : c.time # d.time
      BY <2>1, <2>2, <2>3, PutSnapshotFacts
    <2>. QED  BY <2>5, <2>6, <2>7, <2>8 DEF Inserting
  <1>7. InsertsInOrder'
    BY <1>6 DEF InsertsInOrder, OneAtATime
  <1>. QED  BY <1>1, <1>2, <1>4, <1>5, <1>7 DEF LogInv

\* A row comes at the end of a table.
LEMMA AppendDistinct ==
    ASSUME NEW q \in Seq(Change), NEW e \in Change,
           \A i, j \in DOMAIN q : q[i].time = q[j].time /\ q[i].field = q[j].field => i = j,
           \A d \in ToSet(q) : e.time = d.time => e.field # d.field
    PROVE  \A i, j \in DOMAIN Append(q, e) :
             Append(q, e)[i].time = Append(q, e)[j].time /\ Append(q, e)[i].field = Append(q, e)[j].field
               => i = j
  <1>1. /\ DOMAIN Append(q, e) = 1..(Len(q) + 1) /\ DOMAIN q = 1..Len(q) /\ Len(q) \in Nat
        /\ \A i \in 1..Len(q) : Append(q, e)[i] = q[i]
        /\ Append(q, e)[Len(q) + 1] = e
    OBVIOUS
  <1>2. \A i \in 1..Len(q) : e.time = q[i].time => e.field # q[i].field
    BY <1>1 DEF ToSet
  <1>3. \A i \in 1..(Len(q) + 1) : i \in 1..Len(q) \/ i = Len(q) + 1
    BY <1>1
  <1>. QED  BY <1>1, <1>2, <1>3

LEMMA PutChangeStep ==
    ASSUME OneAtATime, LogInv, [Next]_vars, NEW s \in Slots, PutChange(s)
    PROVE  LogInv'
  <1>1. OrderInv' /\ OneOfATime'
    BY OrderStep, OneOfATimeStep DEF LogInv
  <1>2. slot \in [Slots -> SlotType] /\ snapshots' = snapshots /\ slot[s].pc = "put"
    BY OrderTypes DEF LogInv, PutChange
  <1>3. PICK c \in slot[s].todo : /\ changes' = Append(changes, c)
                                  /\ slot' = [slot EXCEPT ![s].todo = slot[s].todo \ {c}]
    BY DEF PutChange
  <1>4. /\ slot'[s].pc = "put" /\ slot'[s].snap = slot[s].snap /\ slot'[s].prev = slot[s].prev
        /\ slot'[s].todo = slot[s].todo \ {c} /\ c \in Change /\ changes \in Seq(Change)
    BY <1>2, <1>3, OrderTypes DEF SlotType, LogInv
  <1>5. ToSet(changes') = ToSet(changes) \cup {c}
    BY <1>3, <1>4, AppendSet
  <1>6. Inserting(slot[s])
    BY <1>2 DEF LogInv, InsertsInOrder
  <1>7. /\ slot[s].snap \in Snapshot /\ slot[s].prev \in Snapshot /\ slot[s].prev \in ToSet(snapshots)
        /\ slot[s].snap \in ToSet(snapshots) /\ c \in ChangesBetween(slot[s].prev, slot[s].snap)
    <2>1. slot[s].snap \in Snapshot /\ slot[s].prev \in Snapshot \cup {NoSnapshot}
      BY <1>2, OrderTypes DEF LogInv, SlotType
    <2>2. c \in ChangesBetween(slot[s].prev, slot[s].snap)
      BY <1>3, <1>6 DEF Inserting
    <2>3. slot[s].prev # NoSnapshot
      BY <2>1, <2>2, ChangeFacts
    <2>4. slot[s].prev \in ToSet(snapshots)
      BY <1>6, <2>3 DEF Inserting
    <2>5. slot[s].snap \in ToSet(snapshots)
      BY <1>2 DEF LogInv, OrderInv, IInv, Handshake, HandlerStored
    <2>. QED  BY <2>1, <2>2, <2>3, <2>4, <2>5
  <1>8. Fresh(slot[s])
    BY <1>3, <1>6, <1>7, SnapshotAssumption DEF Inserting
  <1>9. c.time = slot[s].snap.time
    BY <1>7, ChangeFacts
  <1>10. LogTimes'
    BY <1>2, <1>5, <1>7, <1>9 DEF LogInv, LogTimes, TimesIn
  <1>11. RecordedOnce'
    <2>1. \A d \in ToSet(changes) : c.time = d.time => c.field # d.field
      BY <1>3, <1>6 DEF Inserting
    <2>. QED  BY <1>3, <1>4, <2>1, AppendDistinct DEF LogInv, RecordedOnce
  <1>12. DiffedAgainstPrevious'
    <2>1. slot[s].prev.time < slot[s].snap.time
      BY <1>7, <1>8, SnapshotAssumption DEF Fresh
    <2>2. \A p \in ToSet(snapshots) : p.time <= slot[s].prev.time \/ slot[s].snap.time <= p.time
      BY <1>6, <1>7, <1>8, SnapshotAssumption DEF Inserting
    <2>. QED  BY <1>2, <1>5, <1>7, <2>1, <2>2 DEF LogInv, DiffedAgainstPrevious
  <1>13. Inserting(slot[s])'
    <2>1. Fresh(slot[s])'
      BY <1>4, <1>8 DEF Fresh
    <2>2. {d \in ToSet(changes') : d.time = slot'[s].snap.time} \cup slot'[s].todo
            = ChangesBetween(slot'[s].prev, slot'[s].snap)
      <3>1. {d \in ToSet(changes) : d.time = slot[s].snap.time} \cup slot[s].todo
              = ChangesBetween(slot[s].prev, slot[s].snap)
        BY <1>6, <1>8 DEF Inserting
      <3>2. {d \in ToSet(changes') : d.time = slot[s].snap.time} \cup slot'[s].todo
              = {d \in ToSet(changes) : d.time = slot[s].snap.time} \cup slot[s].todo
        BY <1>3, <1>4, <1>5, <1>9
      <3>. QED  BY <1>4, <3>1, <3>2
    <2>3. \A d \in slot'[s].todo : \A e \in ToSet(changes') : d.time = e.time => d.field # e.field
      <3>. SUFFICES ASSUME NEW d \in slot[s].todo \ {c}, NEW e \in ToSet(changes) \cup {c}, d.time = e.time
                    PROVE  d.field # e.field
        BY <1>4, <1>5
      <3>1. CASE e = c
        <4>1. d \in ChangesBetween(slot[s].prev, slot[s].snap)
          BY <1>6 DEF Inserting
        <4>. QED  BY <1>7, <3>1, <4>1, ChangeFacts
      <3>2. CASE e \in ToSet(changes)
        BY <1>6, <3>2 DEF Inserting
      <3>. QED  BY <3>1, <3>2
    <2>4. /\ snapshots' # <<>> /\ slot'[s].snap = snapshots'[Len(snapshots')]
          /\ slot'[s].prev \in ToSet(snapshots')
          /\ \A p \in ToSet(snapshots') : p.time <= slot'[s].prev.time \/ slot'[s].snap.time <= p.time
          /\ slot'[s].todo \subseteq ChangesBetween(slot'[s].prev, slot'[s].snap)
      BY <1>2, <1>4, <1>6, <1>7, <1>8, SnapshotAssumption DEF Inserting
    <2>. QED  BY <2>1, <2>2, <2>3, <2>4 DEF Inserting
  <1>14. InsertsInOrder' /\ ReadsLatest'
    BY <1>4, <1>13 DEF InsertsInOrder, ReadsLatest, OneAtATime
  <1>. QED  BY <1>1, <1>10, <1>11, <1>12, <1>14 DEF LogInv

LEMMA LogStep == ASSUME OneAtATime, LogInv, [Next]_vars PROVE LogInv'
  BY HandlerSteps, QuietStep, PutSnapshotStep, PutChangeStep, AcceptStep DEF LogInv, OrderInv, IInv

LEMMA LogInvariance == ASSUME OneAtATime PROVE Spec => []LogInv
  <1>1. LogInv /\ [Next]_vars => LogInv'
    BY LogStep
  <1>. QED  BY <1>1, LogInit, PTL DEF Spec

\* A change is recorded once, however often its sample is posted, and whatever
\* stops its handlers: a sample posted again is compared with itself.
THEOREM ChangesOnce == ASSUME OneAtATime PROVE Spec => []RecordedOnce
  BY LogInvariance, PTL DEF LogInv

\* Every record leads from a stored sample to the next newer one.
THEOREM ChangesBetweenNeighbours == ASSUME OneAtATime PROVE Spec => []DiffedAgainstPrevious
  BY LogInvariance, PTL DEF LogInv

(***************************************************************************)
(* Handlers that run to their end lose no change.                          *)
(***************************************************************************)
\* Of every two neighbouring rows the changes are inserted or about to be.
PairsRecorded ==
    \A i \in 1..(Len(snapshots) - 1) : \A c \in ChangesBetween(snapshots[i], snapshots[i + 1]) :
        c \in ToSet(changes) \/ \E s \in Slots : slot[s].pc = "put" /\ c \in slot[s].todo

LEMMA PairsStep ==
    ASSUME OneAtATime, "handler" \notin Faults, LogInv, PairsRecorded, [Next]_vars
    PROVE  PairsRecorded'
  <1>0. slot \in [Slots -> SlotType] /\ snapshots \in Seq(Snapshot) /\ changes \in Seq(Change)
    BY OrderTypes DEF LogInv
  <1>1. CASE Quiet
    <2>1. snapshots' = snapshots /\ changes' = changes
      BY <1>1 DEF Quiet
    <2>2. \A t \in Slots : slot[t].pc = "put" => slot'[t].pc = "put" /\ slot'[t].todo = slot[t].todo
      BY <1>1 DEF Quiet
    <2>. QED  BY <2>1, <2>2 DEF PairsRecorded
  <1>2. ASSUME NEW s \in Slots, Accept(s) PROVE PairsRecorded'
    <2>1. snapshots' = snapshots /\ changes' = changes /\ slot[s].todo = {}
      BY <1>2 DEF Accept
    <2>. QED  BY <2>1 DEF PairsRecorded, OneAtATime
  <1>3. ASSUME NEW s \in Slots, PutChange(s) PROVE PairsRecorded'
    <2>1. PICK c \in slot[s].todo : /\ changes' = Append(changes, c)
                                    /\ slot' = [slot EXCEPT ![s].todo = slot[s].todo \ {c}]
      BY <1>3 DEF PutChange
    <2>2. slot[s].pc = "put" /\ slot'[s].pc = "put" /\ slot'[s].todo = slot[s].todo \ {c}
          /\ c \in Change /\ snapshots' = snapshots
      BY <1>0, <1>3, <2>1 DEF PutChange, SlotType
    <2>3. ToSet(changes') = ToSet(changes) \cup {c}
      BY <1>0, <2>1, <2>2, AppendSet
    <2>. QED  BY <2>2, <2>3 DEF PairsRecorded, OneAtATime
  <1>4. ASSUME NEW s \in Slots, PutSnapshot(s) PROVE PairsRecorded'
    <2>1. /\ snapshots' = Append(snapshots, slot[s].snap) /\ slot[s].pc = "read"
          /\ slot[s].snap \in Snapshot /\ changes' = changes
          /\ slot'[s].pc = "put" /\ slot'[s].todo = ChangesBetween(Latest(snapshots), slot[s].snap)
      BY <1>4, PutSnapshotFacts DEF PutSnapshot
    <2>2. /\ Len(snapshots') = Len(snapshots) + 1 /\ Len(snapshots) \in Nat
          /\ \A i \in 1..Len(snapshots) : snapshots'[i] = snapshots[i]
          /\ snapshots'[Len(snapshots) + 1] = slot[s].snap
      BY <1>0, <2>1
    <2>3. snapshots # <<>> => Latest(snapshots) = snapshots[Len(snapshots)]
      BY LastRow DEF LogInv
    <2>. SUFFICES ASSUME NEW i \in 1..Len(snapshots),
                         NEW c \in ChangesBetween(snapshots'[i], snapshots'[i + 1])
                  PROVE  c \in ToSet(changes) \/ c \in slot'[s].todo
      BY <2>1, <2>2 DEF PairsRecorded
    <2>4. CASE i = Len(snapshots)
      <3>1. snapshots # <<>>
        BY <2>2, <2>4
      <3>. QED  BY <2>1, <2>2, <2>3, <2>4, <3>1
    <2>5. CASE i # Len(snapshots)
      <3>1. i \in 1..(Len(snapshots) - 1) /\ i + 1 \in 1..Len(snapshots)
        BY <2>2, <2>5
      <3>2. c \in ChangesBetween(snapshots[i], snapshots[i + 1])
        BY <2>2, <3>1
      <3>3. \A t \in Slots : slot[t].pc # "put"
        BY <2>1 DEF OneAtATime
      <3>. QED  BY <3>1, <3>2, <3>3 DEF PairsRecorded
    <2>. QED  BY <2>4, <2>5
  <1>. QED  BY <1>1, <1>2, <1>3, <1>4, HandlerSteps DEF LogInv, OrderInv, IInv

\* "Diffs it against the previous agent snapshot for that node, and stores
\* both": once no handler is at work on a sample, its changes are in the log.
THEOREM NoChangeMissed ==
    ASSUME OneAtATime, "handler" \notin Faults
    PROVE  Spec => []EveryChangeRecorded
  <1>1. Init => PairsRecorded
    BY DEF Init, PairsRecorded
  <1>2. LogInv /\ PairsRecorded /\ [Next]_vars => PairsRecorded'
    BY PairsStep
  <1>3. LogInv /\ [Next]_vars => LogInv'
    BY LogStep
  <1>4. ASSUME LogInv, PairsRecorded PROVE EveryChangeRecorded
    <2>. SUFFICES ASSUME NEW i \in 1..(Len(snapshots) - 1),
                         NEW c \in ChangesBetween(snapshots[i], snapshots[i + 1]), c \notin ToSet(changes)
                  PROVE  AtWork(snapshots[i + 1].time)
      BY DEF EveryChangeRecorded
    <2>1. PICK s \in Slots : slot[s].pc = "put" /\ c \in slot[s].todo
      BY <1>4 DEF PairsRecorded
    <2>2. snapshots[i] \in Snapshot /\ snapshots[i + 1] \in Snapshot
      <3>1. snapshots \in Seq(Snapshot)
        BY <1>4, OrderTypes DEF LogInv
      <3>2. Len(snapshots) \in Nat /\ i \in 1..Len(snapshots) /\ i + 1 \in 1..Len(snapshots)
        BY <3>1
      <3>. QED  BY <3>1, <3>2
    <2>3. c.time = snapshots[i + 1].time
      BY <2>2, ChangeFacts
    <2>4. slot[s].prev \in Snapshot \cup {NoSnapshot} /\ slot[s].snap \in Snapshot
      BY <1>4, <2>1, OrderTypes DEF LogInv, SlotType
    <2>5. c \in ChangesBetween(slot[s].prev, slot[s].snap)
      BY <1>4, <2>1 DEF LogInv, InsertsInOrder, Inserting
    <2>6. c.time = slot[s].snap.time
      BY <2>4, <2>5, ChangeFacts
    <2>. QED  BY <2>1, <2>3, <2>6 DEF AtWork
  <1>. QED  BY <1>1, <1>2, <1>3, <1>4, LogInit, PTL DEF Spec

(***************************************************************************)
(* The handlers implement the change log: a sample and its changes are     *)
(* recorded in one step, the one in which the handler answers.             *)
(***************************************************************************)
\* ChangeLog's own copies of the operators of Snapshots.
LEMMA SameOperators ==
    /\ CL!Snapshot = Snapshot
    /\ \A p, q : CL!ChangesBetween(p, q) = ChangesBetween(p, q)
  <1>1. CL!Field = Field /\ CL!FieldMap = FieldMap
    BY DEF CL!Field, Field, CL!FieldMap, FieldMap, CL!Present, Present, CL!Absent, Absent,
           CL!NotApplicable, NotApplicable, CL!Unknown, Unknown
  <1>2. \A f, g : CL!Classify(f, g) = Classify(f, g)
    BY DEF CL!Classify, Classify, CL!Comparable, Comparable, CL!SameField, SameField
  <1>3. \A m, k : CL!Reading(m, k) = Reading(m, k)
    BY DEF CL!Reading, Reading, CL!Unknown, Unknown
  <1>4. \A m, n, k : CL!DiffKey(m, n, k) = DiffKey(m, n, k)
    BY <1>2, <1>3 DEF CL!DiffKey, DiffKey
  <1>5. \A m, n : CL!Diff(m, n) = Diff(m, n)
    BY <1>2, <1>3, <1>4 DEF CL!Diff, Diff
  <1>6. \A p, q : CL!DriverDiff(p, q) = DriverDiff(p, q)
    BY DEF CL!DriverDiff, DriverDiff, CL!DriverField, DriverField
  <1>. QED  BY <1>1, <1>5, <1>6 DEF CL!Snapshot, Snapshot, CL!ChangesBetween, ChangesBetween

LEMMA RecordStep ==
    ASSUME OneAtATime, "handler" \notin Faults, LogInv, [Next]_vars
    PROVE  CL!Record \/ UNCHANGED <<LatestRecorded, RecordedChanges>>
  <1>0. /\ slot \in [Slots -> SlotType] /\ snapshots \in Seq(Snapshot) /\ changes \in Seq(Change)
        /\ LogInv'
    BY OrderTypes, LogStep DEF LogInv
  <1>a. ASSUME NEW s \in Slots, Recording(s)
        PROVE  /\ LatestRecorded = slot[s].prev
               /\ RecordedChanges = {c \in ToSet(changes) : c.time # slot[s].snap.time}
    BY <1>a DEF LatestRecorded, RecordedChanges, OneAtATime
  <1>b. ASSUME \A s \in Slots : ~Recording(s)
        PROVE  LatestRecorded = Latest(snapshots) /\ RecordedChanges = ToSet(changes)
    BY <1>b DEF LatestRecorded, RecordedChanges
  <1>c. ASSUME NEW s \in Slots, Recording(s)'
        PROVE  /\ LatestRecorded' = slot'[s].prev
               /\ RecordedChanges' = {c \in ToSet(changes') : c.time # slot'[s].snap.time}
    BY <1>c DEF LatestRecorded, RecordedChanges, OneAtATime
  <1>d. ASSUME \A s \in Slots : ~Recording(s)'
        PROVE  LatestRecorded' = Latest(snapshots') /\ RecordedChanges' = ToSet(changes')
    BY <1>d DEF LatestRecorded, RecordedChanges
  <1>1. CASE Quiet
    <2>1. snapshots' = snapshots /\ changes' = changes
      BY <1>1 DEF Quiet
    <2>2. \A t \in Slots : Recording(t)' => Recording(t) /\ slot'[t].prev = slot[t].prev /\ slot'[t].snap = slot[t].snap
      BY <1>1 DEF Quiet, Recording
    <2>3. \A t \in Slots : Recording(t) => Recording(t)'
      BY <1>1 DEF Quiet, Recording
    <2>4. CASE \A t \in Slots : ~Recording(t)
      BY <1>b, <1>d, <2>1, <2>2, <2>4
    <2>5. ASSUME NEW s \in Slots, Recording(s) PROVE UNCHANGED <<LatestRecorded, RecordedChanges>>
      <3>1. Recording(s)' /\ slot'[s].prev = slot[s].prev /\ slot'[s].snap = slot[s].snap
        BY <2>2, <2>3, <2>5
      <3>2. /\ LatestRecorded = slot[s].prev
            /\ RecordedChanges = {c \in ToSet(changes) : c.time # slot[s].snap.time}
        BY <1>a, <2>5
      <3>3. /\ LatestRecorded' = slot'[s].prev
            /\ RecordedChanges' = {c \in ToSet(changes') : c.time # slot'[s].snap.time}
        BY <1>c, <3>1
      <3>. QED  BY <2>1, <3>1, <3>2, <3>3
    <2>. QED  BY <2>4, <2>5
  <1>2. ASSUME NEW s \in Slots, PutSnapshot(s) PROVE UNCHANGED <<LatestRecorded, RecordedChanges>>
    <2>1. \A t \in Slots : ~Recording(t)
      BY <1>2, PutSnapshotFacts DEF Recording, OneAtATime
    <2>2. LatestRecorded = slot[s].prev /\ RecordedChanges = ToSet(changes)
      BY <1>2, <1>b, <2>1, PutSnapshotFacts
    <2>3. CASE Fresh(slot[s])
      <3>1. Recording(s)'
        BY <1>2, <2>3, PutSnapshotFacts DEF Recording, Fresh
      <3>2. LatestRecorded' = slot[s].prev
        BY <1>2, <1>c, <3>1, PutSnapshotFacts
      <3>3. ASSUME NEW c \in ToSet(changes) PROVE c.time # slot[s].snap.time
        <4>1. PICK p \in ToSet(snapshots) : c.time = p.time
          BY DEF LogInv, LogTimes, TimesIn
        <4>2. slot[s].prev # NoSnapshot
          BY <1>2, <4>1, PutSnapshotFacts DEF ToSet
        <4>3. p.time <= slot[s].prev.time /\ slot[s].prev.time < slot[s].snap.time
          BY <1>2, <2>3, <4>2, PutSnapshotFacts DEF Fresh
        <4>4. p \in Snapshot /\ slot[s].prev \in Snapshot /\ slot[s].snap \in Snapshot
          BY <1>2, <4>2, OrderTypes, PutSnapshotFacts DEF LogInv
        <4>. QED  BY <4>1, <4>3, <4>4 DEF Snapshot
      <3>4. RecordedChanges' = {c \in ToSet(changes) : c.time # slot[s].snap.time}
        BY <1>2, <1>c, <3>1, PutSnapshotFacts
      <3>. QED  BY <2>2, <3>2, <3>3, <3>4
    <2>4. CASE ~Fresh(slot[s])
      <3>1. \A t \in Slots : ~Recording(t)'
        BY <1>2, <2>4, PutSnapshotFacts DEF Recording, Fresh, OneAtATime
      <3>2. LatestRecorded' = snapshots'[Len(snapshots')]
        <4>1. /\ snapshots' \in Seq(Snapshot)
              /\ \A i, j \in DOMAIN snapshots' : i < j => snapshots'[i].time <= snapshots'[j].time
          BY <1>0 DEF LogInv, OrderInv, StoredInOrder, IInv, TypeOK
        <4>. QED  BY <1>2, <1>d, <3>1, <4>1, PutSnapshotFacts, LatestIsLast
      <3>3. RecordedChanges' = ToSet(changes)
        BY <1>2, <1>d, <3>1, PutSnapshotFacts
      <3>. QED  BY <1>2, <2>2, <2>4, <3>2, <3>3, PutSnapshotFacts
    <2>. QED  BY <2>3, <2>4
  <1>3. ASSUME NEW s \in Slots, PutChange(s) PROVE UNCHANGED <<LatestRecorded, RecordedChanges>>
    <2>1. PICK c \in slot[s].todo : /\ changes' = Append(changes, c)
                                    /\ slot' = [slot EXCEPT ![s].todo = slot[s].todo \ {c}]
      BY <1>3 DEF PutChange
    <2>2. /\ slot[s].pc = "put" /\ slot'[s].pc = "put" /\ c \in Change
          /\ slot'[s].prev = slot[s].prev /\ slot'[s].snap = slot[s].snap
      BY <1>0, <1>3, <2>1 DEF PutChange, SlotType
    <2>3. ToSet(changes') = ToSet(changes) \cup {c}
      BY <1>0, <2>1, <2>2, AppendSet
    <2>4. Inserting(slot[s]) /\ slot[s].snap \in Snapshot /\ slot[s].prev \in Snapshot \cup {NoSnapshot}
      BY <1>0, <2>2, OrderTypes DEF LogInv, InsertsInOrder, SlotType
    <2>5. c.time = slot[s].snap.time
      BY <2>1, <2>4, ChangeFacts DEF Inserting
    <2>6. Recording(s) /\ Recording(s)'
      BY <2>1, <2>2, <2>4 DEF Inserting, Fresh, Recording
    <2>. QED  BY <1>a, <1>c, <2>2, <2>3, <2>5, <2>6
  <1>4. ASSUME NEW s \in Slots, Accept(s) PROVE CL!Record \/ UNCHANGED <<LatestRecorded, RecordedChanges>>
    <2>1. slot[s].pc = "put" /\ slot[s].todo = {} /\ snapshots' = snapshots /\ changes' = changes
      BY <1>4 DEF Accept
    <2>2. \A t \in Slots : ~Recording(t)'
      <3>1. slot'[s] = Answered(slot[s], "ok") /\ slot[s] \in SlotType
        BY <1>0, <1>4 DEF Accept
      <3>2. slot'[s].pc # "put"
        BY <3>1, AnsweredFacts, FreeFacts DEF Pc
      <3>. QED  BY <3>2 DEF Recording, OneAtATime
    <2>3. Inserting(slot[s]) /\ slot[s].snap \in Snapshot
      BY <2>1, OrderTypes DEF LogInv, InsertsInOrder
    <2>4. LatestRecorded' = slot[s].snap /\ RecordedChanges' = ToSet(changes)
      BY <1>d, <2>1, <2>2, <2>3, LastRow DEF LogInv, Inserting
    <2>5. CASE Recording(s)
      <3>1. Fresh(slot[s])
        BY <2>5 DEF Recording, Fresh
      <3>2. {c \in ToSet(changes) : c.time = slot[s].snap.time} = ChangesBetween(slot[s].prev, slot[s].snap)
        BY <2>1, <2>3, <3>1 DEF Inserting
      <3>3. LatestRecorded = slot[s].prev
        BY <1>a, <2>5
      <3>4. RecordedChanges' = RecordedChanges \cup ChangesBetween(LatestRecorded, LatestRecorded')
        BY <1>a, <2>4, <2>5, <3>2, <3>3
      <3>. QED  BY <2>3, <2>4, <3>1, <3>3, <3>4, SameOperators DEF CL!Record, Fresh
    <2>6. CASE ~Recording(s)
      <3>1. \A t \in Slots : ~Recording(t)
        BY <2>6 DEF OneAtATime
      <3>2. LatestRecorded = slot[s].snap
        BY <1>b, <2>1, <2>3, <3>1, LastRow DEF LogInv, Inserting
      <3>. QED  BY <1>b, <2>4, <3>1, <3>2
    <2>. QED  BY <2>5, <2>6
  <1>. QED  BY <1>1, <1>2, <1>3, <1>4, HandlerSteps DEF LogInv, OrderInv, IInv

\* Samples and their changes are recorded together and in order, whatever is
\* lost, delayed and repeated, as long as no handler stops half-way.
THEOREM LogImplemented ==
    ASSUME OneAtATime, "handler" \notin Faults
    PROVE  Spec => ImplementsChangeLog
  <1>1. Init => CL!Init
    <2>1. Latest(<<>>) = NoSnapshot /\ ToSet(<<>>) = {}
      BY DEF Latest, LatestIds, ToSet
    <2>. QED  BY <2>1, FreeFacts DEF Init, CL!Init, LatestRecorded, RecordedChanges, Recording
  <1>2. LogInv /\ [Next]_vars => [CL!Record]_<<LatestRecorded, RecordedChanges>>
    BY RecordStep
  <1>3. Spec => []LogInv
    BY LogInvariance
  <1>. QED  BY <1>1, <1>2, <1>3, PTL DEF Spec, ImplementsChangeLog, CL!Spec
=============================================================================
