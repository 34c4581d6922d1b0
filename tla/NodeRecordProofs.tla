--------------------------- MODULE NodeRecordProofs ---------------------------
(***************************************************************************)
(* Proofs about the api snapshots of a node, for any objects, clock and    *)
(* failures.                                                               *)
(*                                                                         *)
(* That no snapshot repeats the one before it is not inductive: the        *)
(* handler compares with the newest snapshot by time, and inserts after    *)
(* the last one by id.  The two are the same as long as the clock does not *)
(* go back, because then no row is younger than the handler's snapshot     *)
(* (Behind), and only the handler inserts (ComparedWithLatest).            *)
(***************************************************************************)
EXTENDS NodeRecord, FieldsProofs

ClockForward == ClockSteps \subseteq Nat

\* Rows are in order of time, and none is ahead of t.
Behind(t) ==
    /\ \A i, j \in DOMAIN table : i < j => table[i].time <= table[j].time
    /\ \A i \in DOMAIN table : table[i].time <= t

ComparedWithLatest ==
    /\ handler.snap \in Snapshot /\ handler.snap.time <= clock
    /\ Behind(handler.snap.time)
    /\ handler.prev = Latest(table)
    /\ handler.prev # NoSnapshot => ~FieldsEqual(handler.prev.fields, handler.snap.fields)

WriteInv ==
    /\ NodeTypeOK
    /\ Behind(clock)
    /\ handler.at = "insert" => ComparedWithLatest
    /\ UnchangedWritesNothing

LEMMA Bounds == MaxTime \in Nat /\ MaxEdits \in Nat
  BY Zenon, NodeAssumption

LEMMA NodeSnapshotType ==
    ASSUME clock \in Nat, NEW o \in Objects
    PROVE  NodeSnapshot(o) \in Snapshot /\ NodeSnapshot(o).time = clock
  <1>1. \A k \in Keys : o[k] \in Values \cup {Nil}
    BY NodeAssumption
  <1>2. [k \in Keys |-> IF o[k] = Nil THEN Absent ELSE Present(o[k])] \in [Keys -> Field]
    BY <1>1 DEF Field
  <1>3. [Keys -> Field] \subseteq FieldMap
    BY DEF FieldMap
  <1>. QED  BY <1>2, <1>3, NodeAssumption DEF NodeSnapshot, Snapshot

LEMMA ApiChangesType ==
    ASSUME NEW p \in Snapshot \cup {NoSnapshot}, NEW q \in Snapshot
    PROVE  ChangesBetween(p, q) \subseteq Change
  <1>1. CASE p = NoSnapshot
    BY <1>1 DEF ChangesBetween
  <1>2. CASE p # NoSnapshot
    <2>1. p \in Snapshot /\ p.fields \in FieldMap /\ q.fields \in FieldMap /\ q.time \in Nat
      BY <1>2 DEF Snapshot
    <2>2. {[time |-> q.time, field |-> c.field, old |-> c.old, new |-> c.new,
            severity |-> c.severity] : c \in Diff(p.fields, q.fields)} \subseteq Change
      BY <2>1, DiffType DEF Change, AnyField
    <2>3. DriverDiff(p, q) = {}
      BY <2>1, NodeAssumption DEF DriverDiff, Snapshot
    <2>. QED  BY <1>2, <2>2, <2>3 DEF ChangesBetween
  <1>. QED  BY <1>1, <1>2

\* What LatestSnapshot returns is a row, and the last one if the rows are in order.
LEMMA LatestType ==
    ASSUME table \in Seq(Snapshot)
    PROVE  Latest(table) \in Snapshot \cup {NoSnapshot}
  <1>1. CASE LatestIds(table) = {}
    BY <1>1 DEF Latest
  <1>2. CASE LatestIds(table) # {}
    <2>1. PICK i \in DOMAIN table : Latest(table) = table[i]
      BY <1>2 DEF Latest, LatestIds
    <2>. QED  BY <2>1
  <1>. QED  BY <1>1, <1>2

LEMMA LatestOfOrdered ==
    ASSUME NEW rows \in Seq(Snapshot), rows # <<>>,
           \A i, j \in DOMAIN rows : i < j => rows[i].time <= rows[j].time
    PROVE  Latest(rows) = rows[Len(rows)] /\ Latest(rows) # NoSnapshot
  <1>1. Len(rows) \in Nat \ {0} /\ DOMAIN rows = 1..Len(rows)
    OBVIOUS
  <1>2. \A i \in DOMAIN rows : rows[i] \in Snapshot /\ rows[i].time \in Nat
    <2>1. \A i \in DOMAIN rows : rows[i] \in Snapshot
      BY <1>1
    <2>. QED  BY <2>1 DEF Snapshot
  <1>3. \A j \in DOMAIN rows : rows[j].time <= rows[Len(rows)].time
    BY <1>1, <1>2
  <1>4. Len(rows) \in LatestIds(rows)
    BY <1>1, <1>2, <1>3 DEF LatestIds
  <1>5. ASSUME NEW i \in LatestIds(rows)  PROVE i = Len(rows)
    <2>1. i \in 1..Len(rows) /\ rows[Len(rows)].time <= rows[i].time
      BY <1>1, <1>2 DEF LatestIds
    <2>2. ~(rows[Len(rows)].time < rows[i].time)
      BY <1>1, <1>2, <1>3, <2>1
    <2>3. Len(rows) <= i
      BY <1>1, <1>2, <2>1, <2>2 DEF LatestIds
    <2>4. Len(rows) \in Nat
      OBVIOUS
    <2>. QED  BY ONLY <2>1, <2>3, <2>4
  <1>6. Latest(rows) = rows[Len(rows)]
    BY <1>4, <1>5 DEF Latest
  <1>. QED  BY <1>1, <1>2, <1>6, SnapshotAssumption

LEMMA InsertingType ==
    ASSUME handler \in Handler, handler.at # "idle", NEW todo \in SUBSET Change
    PROVE  Inserting(todo) \in Handler
  <1>1. Waiting \in Handler
    BY DEF Handler
  <1>2. handler \in [at : {"insert", "changes"}, prev : Snapshot \cup {NoSnapshot},
                      snap : Snapshot, todo : SUBSET Change]
    BY DEF Handler, Waiting
  <1>3. [handler EXCEPT !.at = "changes", !.todo = todo] \in Handler
    BY <1>2 DEF Handler
  <1>. QED  BY <1>1, <1>3 DEF Inserting

LEMMA NodeTypesInit == ASSUME NodeInit PROVE NodeTypeOK
  <1>1. Waiting \in Handler
    BY DEF Handler
  <1>2. 0 \in 0..MaxEdits /\ 0 \in 0..MaxTime
    BY Bounds
  <1>3. /\ up \in BOOLEAN /\ cache \in Objects \cup {NoNode} /\ handler \in Handler
        /\ lost \subseteq Keys \cup {"driver"}
    BY <1>1, Zenon DEF NodeInit
  <1>4. due \in Seq(Objects) /\ table \in Seq(Snapshot) /\ log \in Seq(Change)
    BY DEF NodeInit
  <1>. QED  BY <1>2, <1>3, <1>4 DEF NodeInit, NodeTypeOK

LEMMA NodeTypesStep == ASSUME NodeTypeOK, [NodeNext]_nodeVars PROVE NodeTypeOK'
  <1>. USE DEF NodeTypeOK
  <1>0. Waiting \in Handler
    BY DEF Handler
  <1>1. ASSUME NEW o \in Objects, EditNode(o) PROVE NodeTypeOK'
    <2>1. edits' \in 0..MaxEdits
      BY <1>1, Bounds DEF EditNode
    <2>. QED  BY <1>1, <2>1 DEF EditNode
  <1>2. CASE Watch
    BY <1>2 DEF Watch
  <1>3. CASE Resync
    BY <1>3 DEF Resync
  <1>4. CASE ClockMoves
    BY <1>4 DEF ClockMoves
  <1>5. CASE ReadLatest
    <2>1. Head(due) \in Objects /\ due' \in Seq(Objects)
      BY <1>5 DEF ReadLatest
    <2>2. /\ NodeSnapshot(Head(due)) \in Snapshot
          /\ Latest(table) \in Snapshot \cup {NoSnapshot}
      <3>1. clock \in Nat
        BY Bounds
      <3>. QED  BY <2>1, <3>1, NodeSnapshotType, LatestType
    <2>3. [at |-> "insert", prev |-> Latest(table), snap |-> NodeSnapshot(Head(due)), todo |-> {}] \in Handler
      BY <2>2 DEF Handler
    <2>4. handler' \in Handler
      BY <1>0, <1>5, <2>3 DEF ReadLatest
    <2>. QED  BY <1>5, <2>1, <2>4 DEF ReadLatest
  <1>6. CASE InsertSnapshot
    <2>1. handler.snap \in Snapshot /\ handler.prev \in Snapshot \cup {NoSnapshot}
      BY <1>6 DEF InsertSnapshot, Handler, Waiting
    <2>2. ChangesBetween(handler.prev, handler.snap) \subseteq Change
      BY <2>1, ApiChangesType
    <2>3. handler' \in Handler
      BY <1>0, <1>6, <2>2, InsertingType DEF InsertSnapshot
    <2>. QED  BY <1>6, <2>1, <2>3 DEF InsertSnapshot
  <1>7. CASE InsertChange
    <2>1. PICK c \in handler.todo : log' = Append(log, c) /\ handler' = Inserting(handler.todo \ {c})
      BY <1>7 DEF InsertChange
    <2>2. handler.todo \subseteq Change
      BY DEF Handler, Waiting
    <2>3. handler' \in Handler
      BY <1>7, <2>1, <2>2, InsertingType DEF InsertChange
    <2>. QED  BY <1>7, <2>1, <2>2, <2>3 DEF InsertChange
  <1>8. CASE ReadFails
    BY <1>8 DEF ReadFails
  <1>9. CASE InsertFails \/ Stop
    <2>1. {c.field : c \in handler.todo} \subseteq Keys \cup {"driver"}
      BY DEF Handler, Waiting, Change
    <2>2. lost' \subseteq Keys \cup {"driver"}
      BY <1>9, <2>1 DEF InsertFails, Stop, Lost
    <2>3. /\ up' \in BOOLEAN /\ cache' \in Objects \cup {NoNode} /\ handler' \in Handler
          /\ UNCHANGED <<node, edits, clock, table, log>>
      BY <1>0, <1>9, Zenon DEF InsertFails, Stop
    <2>4. due' \in Seq(Objects)
      <3>1. due' = due \/ due' = <<>>
        BY <1>9 DEF InsertFails, Stop
      <3>2. due \in Seq(Objects) /\ <<>> \in Seq(Objects)
        OBVIOUS
      <3>. QED  BY ONLY <3>1, <3>2
    <2>. QED  BY <2>2, <2>3, <2>4
  <1>10. CASE StartUp
    BY <1>10 DEF StartUp
  <1>11. CASE UNCHANGED nodeVars
    BY <1>11 DEF nodeVars
  <1>. QED  BY <1>1, <1>2, <1>3, <1>4, <1>5, <1>6, <1>7, <1>8, <1>9, <1>10, <1>11 DEF NodeNext

(***************************************************************************)
(* What the handler knows when it inserts.                                 *)
(***************************************************************************)
LEMMA WriteStep ==
    ASSUME ClockForward, WriteInv, [NodeNext]_nodeVars
    PROVE  WriteInv'
  <1>1. NodeTypeOK' /\ NodeTypeOK
    BY NodeTypesStep DEF WriteInv
  <1>2. \A i \in DOMAIN table : table[i] \in Snapshot /\ table[i].time \in Nat
    <2>1. \A i \in DOMAIN table : table[i] \in Snapshot
      BY <1>1 DEF NodeTypeOK
    <2>. QED  BY <2>1 DEF Snapshot
  <1>3. clock \in Nat /\ Len(table) \in Nat /\ DOMAIN table = 1..Len(table)
    BY <1>1, Bounds DEF NodeTypeOK
  <1>4. ASSUME table' = table, clock' \in Nat, clock <= clock',
               handler' = handler \/ handler'.at # "insert"
        PROVE  WriteInv'
    <2>1. Behind(clock)'
      BY <1>2, <1>3, <1>4 DEF WriteInv, Behind
    <2>2. UnchangedWritesNothing'
      BY <1>4 DEF WriteInv, UnchangedWritesNothing
    <2>3. ASSUME handler'.at = "insert"  PROVE ComparedWithLatest'
      <3>1. handler' = handler /\ ComparedWithLatest
        BY <1>4, <2>3 DEF WriteInv
      <3>2. handler.snap.time \in Nat
        BY <3>1 DEF ComparedWithLatest, Snapshot
      <3>3. Behind(handler.snap.time)'
        BY <1>4, <3>1 DEF ComparedWithLatest, Behind
      <3>. QED  BY <1>3, <1>4, <3>1, <3>2, <3>3 DEF ComparedWithLatest
    <2>. QED  BY <1>1, <2>1, <2>2, <2>3 DEF WriteInv
  <1>5. CASE ReadLatest
    <2>. DEFINE snap == NodeSnapshot(Head(due))
    <2>1. table' = table /\ clock' = clock
      BY <1>5 DEF ReadLatest
    <2>2. CASE handler' = Waiting
      BY <1>3, <1>4, <2>1, <2>2 DEF Waiting
    <2>3. CASE handler' # Waiting
      <3>1. /\ handler' = [at |-> "insert", prev |-> Latest(table), snap |-> snap, todo |-> {}]
            /\ Latest(table) # NoSnapshot => ~FieldsEqual(Latest(table).fields, snap.fields)
        BY <1>5, <2>3 DEF ReadLatest
      <3>2. snap \in Snapshot /\ snap.time = clock
        <4>1. Head(due) \in Objects
          BY <1>1, <1>5 DEF ReadLatest, NodeTypeOK
        <4>. QED  BY <1>3, <4>1, NodeSnapshotType
      <3>3. ComparedWithLatest'
        BY <1>3, <2>1, <3>1, <3>2 DEF ComparedWithLatest, WriteInv, Behind
      <3>. QED  BY <1>1, <2>1, <3>3 DEF WriteInv, Behind, UnchangedWritesNothing
    <2>. QED  BY <2>2, <2>3
  <1>6. CASE InsertSnapshot
    <2>1. /\ table' = Append(table, handler.snap) /\ clock' = clock
          /\ ComparedWithLatest /\ handler'.at # "insert"
      BY <1>6 DEF InsertSnapshot, WriteInv, Inserting, Waiting
    <2>2. /\ handler.snap \in Snapshot /\ handler.snap.time \in Nat /\ handler.snap.time <= clock
          /\ Behind(handler.snap.time)
      BY <2>1 DEF ComparedWithLatest, Snapshot
    <2>3. /\ DOMAIN table' = 1..(Len(table) + 1) /\ Len(table') = Len(table) + 1
          /\ \A i \in DOMAIN table : table'[i] = table[i]
          /\ table'[Len(table) + 1] = handler.snap
      BY <1>1, <1>3, <2>1, <2>2 DEF NodeTypeOK
    <2>4. Behind(clock)'
      BY <1>2, <1>3, <2>1, <2>2, <2>3 DEF Behind
    <2>5. UnchangedWritesNothing'
      <3>. SUFFICES ASSUME NEW i \in 1..Len(table)
                    PROVE  ~FieldsEqual(table'[i].fields, table'[i + 1].fields)
        BY <1>3, <2>3 DEF UnchangedWritesNothing
      <3>1. CASE i < Len(table)
        <4>1. i \in 1..(Len(table) - 1) /\ i \in DOMAIN table /\ i + 1 \in DOMAIN table
          BY <1>3, <3>1
        <4>. QED  BY <2>3, <4>1 DEF WriteInv, UnchangedWritesNothing
      <3>2. CASE i = Len(table)
        <4>1. table # <<>>
          BY <1>3, <3>2
        <4>2. Latest(table) = table[Len(table)] /\ Latest(table) # NoSnapshot
          BY <1>1, <2>2, <4>1, LatestOfOrdered DEF NodeTypeOK, Behind
        <4>. QED  BY <1>3, <2>1, <2>3, <3>2, <4>2 DEF ComparedWithLatest
      <3>3. i < Len(table) \/ i = Len(table)
        <4>1. i \in 1..Len(table) /\ Len(table) \in Nat
          BY <1>3
        <4>. QED  BY ONLY <4>1
      <3>. QED  BY <3>1, <3>2, <3>3
    <2>. QED  BY <1>1, <2>1, <2>4, <2>5 DEF WriteInv
  <1>7. CASE ClockMoves
    <2>1. clock' \in Nat /\ clock <= clock'
      BY <1>3, <1>7 DEF ClockMoves, ClockForward
    <2>. QED  BY <1>4, <1>7, <2>1 DEF ClockMoves
  <1>8. ASSUME NEW o \in Objects, EditNode(o) PROVE WriteInv'
    BY <1>3, <1>4, <1>8 DEF EditNode
  <1>9. CASE Watch \/ Resync \/ ReadFails \/ StartUp
    BY <1>3, <1>4, <1>9 DEF Watch, Resync, ReadFails, StartUp
  <1>10. CASE InsertChange
    <2>1. handler'.at # "insert"
      BY <1>10 DEF InsertChange, Inserting, Waiting
    <2>. QED  BY <1>3, <1>4, <1>10, <2>1 DEF InsertChange
  <1>11. CASE InsertFails \/ Stop
    BY <1>3, <1>4, <1>11 DEF InsertFails, Stop, Waiting
  <1>12. CASE UNCHANGED nodeVars
    BY <1>3, <1>4, <1>12 DEF nodeVars
  <1>. QED  BY <1>5, <1>6, <1>7, <1>8, <1>9, <1>10, <1>11, <1>12 DEF NodeNext

LEMMA WriteInvInit == ASSUME NodeInit PROVE WriteInv
  <1>1. NodeTypeOK
    BY NodeTypesInit
  <1>2. table = <<>> /\ handler.at = "idle"
    BY DEF NodeInit, Waiting
  <1>. QED  BY <1>1, <1>2 DEF WriteInv, Behind, UnchangedWritesNothing

\* The variables keep their types, whatever the clock does.
THEOREM NodeTypesCorrect == NodeSpec => []NodeTypeOK
  <1>. QED  BY NodeTypesInit, NodeTypesStep, PTL DEF NodeSpec

\* "Unchanged resyncs write nothing" (RecordNode): as long as the collector's
\* clock does not go back, no api snapshot of a node says the same as the one
\* stored before it, for any objects, failures and restarts.
THEOREM NothingWrittenTwice ==
    ASSUME ClockForward
    PROVE  NodeSpec => []UnchangedWritesNothing
  <1>1. ASSUME WriteInv, [NodeNext]_nodeVars PROVE WriteInv'
    BY <1>1, WriteStep
  <1>2. WriteInv => UnchangedWritesNothing
    BY DEF WriteInv
  <1>. QED  BY <1>1, <1>2, WriteInvInit, PTL DEF NodeSpec

(***************************************************************************)
(* The change log.  While changes are being inserted, each of those to do  *)
(* leads from what the log says to the last row (Pending).                 *)
(***************************************************************************)
\* NodeSnapshot builds no other fields.
ApiFields(m) == DOMAIN m = Keys /\ \A k \in Keys : m[k] \in {Present(v) : v \in Values} \cup {Absent}

FromNode ==
    /\ \A i \in DOMAIN table : ApiFields(table[i].fields)
    /\ handler.at = "insert" => ApiFields(handler.snap.fields) /\ handler.todo = {}
    /\ handler.at = "idle" => handler.todo = {}

Pending ==
    handler.at = "changes" =>
        /\ table # <<>>
        /\ \A c \in handler.todo :
            /\ c.field \in Keys
            /\ c.field \notin lost => Says(Len(log), c.field, c.old)
            /\ c.new = table[Len(table)].fields[c.field]
        /\ \A c, d \in handler.todo : c.field = d.field => c = d

ReplayInv ==
    /\ WriteInv
    /\ FromNode
    /\ Pending
    /\ table = <<>> => log = <<>>
    /\ LogReplays

LEMMA NodeSnapshotFields ==
    ASSUME NEW o \in Objects
    PROVE  ApiFields(NodeSnapshot(o).fields)
  <1>1. \A k \in Keys : o[k] \in Values \cup {Nil}
    BY NodeAssumption
  <1>2. NodeSnapshot(o).fields = [k \in Keys |-> IF o[k] = Nil THEN Absent ELSE Present(o[k])]
    BY DEF NodeSnapshot
  <1>. QED  BY <1>1, <1>2 DEF ApiFields

\* Between two snapshots of a node there is one change for each field that
\* differs, and none for any other.
LEMMA OneChangeEach ==
    ASSUME NEW p \in Snapshot, NEW q \in Snapshot, ApiFields(p.fields), ApiFields(q.fields)
    PROVE  /\ \A c \in ChangesBetween(p, q) :
                c.field \in Keys /\ c.old = p.fields[c.field] /\ c.new = q.fields[c.field]
           /\ \A c, d \in ChangesBetween(p, q) : c.field = d.field => c = d
           /\ \A k \in Keys : \/ p.fields[k] = q.fields[k]
                              \/ \E c \in ChangesBetween(p, q) : c.field = k
  <1>. DEFINE Row(c) == [time |-> q.time, field |-> c.field, old |-> c.old, new |-> c.new,
                         severity |-> c.severity]
              D == Diff(p.fields, q.fields)
  <1>1. ChangesBetween(p, q) = {Row(c) : c \in D}
    <2>1. DriverDiff(p, q) = {}
      BY NodeAssumption DEF DriverDiff, Snapshot
    <2>2. p # NoSnapshot
      BY SnapshotAssumption
    <2>. QED  BY <2>1, <2>2 DEF ChangesBetween
  <1>2. \A k \in Keys : Reading(p.fields, k) = p.fields[k] /\ Reading(q.fields, k) = q.fields[k]
    BY DEF ApiFields, Reading
  <1>3. D = {DiffKey(p.fields, q.fields, k) : k \in
                {j \in Keys : Classify(p.fields[j], q.fields[j]) # "none"}}
    BY <1>2 DEF Diff, ApiFields
  <1>4. \A c \in D : /\ c.field \in Keys /\ c = DiffKey(p.fields, q.fields, c.field)
                     /\ c.old = p.fields[c.field] /\ c.new = q.fields[c.field]
    BY <1>2, <1>3 DEF DiffKey
  <1>5. ASSUME NEW k \in Keys, p.fields[k] # q.fields[k]
        PROVE  \E c \in ChangesBetween(p, q) : c.field = k
    <2>1. Classify(p.fields[k], q.fields[k]) # "none"
      <3>1. /\ p.fields[k] \in {Present(v) : v \in Values} \cup {Absent}
            /\ q.fields[k] \in {Present(v) : v \in Values} \cup {Absent}
        BY DEF ApiFields
      <3>. QED  BY <1>5, <3>1 DEF Classify, Comparable, SameField, Present, Absent
    <2>2. DiffKey(p.fields, q.fields, k) \in D
      BY <1>3, <2>1
    <2>3. Row(DiffKey(p.fields, q.fields, k)).field = k
      BY DEF DiffKey
    <2>4. Row(DiffKey(p.fields, q.fields, k)) \in ChangesBetween(p, q)
      BY <1>1, <2>2
    <2>. HIDE DEF Row
    <2>. QED  BY <2>3, <2>4
  <1>. QED  BY <1>1, <1>4, <1>5

\* The handler goes on as it was, or gives up what it had to do.
LEMMA QuietReplay ==
    ASSUME ReplayInv, WriteInv', UNCHANGED <<table, log>>,
           \/ handler' = handler /\ lost' = lost
           \/ /\ handler' = Waiting
              /\ lost' = lost \cup {c.field : c \in handler.todo}
    PROVE  ReplayInv'
  <1>1. \A n, k, v : Says(n, k, v)' <=> Says(n, k, v)
    BY DEF Says
  <1>2. FromNode'
    BY DEF ReplayInv, FromNode, Waiting
  <1>3. Pending'
    BY <1>1 DEF ReplayInv, Pending, Waiting
  <1>4. LogReplays'
    BY <1>1 DEF ReplayInv, LogReplays, Waiting
  <1>. QED  BY <1>2, <1>3, <1>4 DEF ReplayInv

LEMMA InsertSnapshotReplay ==
    ASSUME ReplayInv, WriteInv', InsertSnapshot
    PROVE  ReplayInv'
  <1>0. PICK snap, todo : snap = handler.snap /\ todo = ChangesBetween(handler.prev, snap)
    OBVIOUS
  <1>1. /\ table \in Seq(Snapshot) /\ Len(table) \in Nat /\ DOMAIN table = 1..Len(table)
        /\ log \in Seq(Change) /\ Len(log) \in Nat /\ DOMAIN log = 1..Len(log)
    BY DEF ReplayInv, WriteInv, NodeTypeOK
  <1>2. /\ table' = Append(table, snap) /\ log' = log /\ lost' = lost
        /\ handler.at = "insert" /\ handler' = Inserting(todo)
    BY <1>0 DEF InsertSnapshot
  <1>3. ComparedWithLatest /\ ApiFields(snap.fields) /\ snap \in Snapshot
    BY <1>0, <1>2 DEF ReplayInv, WriteInv, FromNode, ComparedWithLatest
  <1>4. /\ handler'.todo = todo /\ (handler'.at = "changes" <=> todo # {})
        /\ handler'.at \in {"changes", "idle"}
    <2>1. handler \in [at : {"insert", "changes"}, prev : Snapshot \cup {NoSnapshot},
                       snap : Snapshot, todo : SUBSET Change]
      BY <1>2 DEF ReplayInv, WriteInv, NodeTypeOK, Handler, Waiting
    <2>. QED  BY <1>2, <2>1 DEF Inserting, Waiting
  <1>5. /\ Len(table') = Len(table) + 1 /\ table'[Len(table')] = snap
        /\ DOMAIN table' = 1..(Len(table) + 1) /\ table' # <<>>
        /\ \A i \in DOMAIN table : table'[i] = table[i]
    BY <1>1, <1>2, <1>3
  <1>6. FromNode'
    BY <1>1, <1>3, <1>4, <1>5 DEF ReplayInv, FromNode
  <1>7. CASE table = <<>>
    <2>1. todo = {}
      <3>1. handler.prev = NoSnapshot
        BY <1>3, <1>7 DEF ComparedWithLatest, Latest, LatestIds
      <3>. QED  BY <1>0, <3>1 DEF ChangesBetween
    <2>2. Len(log) = 0 /\ DOMAIN log = {}
      BY <1>7 DEF ReplayInv
    <2>3. \A k : Says(0, k, snap.fields[k])'
      <3>1. table'[1] = snap
        BY <1>1, <1>5, <1>7
      <3>. QED  BY <3>1 DEF Says
    <2>. QED  BY <1>2, <1>4, <1>5, <1>6, <2>1, <2>2, <2>3 DEF ReplayInv, Pending, LogReplays
  <1>8. CASE table # <<>>
    <2>. DEFINE prev == table[Len(table)]
    <2>1. handler.prev = prev /\ prev \in Snapshot /\ ApiFields(prev.fields)
      <3>1. Len(table) \in DOMAIN table
        BY <1>1, <1>8
      <3>2. handler.prev = prev
        BY <1>1, <1>3, <1>8, LatestOfOrdered DEF ComparedWithLatest, Behind
      <3>. QED  BY <1>1, <3>1, <3>2 DEF ReplayInv, FromNode
    <2>2. /\ \A c \in todo : c.field \in Keys /\ c.old = prev.fields[c.field]
                             /\ c.new = snap.fields[c.field]
          /\ \A c, d \in todo : c.field = d.field => c = d
          /\ \A k \in Keys : prev.fields[k] = snap.fields[k] \/ \E c \in todo : c.field = k
      BY <1>0, <1>3, <2>1, OneChangeEach
    <2>3. \A n, k, v : Says(n, k, v)' <=> Says(n, k, v)
      <3>1. table'[1] = table[1]
        BY <1>1, <1>5, <1>8
      <3>. QED  BY <1>2, <3>1 DEF Says
    <2>4. \A k \in Keys \ lost : Says(Len(log), k, prev.fields[k])
      <3>1. handler.todo = {}
        BY <1>2 DEF ReplayInv, FromNode
      <3>. QED  BY <1>8, <3>1 DEF ReplayInv, LogReplays
    <2>. HIDE DEF prev
    <2>5. Pending'
      BY <1>2, <1>4, <1>5, <2>2, <2>3, <2>4 DEF Pending
    <2>6. LogReplays'
      <3>1. \A k \in Keys \ lost : (\E c \in todo : c.field = k) \/ Says(Len(log), k, snap.fields[k])
        BY <2>2, <2>4
      <3>. QED  BY <1>2, <1>4, <1>5, <1>8, <2>3, <3>1 DEF ReplayInv, LogReplays
    <2>. QED  BY <1>2, <1>5, <1>6, <2>5, <2>6 DEF ReplayInv
  <1>. QED  BY <1>7, <1>8

LEMMA InsertChangeReplay ==
    ASSUME ReplayInv, WriteInv', InsertChange
    PROVE  ReplayInv'
  <1>1. PICK c \in handler.todo : log' = Append(log, c) /\ handler' = Inserting(handler.todo \ {c})
    BY DEF InsertChange
  <1>2. table' = table /\ lost' = lost /\ handler.at = "changes"
    BY DEF InsertChange
  <1>3. /\ handler'.todo = handler.todo \ {c} /\ handler'.at \in {"changes", "idle"}
        /\ (handler'.at = "idle" => handler'.todo = {}) /\ c \in Change
    <2>1. handler \in [at : {"insert", "changes"}, prev : Snapshot \cup {NoSnapshot},
                       snap : Snapshot, todo : SUBSET Change]
      BY <1>2 DEF ReplayInv, WriteInv, NodeTypeOK, Handler, Waiting
    <2>. QED  BY <1>1, <2>1 DEF Inserting, Waiting
  <1>0. log \in Seq(Change)
    BY DEF ReplayInv, WriteInv, NodeTypeOK
  <1>4. PICK n \in Nat : n = Len(log) /\ DOMAIN log = 1..n
    BY <1>0
  <1>5. /\ Len(log') = n + 1 /\ DOMAIN log' = 1..(n + 1)
        /\ log'[n + 1] = c
        /\ \A i \in 1..n : log'[i] = log[i]
    BY <1>0, <1>1, <1>3, <1>4
  <1>6. /\ table # <<>> /\ c.field \in Keys
        /\ c.field \notin lost => Says(n, c.field, c.old)
        /\ c.new = table[Len(table)].fields[c.field]
        /\ \A d \in handler.todo : d.field = c.field => d = c
    BY <1>2, <1>4 DEF ReplayInv, Pending
  <1>7. \A m \in 0..n : \A k, v : Says(m, k, v)' <=> Says(m, k, v)
    BY <1>2, <1>4, <1>5 DEF Says
  <1>8. ASSUME NEW k, NEW v, k # c.field, Says(n, k, v)  PROVE Says(n + 1, k, v)'
    <2>1. table'[1] = table[1]
      BY <1>2
    <2>2. CASE \A i \in 1..n : log[i].field # k
      <3>1. v = table[1].fields[k]
        BY <1>8, <2>2 DEF Says
      <3>2. \A i \in 1..(n + 1) : log'[i].field # k
        BY <1>5, <1>8, <2>2
      <3>. QED  BY <2>1, <3>1, <3>2 DEF Says
    <2>3. CASE ~ \A i \in 1..n : log[i].field # k
      <3>1. PICK i \in 1..n : /\ log[i].field = k /\ log[i].new = v
                              /\ \A j \in (i + 1)..n : log[j].field # k
        BY <1>8, <2>3 DEF Says
      <3>2. i \in 1..(n + 1) /\ log'[i] = log[i]
        BY <1>5
      <3>3. ASSUME NEW j \in (i + 1)..(n + 1)  PROVE log'[j].field # k
        <4>1. j = n + 1 \/ (j \in 1..n /\ j \in (i + 1)..n)
          OBVIOUS
        <4>. QED  BY <1>5, <1>8, <3>1, <4>1
      <3>. QED  BY <3>1, <3>2, <3>3 DEF Says
    <2>. QED  BY <2>2, <2>3
  <1>9. Says(n + 1, c.field, c.new)'
    <2>1. n + 1 \in 1..(n + 1) /\ (n + 2)..(n + 1) = {}
      OBVIOUS
    <2>2. (n + 1) + 1 = n + 2
      OBVIOUS
    <2>. QED  BY <1>5, <2>1, <2>2 DEF Says
  <1>10. FromNode'
    BY <1>2, <1>3 DEF ReplayInv, FromNode
  <1>11. Pending'
    <2>1. ASSUME NEW d \in handler'.todo, d.field \notin lost
          PROVE  Says(Len(log), d.field, d.old)'
      <3>1. d \in handler.todo /\ d.field # c.field
        BY <1>3, <1>6, <2>1
      <3>2. Says(n, d.field, d.old)
        BY <1>2, <1>4, <2>1, <3>1 DEF ReplayInv, Pending
      <3>3. Says(n + 1, d.field, d.old)'
        BY <1>8, <3>1, <3>2
      <3>. QED  BY <1>5, <3>3
    <2>2. \A d \in handler'.todo : d.field \in Keys /\ d.new = table[Len(table)].fields[d.field]
      BY <1>2, <1>3 DEF ReplayInv, Pending
    <2>3. \A d, e \in handler'.todo : d.field = e.field => d = e
      BY <1>2, <1>3 DEF ReplayInv, Pending
    <2>. QED  BY <1>2, <1>6, <2>1, <2>2, <2>3 DEF Pending
  <1>12. LogReplays'
    <2>. SUFFICES ASSUME NEW k \in Keys \ lost
                  PROVE  /\ \A j \in 1..(n + 1) : log'[j].field = k => (Says(j - 1, k, log[j].old))'
                         /\ \/ \E d \in handler'.todo : d.field = k
                            \/ (Says(Len(log), k, table[Len(table)].fields[k]))'
      BY <1>2, <1>5 DEF LogReplays
    <2>1. ASSUME NEW j \in 1..(n + 1), log'[j].field = k  PROVE (Says(j - 1, k, log[j].old))'
      <3>. PICK old : old = log'[j].old
        OBVIOUS
      <3>. SUFFICES Says(j - 1, k, old)'
        OBVIOUS
      <3>1. CASE j = n + 1
        <4>1. k = c.field /\ Says(n, k, old)
          BY <1>5, <1>6, <2>1, <3>1
        <4>2. j - 1 = n /\ n \in 0..n
          BY <1>4, <3>1
        <4>. QED  BY <1>7, <4>1, <4>2
      <3>2. CASE j # n + 1
        <4>1. j \in 1..n /\ j - 1 \in 0..n
          BY <1>4, <2>1, <3>2
        <4>2. log'[j] = log[j] /\ j \in DOMAIN log
          BY <1>4, <1>5, <4>1
        <4>3. Says(j - 1, k, old)
          BY <1>6, <2>1, <4>2 DEF ReplayInv, LogReplays
        <4>. QED  BY <1>7, <4>1, <4>3
      <3>. QED  BY <3>1, <3>2
    <2>2. (\E d \in handler'.todo : d.field = k) \/ (Says(Len(log), k, table[Len(table)].fields[k]))'
      <3>. PICK v : v = table[Len(table)].fields[k]
        OBVIOUS
      <3>. SUFFICES (\E d \in handler'.todo : d.field = k) \/ Says(n + 1, k, v)'
        BY <1>2, <1>5
      <3>1. CASE k = c.field
        BY <1>6, <1>9, <3>1
      <3>2. CASE k # c.field
        <4>1. (\E d \in handler.todo : d.field = k) \/ Says(n, k, v)
          BY <1>4, <1>6 DEF ReplayInv, LogReplays
        <4>. QED  BY <1>3, <1>8, <3>2, <4>1
      <3>. QED  BY <3>1, <3>2
    <2>. QED  BY <2>1, <2>2
  <1>. QED  BY <1>2, <1>5, <1>6, <1>10, <1>11, <1>12 DEF ReplayInv

LEMMA ReplayStep ==
    ASSUME ClockForward, ReplayInv, [NodeNext]_nodeVars
    PROVE  ReplayInv'
  <1>1. WriteInv'
    BY WriteStep DEF ReplayInv
  <1>2. CASE InsertSnapshot
    BY <1>1, <1>2, InsertSnapshotReplay
  <1>3. CASE InsertChange
    BY <1>1, <1>3, InsertChangeReplay
  <1>4. CASE ReadLatest
    <2>1. CASE handler' = Waiting
      <3>1. handler.todo = {}
        BY <1>4 DEF ReadLatest, ReplayInv, FromNode
      <3>2. lost' = lost \cup {c.field : c \in handler.todo}
        BY <1>4, <3>1 DEF ReadLatest
      <3>. QED  BY <1>1, <1>4, <2>1, <3>2, QuietReplay DEF ReadLatest
    <2>2. CASE handler' # Waiting
      <3>1. /\ UNCHANGED <<table, log, lost>> /\ handler.todo = {}
            /\ handler'.at = "insert" /\ handler'.todo = {}
            /\ handler'.snap = NodeSnapshot(Head(due))
        BY <1>4, <2>2 DEF ReadLatest, ReplayInv, FromNode
      <3>2. Head(due) \in Objects
        BY <1>4 DEF ReadLatest, ReplayInv, WriteInv, NodeTypeOK
      <3>3. ApiFields(handler'.snap.fields)
        BY <3>1, <3>2, NodeSnapshotFields
      <3>4. FromNode'
        BY <3>1, <3>3 DEF ReplayInv, FromNode
      <3>5. Pending'
        BY <3>1 DEF Pending
      <3>6. LogReplays'
        <4>1. \A n, k, v : Says(n, k, v)' <=> Says(n, k, v)
          BY <3>1 DEF Says
        <4>. QED  BY <3>1, <4>1 DEF ReplayInv, LogReplays
      <3>. QED  BY <1>1, <3>1, <3>4, <3>5, <3>6 DEF ReplayInv
    <2>. QED  BY <2>1, <2>2
  <1>5. CASE InsertFails \/ Stop
    BY <1>1, <1>5, QuietReplay DEF InsertFails, Stop, Lost
  <1>6. CASE \/ \E o \in Objects : EditNode(o)
             \/ Watch \/ Resync \/ ClockMoves \/ ReadFails \/ StartUp \/ UNCHANGED nodeVars
    BY <1>1, <1>6, QuietReplay
       DEF EditNode, Watch, Resync, ClockMoves, ReadFails, StartUp, nodeVars
  <1>. QED  BY <1>2, <1>3, <1>4, <1>5, <1>6 DEF NodeNext

LEMMA ReplayInvInit == ASSUME NodeInit PROVE ReplayInv
  <1>1. WriteInv
    BY WriteInvInit
  <1>2. table = <<>> /\ log = <<>> /\ handler.at = "idle" /\ handler.todo = {}
    BY DEF NodeInit, Waiting
  <1>. QED  BY <1>1, <1>2 DEF ReplayInv, FromNode, Pending, LogReplays

\* As long as the collector's clock does not go back, the change log of a node
\* tells the whole history of each field, from the first snapshot to the latest
\* one, but for fields whose change RecordNode lost when it was interrupted
\* between PutSnapshot and PutChanges.
THEOREM HistoryReplays ==
    ASSUME ClockForward
    PROVE  NodeSpec => []LogReplays
  <1>1. ASSUME ReplayInv, [NodeNext]_nodeVars PROVE ReplayInv'
    BY <1>1, ReplayStep
  <1>2. ReplayInv => LogReplays
    BY DEF ReplayInv
  <1>. QED  BY <1>1, <1>2, ReplayInvInit, PTL DEF NodeSpec

(***************************************************************************)
(* Progress.  What the informer has cached is on its way to the latest     *)
(* snapshot or there already: last in the queue, or compared and about to  *)
(* be inserted, or stored.                                                 *)
(***************************************************************************)
Tracked ==
    cache # NoNode =>
        /\ due # <<>> => due[Len(due)] = cache
        /\ due = <<>> /\ handler.at = "insert" =>
                handler.snap.fields = NodeSnapshot(cache).fields
        /\ due = <<>> /\ handler.at # "insert" =>
                table # <<>> /\ Latest(table).fields = NodeSnapshot(cache).fields

LEMMA EqualApiFields ==
    ASSUME NEW a, NEW b, a = [k \in Keys |-> a[k]], b = [k \in Keys |-> b[k]],
           ApiFields(a), ApiFields(b), FieldsEqual(a, b)
    PROVE  a = b
  <1>1. ASSUME NEW k \in Keys PROVE a[k] = b[k]
    <2>1. /\ a[k] \in {Present(v) : v \in Values} \cup {Absent}
          /\ b[k] \in {Present(v) : v \in Values} \cup {Absent}
          /\ SameField(a[k], b[k])
      BY DEF ApiFields, FieldsEqual
    <2>. QED  BY <2>1 DEF SameField, Present, Absent
  <1>. QED  BY <1>1

\* The object that the version at the end of the queue shows is the one read last.
LEMMA TrackedRead ==
    ASSUME ReplayInv, WriteInv', ReadLatest, Tracked
    PROVE  Tracked'
  <1>1. /\ due \in Seq(Objects) /\ due # <<>> /\ table \in Seq(Snapshot)
        /\ due' = Tail(due) /\ UNCHANGED <<cache, table>> /\ handler.at = "idle"
    BY DEF ReadLatest, ReplayInv, WriteInv, NodeTypeOK
  <1>2. \A o : NodeSnapshot(o).fields' = NodeSnapshot(o).fields
    BY DEF NodeSnapshot
  <1>. SUFFICES ASSUME cache # NoNode PROVE Tracked'
    BY <1>1 DEF Tracked
  <1>3. due[Len(due)] = cache
    BY <1>1 DEF Tracked
  <1>4. CASE due' # <<>>
    <2>1. due'[Len(due')] = due[Len(due)]
      BY <1>1, <1>4
    <2>. QED  BY <1>1, <1>3, <1>4, <2>1 DEF Tracked
  <1>5. CASE due' = <<>>
    <2>. DEFINE prev == Latest(table)
                snap == NodeSnapshot(Head(due))
    <2>1. Head(due) = cache /\ cache \in Objects
      <3>1. Tail(due) = <<>> /\ due \in Seq(Objects) /\ due # <<>> /\ due[Len(due)] = cache
        BY <1>1, <1>3, <1>5
      <3>2. Len(Tail(due)) = Len(due) - 1 /\ Len(due) \in Nat
        BY ONLY <3>1
      <3>3. Len(Tail(due)) = 0
        <4>1. Len(<<>>) = 0
          OBVIOUS
        <4>. QED  BY <3>1, <4>1, Zenon
      <3>4. Len(due) = 1
        BY ONLY <3>2, <3>3
      <3>. QED  BY ONLY <3>1, <3>4
    <2>2. CASE handler' = Waiting
      <3>1. prev # NoSnapshot /\ FieldsEqual(prev.fields, snap.fields)
        BY <2>2 DEF ReadLatest, Waiting
      <3>2. table # <<>>
        BY <3>1 DEF Latest, LatestIds
      <3>3. prev \in Snapshot /\ \E i \in DOMAIN table : prev = table[i]
        <4>1. prev \in Snapshot
          BY <1>1, <3>1, LatestType
        <4>2. prev = table[Len(table)] /\ Len(table) \in DOMAIN table
          BY <1>1, <3>2, LatestOfOrdered DEF ReplayInv, WriteInv, Behind
        <4>. QED  BY <4>1, <4>2
      <3>4. ApiFields(prev.fields) /\ ApiFields(snap.fields)
        BY <2>1, <3>3, NodeSnapshotFields DEF ReplayInv, FromNode
      <3>5. prev.fields = [k \in Keys |-> prev.fields[k]] /\ snap.fields = [k \in Keys |-> snap.fields[k]]
        <4>1. prev.fields \in FieldMap
          BY <3>3 DEF Snapshot
        <4>2. prev.fields = [k \in DOMAIN prev.fields |-> prev.fields[k]]
          BY <4>1 DEF FieldMap
        <4>3. snap.fields = [k \in Keys |-> snap.fields[k]]
          BY DEF NodeSnapshot
        <4>. QED  BY <3>4, <4>2, <4>3 DEF ApiFields
      <3>6. prev.fields = snap.fields
        BY <3>1, <3>4, <3>5, EqualApiFields
      <3>. QED  BY <1>1, <1>2, <1>5, <2>1, <2>2, <3>2, <3>6 DEF Tracked, Waiting
    <2>3. CASE handler' # Waiting
      <3>1. handler'.at = "insert" /\ handler'.snap = snap
        BY <2>3 DEF ReadLatest
      <3>. QED  BY <1>1, <1>2, <1>5, <2>1, <3>1 DEF Tracked
    <2>. QED  BY <2>2, <2>3
  <1>. QED  BY <1>4, <1>5

LEMMA TrackedInsert ==
    ASSUME ReplayInv, WriteInv', InsertSnapshot, Tracked
    PROVE  Tracked'
  <1>1. /\ table \in Seq(Snapshot) /\ handler.snap \in Snapshot
        /\ table' = Append(table, handler.snap) /\ UNCHANGED <<cache, due>>
        /\ handler.at = "insert" /\ handler'.at # "insert"
    BY DEF InsertSnapshot, ReplayInv, WriteInv, NodeTypeOK, ComparedWithLatest, Inserting, Waiting
  <1>2. table' \in Seq(Snapshot) /\ table' # <<>> /\ table'[Len(table')] = handler.snap
    BY <1>1
  <1>3. Behind(clock)'
    BY DEF WriteInv
  <1>4. Latest(table)' = handler.snap
    BY <1>2, <1>3, LatestOfOrdered DEF Behind
  <1>5. \A o : NodeSnapshot(o).fields' = NodeSnapshot(o).fields
    BY DEF NodeSnapshot
  <1>. QED  BY <1>1, <1>2, <1>4, <1>5 DEF Tracked

\* From when the informer delivers a version, or delivers it again, the version
\* that it has cached is on its way to the latest snapshot or there, and no step
\* but a failing statement takes it off that way: not another version, however
\* many are queued, nor a restart.
THEOREM OnlyFailuresLoseTrack ==
    ASSUME ClockForward
    PROVE  NodeSpec =>
               [][/\ Watch \/ Resync => Tracked'
                  /\ Tracked /\ ~ReadFails /\ ~InsertFails => Tracked']_nodeVars
  <1>1. ASSUME ReplayInv, Watch \/ Resync PROVE Tracked'
    <2>1. due \in Seq(Objects) /\ (Watch => node \in Objects)
      BY <1>1 DEF ReplayInv, WriteInv, NodeTypeOK
    <2>2. CASE Watch
      <3>1. due' = Append(due, node) /\ cache' = node
        BY <2>2 DEF Watch
      <3>2. due' # <<>> /\ due'[Len(due')] = node
        BY <2>1, <2>2, <3>1
      <3>. QED  BY <3>1, <3>2 DEF Tracked
    <2>3. CASE Resync
      BY <2>3 DEF Resync, Tracked
    <2>. QED  BY <1>1, <2>2, <2>3
  <1>2. ASSUME ReplayInv, ReplayInv', [NodeNext]_nodeVars, Tracked, ~ReadFails, ~InsertFails
        PROVE  Tracked'
    <2>1. CASE ReadLatest
      BY <1>2, <2>1, TrackedRead DEF ReplayInv
    <2>2. CASE InsertSnapshot
      BY <1>2, <2>2, TrackedInsert DEF ReplayInv
    <2>3. CASE InsertChange
      <3>1. /\ UNCHANGED <<cache, due, table>>
            /\ handler.at # "insert" /\ handler'.at # "insert"
        BY <2>3 DEF InsertChange, Inserting, Waiting
      <3>. QED  BY <1>2, <3>1 DEF Tracked, NodeSnapshot
    <2>4. CASE Watch \/ Resync
      BY <1>1, <1>2, <2>4
    <2>5. CASE Stop
      BY <2>5 DEF Stop, Tracked
    <2>6. CASE (\E o \in Objects : EditNode(o)) \/ ClockMoves \/ StartUp \/ UNCHANGED nodeVars
      <3>1. UNCHANGED <<cache, due, table, handler>>
        BY <2>6 DEF EditNode, ClockMoves, StartUp, nodeVars
      <3>. QED  BY <1>2, <3>1 DEF Tracked, NodeSnapshot
    <2>. QED  BY <1>2, <2>1, <2>2, <2>3, <2>4, <2>5, <2>6 DEF NodeNext
  <1>3. ASSUME ReplayInv, [NodeNext]_nodeVars PROVE ReplayInv'
    BY <1>3, ReplayStep
  <1>4. ReplayInv /\ ReplayInv' /\ [NodeNext]_nodeVars =>
            [/\ Watch \/ Resync => Tracked'
             /\ Tracked /\ ~ReadFails /\ ~InsertFails => Tracked']_nodeVars
    BY <1>1, <1>2
  <1>. QED  BY <1>3, <1>4, ReplayInvInit, PTL DEF NodeSpec
=============================================================================
