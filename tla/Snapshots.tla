----------------------------- MODULE Snapshots -----------------------------
(***************************************************************************)
(* A node's snapshots from one source, as the store keeps and compares     *)
(* them (internal/store/snapshots.go), and the change records that one     *)
(* snapshot after another gives rise to (internal/diff/diff.go and the     *)
(* driver comparison of internal/api/server.go).                           *)
(***************************************************************************)
EXTENDS Fields, Sequences, SequencesExt

CONSTANTS
    Drivers,    \* CNI driver names; an api snapshot's driver is ""
    NoSnapshot  \* LatestSnapshot's nil

Snapshot == [time : Nat, driver : Drivers, fields : FieldMap]

\* The driver is diffed by the handler, as one more field named "driver".
DriverField(d) == [state |-> "present", value |-> d]

AnyField == Field \cup {DriverField(d) : d \in Drivers}

Change == [time : Nat, field : Keys \cup {"driver"}, old : AnyField,
           new : AnyField, severity : Severity]

ASSUME SnapshotAssumption ==
    /\ "driver" \notin Keys
    /\ NoSnapshot \notin Snapshot

\* The times of a sequence of snapshots.
TimesIn(q) == {s.time : s \in ToSet(q)}

\* Mutant: the order is not descending.
OldestIds(table) ==
    {i \in DOMAIN table : \A j \in DOMAIN table :
        \/ table[j].time > table[i].time
        \/ table[j].time = table[i].time /\ j >= i}

\* LatestSnapshot: ORDER BY ts DESC, id DESC LIMIT 1, or nil.
LatestIds(table) ==
    {i \in DOMAIN table : \A j \in DOMAIN table :
        \/ table[j].time < table[i].time
        \/ table[j].time = table[i].time /\ j <= i}

Latest(table) ==
    IF LatestIds(table) = {} THEN NoSnapshot
    ELSE table[CHOOSE i \in LatestIds(table) : TRUE]

DriverDiff(prev, cur) ==
    IF prev.driver = cur.driver THEN {}
    ELSE {[time |-> cur.time, field |-> "driver", old |-> DriverField(prev.driver),
           new |-> DriverField(cur.driver), severity |-> "info"]}

\* The change records the handler writes for cur after prev.
ChangesBetween(prev, cur) ==
    IF prev = NoSnapshot THEN {}
    ELSE {[time |-> cur.time, field |-> c.field, old |-> c.old, new |-> c.new,
           severity |-> c.severity] : c \in Diff(prev.fields, cur.fields)}
         \cup DriverDiff(prev, cur)
=============================================================================
