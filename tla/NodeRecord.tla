----------------------------- MODULE NodeRecord -----------------------------
(***************************************************************************)
(* One node of the cluster, from its object at the API server to its api   *)
(* snapshots and change records (internal/informers: onNode, RecordNode,   *)
(* NodeSnapshot).  The informer delivers versions of the object, and its   *)
(* cached version again every 5 minutes; one handler at a time records     *)
(* them, in several statements, any of which may fail; the collector stops *)
(* and starts; its clock may be set back.                                  *)
(*                                                                         *)
(* The informer's queue is client-go's: a watch may skip versions when it  *)
(* is set up anew, and a resync passes over what is still queued.          *)
(***************************************************************************)
EXTENDS Collector, Integers, Snapshots

CONSTANTS
    Objects,    \* what the API server may say of the node: its conditions,
                \* strings, taints, by the key of the field they go to; Nil for
                \* a condition that is missing and a string that is empty
    NoNode,     \* no version in the informer's cache
    ClockSteps, \* by how much the collector's clock may change at once
    MaxTime,    \* bound: of the clock
    MaxEdits    \* bound: changes of the object

ASSUME NodeAssumption ==
    /\ Objects \subseteq [Keys -> Values \cup {Nil}]
    /\ NoNode \notin Objects
    /\ Drivers = {""}
    /\ ClockSteps \subseteq Int /\ MaxTime \in Nat /\ MaxEdits \in Nat

VARIABLES
    node,       \* the object at the API server
    edits,      \* how often it has changed
    cache,      \* the informer's cache
    due,        \* versions onNode has not been called with yet
    clock,      \* the collector's clock
    handler,    \* RecordNode: between its statements
    table,      \* table snapshots, source api, in the order of its id
    log,        \* table changes, source api, in the order of its id
    lost        \* history: fields a change of which was not inserted

nodeVars == <<up, node, edits, cache, due, clock, handler, table, log, lost>>

Waiting == [at |-> "idle", prev |-> NoSnapshot, snap |-> NoSnapshot, todo |-> {}]

\* insert: it has compared the version with the latest snapshot.  changes: it
\* has stored the snapshot, and todo is what PutChanges has still to insert.
Handler ==
    {Waiting} \cup
    [at : {"insert", "changes"}, prev : Snapshot \cup {NoSnapshot}, snap : Snapshot,
     todo : SUBSET Change]

NodeInit ==
    /\ up = FALSE
    /\ node \in Objects /\ edits = 0
    /\ cache = NoNode /\ due = <<>>
    /\ clock = 0
    /\ handler = Waiting
    /\ table = <<>> /\ log = <<>> /\ lost = {}

(***************************************************************************)
(* The API server, the informer and the clock.                             *)
(***************************************************************************)
EditNode(o) ==
    /\ edits < MaxEdits /\ o # node
    /\ node' = o /\ edits' = edits + 1
    /\ UNCHANGED <<up, cache, due, clock, handler, table, log, lost>>

\* The initial list, or an update.
Watch ==
    /\ up /\ cache # node
    /\ cache' = node /\ due' = Append(due, node)
    /\ UNCHANGED <<up, node, edits, clock, handler, table, log, lost>>

\* Mutant: an informer without a resync period.
ResyncNever == up /\ FALSE

Resync ==
    /\ up /\ cache # NoNode /\ due = <<>>
    /\ due' = <<cache>>
    /\ UNCHANGED <<up, node, edits, cache, clock, handler, table, log, lost>>

ClockMoves ==
    /\ \E d \in ClockSteps : clock + d \in 0..MaxTime /\ clock' = clock + d
    /\ UNCHANGED <<up, node, edits, cache, due, handler, table, log, lost>>

(***************************************************************************)
(* RecordNode.                                                             *)
(***************************************************************************)
\* NodeSnapshot: every key is there.  What the object does not say is absent,
\* and nothing is unknown or not applicable.
NodeSnapshot(o) ==
    [time |-> clock, driver |-> "",
     fields |-> [k \in Keys |-> IF o[k] = Nil THEN Absent ELSE Present(o[k])]]

\* Mutant: unchanged versions are recorded as well.
ReadLatestOfAll ==
    /\ up /\ handler.at = "idle" /\ due # <<>>
    /\ handler' = [at |-> "insert", prev |-> Latest(table), snap |-> NodeSnapshot(Head(due)), todo |-> {}]
    /\ due' = Tail(due)
    /\ UNCHANGED <<up, node, edits, cache, clock, table, log, lost>>

\* LatestSnapshot, and the end for a version that says the same.
ReadLatest ==
    /\ up /\ handler.at = "idle" /\ due # <<>>
    /\ LET prev == Latest(table)
           snap == NodeSnapshot(Head(due))
           same == IF prev = NoSnapshot THEN FALSE ELSE FieldsEqual(prev.fields, snap.fields)
       IN  handler' = IF same THEN Waiting
                      ELSE [at |-> "insert", prev |-> prev, snap |-> snap, todo |-> {}]
    /\ due' = Tail(due)
    /\ UNCHANGED <<up, node, edits, cache, clock, table, log, lost>>

\* With nothing more to insert the handler returns.
Inserting(todo) ==
    IF todo = {} THEN Waiting ELSE [handler EXCEPT !.at = "changes", !.todo = todo]

InsertSnapshot ==
    /\ handler.at = "insert"
    /\ table' = Append(table, handler.snap)
    /\ handler' = Inserting(ChangesBetween(handler.prev, handler.snap))
    /\ UNCHANGED <<up, node, edits, cache, due, clock, log, lost>>

\* One row of PutChanges.
InsertChange ==
    /\ handler.at = "changes"
    /\ \E c \in handler.todo :
        /\ log' = Append(log, c)
        /\ handler' = Inserting(handler.todo \ {c})
    /\ UNCHANGED <<up, node, edits, cache, due, clock, table, lost>>

Lost == lost' = lost \cup {c.field : c \in handler.todo}

\* A statement fails; onNode logs it, and the version is not looked at again.
ReadFails ==
    /\ up /\ handler.at = "idle" /\ due # <<>>
    /\ due' = Tail(due)
    /\ UNCHANGED <<up, node, edits, cache, clock, handler, table, log, lost>>

InsertFails ==
    /\ handler.at # "idle"
    /\ handler' = Waiting
    /\ Lost
    /\ UNCHANGED <<up, node, edits, cache, due, clock, table, log>>

\* The collector's process; all but the database is volatile.
Stop ==
    /\ up /\ up' = FALSE
    /\ cache' = NoNode /\ due' = <<>> /\ handler' = Waiting
    /\ Lost
    /\ UNCHANGED <<node, edits, clock, table, log>>

StartUp ==
    /\ ~up /\ up' = TRUE
    /\ UNCHANGED <<node, edits, cache, due, clock, handler, table, log, lost>>

NodeNext ==
    \/ \E o \in Objects : EditNode(o)
    \/ Watch
    \/ Resync
    \/ ClockMoves
    \/ ReadLatest
    \/ InsertSnapshot
    \/ InsertChange
    \/ ReadFails
    \/ InsertFails
    \/ Stop
    \/ StartUp

NodeSpec == NodeInit /\ [][NodeNext]_nodeVars

\* The collector is restarted, and does not stop and start for ever before its
\* informer lists, watches and resyncs; a statement that is tried again and
\* again succeeds some time.
NodeFairness ==
    /\ WF_nodeVars(StartUp)
    /\ SF_nodeVars(Watch) /\ SF_nodeVars(Resync)
    /\ SF_nodeVars(ReadLatest) /\ SF_nodeVars(InsertSnapshot) /\ SF_nodeVars(InsertChange)

NodeFairSpec == NodeSpec /\ NodeFairness

(***************************************************************************)
(* Properties.                                                             *)
(***************************************************************************)
\* The variables keep their types.
NodeTypeOK ==
    /\ up \in BOOLEAN
    /\ node \in Objects /\ edits \in 0..MaxEdits
    /\ cache \in Objects \cup {NoNode} /\ due \in Seq(Objects)
    /\ clock \in 0..MaxTime
    /\ handler \in Handler
    /\ table \in Seq(Snapshot) /\ log \in Seq(Change)
    /\ lost \subseteq Keys \cup {"driver"}

\* "Unchanged resyncs write nothing", as long as the collector's clock does not go
\* back: what is stored differs from what was stored before it, through restarts
\* and failures of any statement.  (Once the clock has gone back, a changed node
\* is stored below the latest snapshot, and every resync stores it again.)
UnchangedWritesNothing ==
    \A i \in 1..(Len(table) - 1) : ~FieldsEqual(table[i].fields, table[i + 1].fields)

\* The first n change records say that field k is v.
Says(n, k, v) ==
    \/ \E i \in 1..n : /\ log[i].field = k /\ log[i].new = v
                       /\ \A j \in (i + 1)..n : log[j].field # k
    \/ /\ \A i \in 1..n : log[i].field # k
       /\ v = table[1].fields[k]

\* The change log tells a field's whole history: every record takes over where
\* the one before it ended, from the first snapshot to the latest one, through
\* restarts and failures; but for the fields whose change was lost between the
\* insertion of a snapshot and of its changes, which RecordedWithChanges is about.
LogReplays ==
    table # <<>> =>
        \A k \in Keys \ lost :
            /\ \A j \in DOMAIN log : log[j].field = k => Says(j - 1, k, log[j].old)
            /\ \/ \E c \in handler.todo : c.field = k
               \/ Says(Len(log), k, table[Len(table)].fields[k])

\* RecordNode "diffs it against the previous api snapshot, and persists both": the
\* changes a stored snapshot brings come to be in the log, if not from the handler
\* that stored it then from one of those that handle the same version again.
RecordedWithChanges ==
    \A i \in 1..MaxEdits :
        Len(table) > i ~>
            (Len(table) > i /\ ChangesBetween(table[i], table[i + 1]) \subseteq ToSet(log))

\* "The 5-minute resync is a safety net": whatever fails and however often the
\* collector restarts, the latest snapshot comes to say what the node's object
\* says, for as long as the object stays as it is.
NodeRecorded ==
    \A o \in Objects :
        node = o ~> node # o \/ (table # <<>> /\ Latest(table).fields = NodeSnapshot(o).fields)
=============================================================================
