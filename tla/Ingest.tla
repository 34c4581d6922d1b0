------------------------------- MODULE Ingest -------------------------------
(***************************************************************************)
(* One node's samples on their way into the store: the agent's loop        *)
(* (Agent), the network between it and the collector, and the collector's  *)
(* handler agentSnapshot (internal/api/server.go), which is four database  *)
(* operations without a transaction around them: read the latest snapshot, *)
(* insert this one, insert each change record, answer.                     *)
(*                                                                         *)
(* A slot is one request on one connection.  When the agent's client gives *)
(* up on a request (its 10 second timeout, a broken connection, a restart) *)
(* the request is abandoned, not undone: it may be lost, it may still      *)
(* arrive, and its handler may stop between any two database operations,   *)
(* because the request's context is cancelled, the database fails or the   *)
(* collector crashes, or may run to the end.  With one slot a new request  *)
(* is sent only when the old one is over; with two, an abandoned request   *)
(* can arrive late, next to its own retry or to a later sample's request.  *)
(***************************************************************************)
EXTENDS Agent, Snapshots

CONSTANTS
    Readings,   \* what one reading of the node may give: [driver, fields]
    Oversize,   \* the readings whose JSON exceeds the handler's 1 MiB limit
    Slots,      \* requests that may be under way at once
    Faults,     \* the faults that may happen: subset of {"network", "handler"}
    MaxTime     \* bound: samples the agent takes in one behaviour

VARIABLES
    clock,      \* time of the newest sample; every sample has its own time
    slot,       \* the requests under way
    snapshots,  \* table snapshots, in the order of its autoincrement id
    changes,    \* table changes, in the order of its autoincrement id
    gone        \* history: times of the samples the agent discarded unsent

vars == <<buffer, phase, clock, slot, snapshots, changes, gone>>

ASSUME IngestAssumption ==
    /\ Readings \subseteq [driver : Drivers, fields : FieldMap]
    /\ Oversize \subseteq Readings
    /\ Faults \subseteq {"network", "handler"}

\* Decoding fails over 1 MiB, and Validate refuses malformed fields: both 400.
Refused(s) ==
    \/ [driver |-> s.driver, fields |-> s.fields] \in Oversize
    \/ ~ValidFields(s.fields)

(***************************************************************************)
(* Requests.  sent: on its way.  read, put: the handler after its first    *)
(* and after its second database operation, with todo the change records   *)
(* still to insert.  ok, error: answered.  lost: it, or its answer, will   *)
(* never arrive, and the agent still waits.                                *)
(***************************************************************************)
Pc == {"free", "sent", "read", "put", "ok", "error", "lost"}

FreeSlot == [pc |-> "free", snap |-> NoSnapshot, prev |-> NoSnapshot,
             todo |-> {}, client |-> FALSE]

\* The request's handler answers; nobody reads it if the client has given up.
Answered(r, outcome) ==
    IF r.client THEN [r EXCEPT !.pc = outcome, !.todo = {}] ELSE FreeSlot

\* Mutant: the client that has given up still takes the answer.
AbandonedKept(r) == r

\* The client gives up.  Only a handler still at work, or a request still on
\* its way, outlives that.
Abandoned(r) ==
    IF r.pc \in {"sent", "read", "put"} THEN [r EXCEPT !.client = FALSE] ELSE FreeSlot

Init ==
    /\ AgentInit
    /\ clock = 0
    /\ slot = [s \in Slots |-> FreeSlot]
    /\ snapshots = <<>>
    /\ changes = <<>>
    /\ gone = {}

(***************************************************************************)
(* The agent.                                                              *)
(***************************************************************************)
Tick(r) ==
    /\ clock < MaxTime
    /\ TakeSample([time |-> clock + 1, driver |-> r.driver, fields |-> r.fields])
    /\ clock' = clock + 1
    /\ gone' = gone \cup ((TimesIn(buffer) \cup {clock + 1}) \ TimesIn(buffer'))
    /\ UNCHANGED <<slot, snapshots, changes>>

StopFlush ==
    /\ EndFlush
    /\ UNCHANGED <<clock, slot, snapshots, changes, gone>>

Send(s) ==
    /\ BeginPost
    /\ slot[s].pc = "free"
    /\ slot' = [slot EXCEPT ![s] = [pc |-> "sent", snap |-> Head(buffer),
                    prev |-> NoSnapshot, todo |-> {}, client |-> TRUE]]
    /\ UNCHANGED <<clock, snapshots, changes, gone>>

\* A 2xx answer.
ReceiveAccepted(s) ==
    /\ slot[s].client /\ slot[s].pc = "ok"
    /\ PostSucceeds
    /\ slot' = [slot EXCEPT ![s] = FreeSlot]
    /\ UNCHANGED <<clock, snapshots, changes, gone>>

\* Mutant: any answer counts as accepted.
ReceiveErrorAccepts(s) ==
    /\ slot[s].client /\ slot[s].pc = "error"
    /\ PostSucceeds
    /\ slot' = [slot EXCEPT ![s] = FreeSlot]
    /\ UNCHANGED <<clock, snapshots, changes, gone>>

\* Any other answer, 400 included: the sample stays at the head of the buffer.
ReceiveError(s) ==
    /\ slot[s].client /\ slot[s].pc = "error"
    /\ PostFails
    /\ slot' = [slot EXCEPT ![s] = FreeSlot]
    /\ UNCHANGED <<clock, snapshots, changes, gone>>

\* Mutant: an HTTP client without a timeout.
GiveUpNever(s) == slot[s].client /\ FALSE

\* The client's timeout fires, or its connection breaks.
GiveUp(s) ==
    /\ "network" \in Faults
    /\ slot[s].client
    /\ PostFails
    /\ slot' = [slot EXCEPT ![s] = Abandoned(@)]
    /\ UNCHANGED <<clock, snapshots, changes, gone>>

\* The agent's pod is restarted; its connections die with it.
Restart ==
    /\ LoseBuffer
    /\ gone' = gone \cup TimesIn(buffer)
    /\ slot' = [s \in Slots |-> Abandoned(slot[s])]
    /\ UNCHANGED <<clock, snapshots, changes>>

(***************************************************************************)
(* The network.                                                            *)
(***************************************************************************)
LoseRequest(s) ==
    /\ "network" \in Faults
    /\ slot[s].pc = "sent"
    /\ slot' = [slot EXCEPT ![s] = Answered(@, "lost")]
    /\ UNCHANGED <<buffer, phase, clock, snapshots, changes, gone>>

LoseAnswer(s) ==
    /\ "network" \in Faults
    /\ slot[s].pc \in {"ok", "error"}
    /\ slot' = [slot EXCEPT ![s].pc = "lost"]
    /\ UNCHANGED <<buffer, phase, clock, snapshots, changes, gone>>

(***************************************************************************)
(* agentSnapshot, one action per database operation.                       *)
(***************************************************************************)
Refuse(s) ==
    /\ slot[s].pc = "sent"
    /\ Refused(slot[s].snap)
    /\ slot' = [slot EXCEPT ![s] = Answered(@, "error")]
    /\ UNCHANGED <<buffer, phase, clock, snapshots, changes, gone>>

ReadPrevious(s) ==
    /\ slot[s].pc = "sent"
    /\ ~Refused(slot[s].snap)
    /\ slot' = [slot EXCEPT ![s].pc = "read", ![s].prev = Latest(snapshots)]
    /\ UNCHANGED <<buffer, phase, clock, snapshots, changes, gone>>

\* Mutant: the old and the new snapshot change places in the diff.
PutSnapshotSwaps(s) ==
    /\ slot[s].pc = "read"
    /\ snapshots' = Append(snapshots, slot[s].snap)
    /\ slot' = [slot EXCEPT ![s].pc = "put",
                    ![s].todo = IF slot[s].prev = NoSnapshot THEN {}
                                ELSE ChangesBetween(slot[s].snap, slot[s].prev)]
    /\ UNCHANGED <<buffer, phase, clock, changes, gone>>

\* Mutant: the error of the insertion is not looked at.
PutSnapshotUnchecked(s) ==
    /\ slot[s].pc = "read"
    /\ snapshots' \in {snapshots, Append(snapshots, slot[s].snap)}
    /\ slot' = [slot EXCEPT ![s].pc = "put",
                    ![s].todo = ChangesBetween(slot[s].prev, slot[s].snap)]
    /\ UNCHANGED <<buffer, phase, clock, changes, gone>>

PutSnapshot(s) ==
    /\ slot[s].pc = "read"
    /\ snapshots' = Append(snapshots, slot[s].snap)
    /\ slot' = [slot EXCEPT ![s].pc = "put",
                    ![s].todo = ChangesBetween(slot[s].prev, slot[s].snap)]
    /\ UNCHANGED <<buffer, phase, clock, changes, gone>>

\* One row of PutChanges.  The code inserts them ordered by field name; no
\* property tells the orders apart, so any row may be next.
PutChange(s) ==
    /\ slot[s].pc = "put"
    /\ \E c \in slot[s].todo :
        /\ changes' = Append(changes, c)
        /\ slot' = [slot EXCEPT ![s].todo = @ \ {c}]
    /\ UNCHANGED <<buffer, phase, clock, snapshots, gone>>

\* Mutant: the handler answers before all changes are inserted.
AcceptEarly(s) ==
    /\ slot[s].pc = "put"
    /\ slot' = [slot EXCEPT ![s] = Answered(@, "ok")]
    /\ UNCHANGED <<buffer, phase, clock, snapshots, changes, gone>>

Accept(s) ==
    /\ slot[s].pc = "put"
    /\ slot[s].todo = {}
    /\ slot' = [slot EXCEPT ![s] = Answered(@, "ok")]
    /\ UNCHANGED <<buffer, phase, clock, snapshots, changes, gone>>

\* The next database operation fails: an error of SQLite, a cancelled request
\* context, or the collector's process ending.  All a handler has is volatile.
HandlerFails(s) ==
    /\ "handler" \in Faults
    /\ slot[s].pc \in {"sent", "read", "put"}
    /\ slot' = [slot EXCEPT ![s] = Answered(@, "error")]
    /\ UNCHANGED <<buffer, phase, clock, snapshots, changes, gone>>

Handler(s) ==
    \/ Refuse(s)
    \/ ReadPrevious(s)
    \/ PutSnapshot(s)
    \/ PutChange(s)
    \/ Accept(s)

Fault(s) ==
    \/ LoseRequest(s)
    \/ LoseAnswer(s)
    \/ HandlerFails(s)

AgentStep(s) ==
    \/ Send(s)
    \/ ReceiveAccepted(s)
    \/ ReceiveError(s)
    \/ GiveUp(s)

Next ==
    \/ \E r \in Readings : Tick(r)
    \/ StopFlush
    \/ Restart
    \/ \E s \in Slots : AgentStep(s) \/ Handler(s) \/ Fault(s)

Spec == Init /\ [][Next]_vars

\* Goroutines are scheduled, and the client's timeout fires when nothing else
\* ends the post.  Nothing is assumed of the network, of the collector or of the
\* ticker.
Fairness ==
    /\ WF_vars(StopFlush)
    /\ WF_vars(\E s \in Slots : AgentStep(s))

FairSpec == Spec /\ Fairness

(***************************************************************************)
(* Properties.                                                             *)
(***************************************************************************)
SlotType ==
    [pc : Pc, snap : Snapshot \cup {NoSnapshot}, prev : Snapshot \cup {NoSnapshot},
     todo : SUBSET Change, client : BOOLEAN]

\* The variables keep their types.
TypeOK ==
    /\ buffer \in Seq(Snapshot)
    /\ phase \in Phase
    /\ clock \in Nat
    /\ slot \in [Slots -> SlotType]
    /\ snapshots \in Seq(Snapshot)
    /\ changes \in Seq(Change)
    /\ gone \subseteq Nat

\* The agent's buffer never exceeds its size and holds samples in the order
\* they were taken, through overflow, failed posts and restarts (tick).
BufferInOrder ==
    /\ Len(buffer) <= BufferSize
    /\ \A i, j \in DOMAIN buffer : i < j => buffer[i].time < buffer[j].time

\* No sample disappears: each one taken is stored, still buffered, or was
\* discarded by the agent (overflow or restart).  A lost answer, a timeout or
\* a failed handler must never make the agent advance past an unstored sample.
SamplesAccounted ==
    1..clock \subseteq TimesIn(snapshots) \cup TimesIn(buffer) \cup gone

\* The recorder never invents a change: every record is the difference of two
\* snapshots that are both in the store, whichever requests interleave.
ChangesJustified ==
    \A c \in ToSet(changes) : \E p, q \in ToSet(snapshots) : c \in ChangesBetween(p, q)

\* A change is recorded once, however often its sample is posted: a retry of a
\* sample that is already stored is diffed against itself.
RecordedOnce ==
    \A i, j \in DOMAIN changes :
        changes[i].time = changes[j].time /\ changes[i].field = changes[j].field => i = j

\* "Flush oldest first so the collector sees samples in order."
StoredInOrder ==
    \A i, j \in DOMAIN snapshots : i < j => snapshots[i].time <= snapshots[j].time

\* "Diffed against the previous agent snapshot for that node": every change leads
\* from a snapshot to the next newer one.  So it is with one request under way at a
\* time, whichever answers are lost and wherever handlers stop; next to an abandoned
\* request it is not (Ingest_abandoned).
DiffedAgainstPrevious ==
    \A c \in ToSet(changes) : \E p, q \in ToSet(snapshots) :
        /\ p.time < q.time
        /\ \A r \in ToSet(snapshots) : r.time <= p.time \/ q.time <= r.time
        /\ c \in ChangesBetween(p, q)

\* Why no sample disappears and no change is invented.  The agent waits for at
\* most one request, and it carries the head of the buffer; a handler answers
\* 2xx only after its sample is stored; and the changes it has still to insert
\* are differences of stored snapshots.  Inductive together with TypeOK.
OnePost ==
    /\ \A s \in Slots : slot[s].client =>
        phase = "wait" /\ buffer # <<>> /\ slot[s].snap = Head(buffer)
    /\ \A s, t \in Slots : slot[s].client /\ slot[t].client => s = t

\* A request under way carries a sample.
Carrying == \A s \in Slots : slot[s].pc # "free" => slot[s].snap \in Snapshot

HandlerStored ==
    \A s \in Slots :
        /\ slot[s].pc = "read" => slot[s].prev \in ToSet(snapshots) \cup {NoSnapshot}
        /\ slot[s].pc \in {"put", "ok"} => slot[s].snap \in ToSet(snapshots)
        /\ slot[s].pc = "put" => \A c \in slot[s].todo :
            \E p, q \in ToSet(snapshots) : c \in ChangesBetween(p, q)

Handshake ==
    /\ OnePost
    /\ Carrying
    /\ HandlerStored

AtWork(t) == \E s \in Slots : slot[s].pc \in {"sent", "read", "put"} /\ slot[s].snap.time = t

\* agentSnapshot "diffs it against the previous agent snapshot for that node,
\* and stores both": once no handler works on a stored sample, every change it
\* brought is in the change log.
EveryChangeRecorded ==
    \A i \in 1..(Len(snapshots) - 1) :
        AtWork(snapshots[i + 1].time)
        \/ ChangesBetween(snapshots[i], snapshots[i + 1]) \subseteq ToSet(changes)

\* The same with a handler that may stop half-way, as far as a retry can make good
\* for it: once the collector has accepted a sample, and nothing of it is under way
\* or waits to be posted again, every change it brought is in the change log.
AcceptedWithChanges ==
    \A i \in 1..(Len(snapshots) - 1) :
        \/ AtWork(snapshots[i + 1].time)
        \/ snapshots[i + 1].time \in TimesIn(buffer) \cup gone
        \/ ChangesBetween(snapshots[i], snapshots[i + 1]) \subseteq ToSet(changes)

(***************************************************************************)
(* Implementation of ChangeLog: a snapshot counts as recorded once its     *)
(* handler has inserted its changes too.                                   *)
(***************************************************************************)
Recording(s) ==
    /\ slot[s].pc = "put"
    /\ slot[s].prev = NoSnapshot \/ slot[s].prev.time < slot[s].snap.time

LatestRecorded ==
    IF \E s \in Slots : Recording(s)
    THEN slot[CHOOSE s \in Slots : Recording(s)].prev
    ELSE Latest(snapshots)

RecordedChanges ==
    {c \in ToSet(changes) : \A s \in Slots : Recording(s) => c.time # slot[s].snap.time}

CL == INSTANCE ChangeLog WITH latest <- LatestRecorded, log <- RecordedChanges

\* Samples and their changes are recorded together and in order: posts that
\* are lost, delayed, repeated or abandoned change nothing a reader can see.
ImplementsChangeLog == CL!Spec

\* There is no room for one more request: all the slots are taken by requests that
\* the agent has given up.  It is the bound on requests that stops the agent then.
NoRoom == \A s \in Slots : slot[s].pc # "free" /\ ~slot[s].client

\* Every tick ends, whatever the network and the collector do: a hung request
\* cannot stop the agent from sampling.
FlushEnds == phase # "idle" ~> phase = "idle" \/ NoRoom
=============================================================================
