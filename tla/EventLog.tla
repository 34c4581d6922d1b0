------------------------------ MODULE EventLog ------------------------------
(***************************************************************************)
(* Events of one pod, from the API server to table events                  *)
(* (internal/informers: onEvent, EventRecord; internal/store: PutEvent,    *)
(* Prune), and the loop of the size cap (EnforceSizeCap), which drops raw  *)
(* snapshots first and events after them.                                  *)
(*                                                                         *)
(* An event is told apart by its uid; of its content the model keeps the   *)
(* node it is filed under.  The API server forgets events after its TTL    *)
(* and the informer's delete notification is ignored, so a stored event    *)
(* outlives it.                                                            *)
(***************************************************************************)
EXTENDS Naturals, FiniteSets, Collector

CONSTANTS
    Uids,       \* events
    Nodes,      \* nodes the pod may be scheduled to
    NoNode,     \* the empty node name
    NoEvent,    \* no such event, or no such row
    MaxRows,    \* STORAGE_MAX_MB, in rows of snapshots and events
    MaxSnaps    \* bound: this many raw snapshots stand for any larger number

ASSUME EventLogAssumption ==
    /\ NoNode \notin Nodes /\ NoEvent \notin Nodes \cup {NoNode}
    /\ MaxRows \in Nat /\ MaxSnaps \in Nat \ {0}
    /\ IsFiniteSet(Uids)

VARIABLES
    pod,        \* the pod's node; NoNode when it is not scheduled or has gone
    lister,     \* the same, in the informer's cache
    api,        \* the events the API server has, with their Source.Host
    raised,     \* the events that have been raised: a uid is never used again
    due,        \* notifications that onEvent has not handled yet
    events,     \* table events: the column node
    snaps,      \* the number of raw (non-baseline) snapshots
    cap         \* where EnforceSizeCap is

logVars == <<up, pod, lister, api, raised, due, events, snaps, cap>>
clusterVars == <<pod, api, raised>>
capVars == <<snaps, cap>>

Node == Nodes \cup {NoNode}

CapPhase == {"idle", "measure", "snapshots", "events"}

LogInit ==
    /\ up \in BOOLEAN
    /\ pod = NoNode /\ lister = NoNode
    /\ api = [u \in Uids |-> NoEvent]
    /\ raised = {}
    /\ due = api /\ events = api
    /\ snaps = 0 /\ cap = "idle"

(***************************************************************************)
(* The cluster.                                                            *)
(***************************************************************************)
Move(n) ==
    /\ pod # n /\ NoNode \in {pod, n}
    /\ pod' = n
    /\ UNCHANGED <<up, lister, api, raised, due, events, capVars>>

\* An event is raised, by the pod's kubelet, which names itself as the host, or
\* by a controller, which does not; or it happens again and its count goes up.
Happen(u) ==
    /\ \/ u \notin raised /\ api' \in {[api EXCEPT ![u] = h] : h \in {pod, NoNode}}
       \/ api[u] # NoEvent /\ UNCHANGED api
    /\ raised' = raised \cup {u}
    /\ due' = IF up THEN [due EXCEPT ![u] = api'[u]] ELSE due
    /\ UNCHANGED <<up, pod, lister, events, capVars>>

\* The TTL of the API server.
Expire(u) ==
    /\ api[u] # NoEvent
    /\ api' = [api EXCEPT ![u] = NoEvent]
    /\ UNCHANGED <<up, pod, raised, lister, due, events, capVars>>

(***************************************************************************)
(* The collector's informers.                                              *)
(***************************************************************************)
\* The pod cache follows the cluster; events may be handled before it has.
SyncPods ==
    /\ up /\ lister # pod
    /\ lister' = pod
    /\ UNCHANGED <<up, clusterVars, due, events, capVars>>

\* EventRecord: the node of the pod, if the cache knows it, else Source.Host.
NodeOf(host) == IF lister = NoNode THEN host ELSE lister

\* Mutant: an event that names no node is not recorded.
PutNamed(u) ==
    /\ up /\ due[u] # NoEvent
    /\ events' = IF NodeOf(due[u]) = NoNode THEN events
                 ELSE [events EXCEPT ![u] = NodeOf(due[u])]
    /\ due' = [due EXCEPT ![u] = NoEvent]
    /\ UNCHANGED <<up, clusterVars, lister, capVars>>

\* onEvent: PutEvent inserts or replaces the row.
Put(u) ==
    /\ up /\ due[u] # NoEvent
    /\ events' = [events EXCEPT ![u] = NodeOf(due[u])]
    /\ due' = [due EXCEPT ![u] = NoEvent]
    /\ UNCHANGED <<up, clusterVars, lister, capVars>>

\* PutEvent fails: logged, and nothing is left of the notification.
PutFails(u) ==
    /\ up /\ due[u] # NoEvent
    /\ due' = [due EXCEPT ![u] = NoEvent]
    /\ UNCHANGED <<up, clusterVars, lister, events, capVars>>

\* Mutant: only what has no row yet is delivered again.
ResyncMissing ==
    /\ up
    /\ due' = [u \in Uids |-> IF events[u] = NoEvent THEN api[u] ELSE due[u]]
    /\ UNCHANGED <<up, clusterVars, lister, events, capVars>>

\* Every 5 minutes the informer delivers its whole cache again.
Resync ==
    /\ up
    /\ due' = [u \in Uids |-> IF api[u] = NoEvent THEN due[u] ELSE api[u]]
    /\ UNCHANGED <<up, clusterVars, lister, events, capVars>>

(***************************************************************************)
(* Maintenance.                                                            *)
(***************************************************************************)
\* Prune: RETENTION_EVENTS is longer than the API server's TTL.
PruneEvent(u) ==
    /\ up /\ api[u] = NoEvent /\ due[u] = NoEvent /\ events[u] # NoEvent
    /\ events' = [events EXCEPT ![u] = NoEvent]
    /\ UNCHANGED <<up, clusterVars, lister, due, capVars>>

\* A raw snapshot is stored.
AddSnapshot == snaps' = IF snaps < MaxSnaps THEN snaps + 1 ELSE snaps

OverCap == snaps + Cardinality({u \in Uids : events[u] # NoEvent}) > MaxRows

CapStarts ==
    /\ up /\ cap = "idle"
    /\ cap' = "measure"
    /\ UNCHANGED <<up, clusterVars, lister, due, events, snaps>>

\* SizeBytes: under the cap the loop ends.  Changes, transitions and baselines
\* count as well and are not dropped: any measure may find them too large.
CapMeasures ==
    /\ cap = "measure"
    /\ cap' \in IF OverCap THEN {"snapshots"} ELSE {"idle", "snapshots"}
    /\ UNCHANGED <<up, clusterVars, lister, due, events, snaps>>

\* Mutant: a batch is taken off the count, however few rows there are.
CapDropsBatch ==
    /\ cap = "snapshots"
    /\ IF snaps = 0 THEN cap' = "events" /\ UNCHANGED snaps
       ELSE cap' = "measure" /\ snaps' = snaps - 2
    /\ UNCHANGED <<up, clusterVars, lister, due, events>>

\* The first DELETE: a batch of the oldest raw snapshots, if there are any.
CapDropsSnapshots ==
    /\ cap = "snapshots"
    /\ IF snaps = 0 THEN cap' = "events" /\ UNCHANGED snaps
       ELSE cap' = "measure" /\ snaps' \in 0..(snaps - 1)
    /\ UNCHANGED <<up, clusterVars, lister, due, events>>

\* Mutant: having nothing left to drop is not noticed.
CapDropsEventsForEver ==
    /\ cap = "events"
    /\ \E U \in SUBSET {u \in Uids : events[u] # NoEvent} :
        events' = [u \in Uids |-> IF u \in U THEN NoEvent ELSE events[u]]
    /\ cap' = "measure"
    /\ UNCHANGED <<up, clusterVars, lister, due, snaps>>

\* The second: a batch of events; without any, nothing is left to drop.
CapDropsEvents ==
    /\ cap = "events"
    /\ LET rows == {u \in Uids : events[u] # NoEvent}
       IN  IF rows = {} THEN cap' = "idle" /\ UNCHANGED events
           ELSE /\ cap' = "measure"
                /\ \E U \in (SUBSET rows) \ {{}} :
                    events' = [u \in Uids |-> IF u \in U THEN NoEvent ELSE events[u]]
    /\ UNCHANGED <<up, clusterVars, lister, due, snaps>>

\* A statement fails: EnforceSizeCap returns, and runs again in the next round of
\* maintenance.
CapFails ==
    /\ cap # "idle"
    /\ cap' = "idle"
    /\ UNCHANGED <<up, clusterVars, lister, due, events, snaps>>

EnforceSizeCap == CapMeasures \/ CapDropsSnapshots \/ CapDropsEvents \/ CapFails

(***************************************************************************)
(* The collector stops and starts: notifications and caches are lost, the  *)
(* initial list delivers what the API server still has.                    *)
(***************************************************************************)
LogStops ==
    /\ due' = [u \in Uids |-> NoEvent]
    /\ lister' = NoNode
    /\ cap' = "idle"
    /\ UNCHANGED <<clusterVars, events, snaps>>

LogStarts ==
    /\ due' = api
    /\ UNCHANGED <<clusterVars, lister, events, capVars>>

LogStep ==
    \/ \E n \in Node : Move(n)
    \/ \E u \in Uids : Happen(u) \/ Expire(u) \/ Put(u) \/ PutFails(u) \/ PruneEvent(u)
    \/ SyncPods
    \/ Resync
    \/ CapStarts
    \/ EnforceSizeCap

\* Resync fires, informers deliver, and a statement that is tried again and
\* again succeeds some time.  Maintenance runs until it is done.
LogFairness ==
    /\ WF_logVars(Resync)
    /\ WF_logVars(SyncPods)
    /\ \A u \in Uids : SF_logVars(Put(u))
    /\ WF_logVars(EnforceSizeCap)

(***************************************************************************)
(* Properties.                                                             *)
(***************************************************************************)
\* The variables keep their types.
LogTypeOK ==
    /\ up \in BOOLEAN
    /\ pod \in Node /\ lister \in Node
    /\ {api, due, events} \subseteq [Uids -> Node \cup {NoEvent}]
    /\ raised \subseteq Uids
    /\ snaps \in 0..MaxSnaps
    /\ cap \in CapPhase

\* An event that the API server keeps while the collector runs is recorded,
\* though it was raised while the collector was down, or its statement failed.
EventsRecorded ==
    \A u \in Uids : api[u] # NoEvent ~>
        (events[u] # NoEvent \/ api[u] = NoEvent \/ ~up)

\* "For pod events, the node comes from the pod lister": an event filed before
\* the pod was in the cache, or before it was scheduled, ends up under the
\* pod's node, as long as the pod and the event stay.
NodeSettles ==
    \A n \in Nodes, u \in Uids :
        <>[](up /\ pod = n /\ api[u] # NoEvent) => <>[](events[u] \in {n, NoEvent})

\* "Everything recorded on that node": an event that has been filed under a node
\* stays there, also when its pod has gone.  A time at which the cache is behind the
\* cluster is left out: what is filed then is filed again (NodeSettles).
NodeKept ==
    [][\A u \in Uids : lister = pod /\ events[u] \in Nodes => events'[u] # NoNode]_logVars

\* EnforceSizeCap returns, with or without an error, unless rows are added to
\* the tables for ever faster than it drops them.
CapEnds ==
    []<>(cap = "idle")
    \/ []<><<\E u \in Uids : events[u] = NoEvent /\ events'[u] # NoEvent>>_logVars
    \/ []<><<snaps' > snaps>>_logVars
=============================================================================
