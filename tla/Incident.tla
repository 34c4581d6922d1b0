------------------------------ MODULE Incident ------------------------------
(***************************************************************************)
(* From pods to incidents: the pod informer's handlers                     *)
(* (internal/informers/collector.go) keep the tables pod_transitions and   *)
(* pods (internal/store/records.go), and the evaluator                     *)
(* (internal/incident/incident.go) reads both, periodically, to open,      *)
(* extend and close incidents.                                             *)
(*                                                                         *)
(* Time is kept as ages: "at or after now - window" is "age at most        *)
(* Window", and an age past the largest window is not told from a larger   *)
(* one.  A pod is reduced to what the evaluator can tell: Running with     *)
(* nothing waiting, waiting in CrashLoopBackOff, or any other state.       *)
(***************************************************************************)
EXTENDS Naturals, Sequences, FiniteSets

CONSTANTS
    States,         \* bound: the pod states that occur
    Pods,           \* keys namespace/name
    NamespaceOf,    \* their namespaces
    PodThresh,      \* INCIDENT_POD_THRESHOLD
    NSThresh,       \* INCIDENT_NS_THRESHOLD
    Window,         \* INCIDENT_WINDOW_MIN, in units of time
    Stable,         \* BASELINE_STABLE_MIN, in units of time
    Faults,         \* what may fail: subset of {"down", "store"}
    NoRow           \* DB.Pod's nil

ASSUME IncidentAssumption ==
    /\ PodThresh \in Nat \ {0} /\ NSThresh \in Nat \ {0}
    /\ Window \in Nat \ {0} /\ Stable \in Nat \ {0}
    /\ Faults \subseteq {"down", "store"} /\ States \subseteq {"Running", "CrashLoop", "Other"}

PodState == {"Running", "CrashLoop", "Other"}

Row == [state : PodState, age : 0..Stable]

ASSUME RowAssumption == NoRow \notin Row

VARIABLES
    world,      \* the pods of the cluster: a PodState, or "gone"
    up,         \* the collector process runs
    listed,     \* the pods in the informer's cache
    writing,    \* the pods whose handler has still to run UpsertPod
    rows,       \* table pods
    entries,    \* table pod_transitions: each pod's last entry into CrashLoopBackOff
    open,       \* table incidents: the pods of each one that is not closed
    eval,       \* where Evaluator.incidents is: see Eval
    calm,       \* history: time since rows last held another state than Running
    missed      \* history: pods in the cache whose last UpsertPod failed

vars == <<world, up, listed, writing, rows, entries, open, eval, calm, missed>>

Entry == [pod : Pods, age : 0..Window]

\* idle: between two ticks.  join: the crash loops have been read, and whether
\* an incident is open.  check: pods of the incident are still to be looked up;
\* calm is history, those found calm by then.
Eval == [at : {"idle", "join", "check"}, pods : SUBSET Pods, calm : SUBSET Pods]

Idle == [at |-> "idle", pods |-> {}, calm |-> {}]

Init ==
    /\ world \in [Pods -> {"Running", "gone"}]
    /\ up = TRUE
    /\ listed = {}
    /\ writing = {}
    /\ rows = [p \in Pods |-> NoRow]
    /\ entries = {}
    /\ open = <<>>
    /\ eval = Idle
    /\ calm = [p \in Pods |-> 0]
    /\ missed = {}

(***************************************************************************)
(* The store.                                                              *)
(***************************************************************************)
\* Mutants: since_ts survives every update, or none.
UpsertedKeepsSince(row, state) ==
    IF row # NoRow THEN [row EXCEPT !.state = state] ELSE [state |-> state, age |-> 0]

UpsertedResetsSince(row, state) == [state |-> state, age |-> 0]

\* UpsertPod: since_ts survives when the state is unchanged.
Upserted(row, state) ==
    IF row # NoRow /\ row.state = state THEN row ELSE [state |-> state, age |-> 0]

UpsertPod(p) ==
    /\ rows' = [rows EXCEPT ![p] = Upserted(@, world'[p])]
    /\ calm' = [calm EXCEPT ![p] = IF rows[p] # NoRow /\ world'[p] = "Running"
                                      /\ rows[p].state = "Running" THEN @ ELSE 0]
    /\ missed' = missed \ {p}

\* CrashLoopsSince(now - window): the pods that entered CrashLoopBackOff.
Crashing == {e.pod : e \in {d \in entries : d.age <= Window}}

\* PutPodTransitions.  Whether a pod is among the above is up to its last entry.
Entered(p) == {e \in entries : e.pod # p} \cup {[pod |-> p, age |-> 0]}

(***************************************************************************)
(* The cluster and the informer.  The handlers of one informer run one     *)
(* after the other, so a pod is written before the next one is handled.    *)
(***************************************************************************)

\* A watch event for a pod in the cache is an update with its old object:
\* onPod writes the transition first, and the row in a second statement.
Change(p, state) ==
    /\ writing = {}
    /\ world[p] \notin {state, "gone"} /\ p \in listed
    /\ world' = [world EXCEPT ![p] = state]
    /\ entries' = IF state = "CrashLoop" THEN Entered(p) ELSE entries
    /\ writing' = {p}
    /\ UNCHANGED <<up, listed, rows, open, eval, calm, missed>>

FinishWrite(p) ==
    /\ p \in writing
    /\ UNCHANGED world
    /\ UpsertPod(p)
    /\ writing' = {}
    /\ UNCHANGED <<up, listed, entries, open, eval>>

\* Mutant: pods of the initial list are not written.
AddUnwritten(p) ==
    /\ up /\ writing = {}
    /\ world[p] # "gone" /\ p \notin listed
    /\ listed' = listed \cup {p}
    /\ UNCHANGED <<world, up, writing, rows, entries, open, eval, calm, missed>>

\* A pod that is not in the cache yet is added: onPod(nil, pod) has no old
\* object to compare with, so it writes the row only.
Add(p) ==
    /\ up /\ writing = {}
    /\ world[p] # "gone" /\ p \notin listed
    /\ UNCHANGED world
    /\ UpsertPod(p)
    /\ listed' = listed \cup {p}
    /\ UNCHANGED <<up, writing, entries, open, eval>>

\* Mutant: the row of a deleted pod is written once more.
DeleteUpserts(p) ==
    /\ writing = {}
    /\ world[p] # "gone" /\ p \in listed
    /\ world' = [world EXCEPT ![p] = "gone"]
    /\ listed' = listed \ {p}
    /\ rows' = [rows EXCEPT ![p] = Upserted(@, "gone")]
    /\ UNCHANGED <<up, writing, entries, open, eval, calm, missed>>

\* onPodDelete: the row goes (its transition does not concern the evaluator).
Delete(p) ==
    /\ writing = {}
    /\ world[p] # "gone" /\ p \in listed
    /\ world' = [world EXCEPT ![p] = "gone"]
    /\ listed' = listed \ {p} /\ missed' = missed \ {p}
    /\ rows' = [rows EXCEPT ![p] = NoRow]
    /\ UNCHANGED <<up, writing, entries, open, eval, calm>>

\* The periodic resync: an update whose old and new objects are equal.
Resync(p) ==
    /\ writing = {}
    /\ p \in listed
    /\ UNCHANGED world
    /\ UpsertPod(p)
    /\ UNCHANGED <<up, listed, writing, entries, open, eval>>

\* Pods the informer does not hold, because they are new or the collector is
\* down, change unobserved.
ChangeUnseen(p, state) ==
    /\ p \notin listed
    /\ world[p] # state
    /\ world' = [world EXCEPT ![p] = state]
    /\ UNCHANGED <<up, listed, writing, rows, entries, open, eval, calm, missed>>

(***************************************************************************)
(* Failures.                                                               *)
(***************************************************************************)
\* A handler's statement fails: it is logged, and the handler goes on.
ChangeUnrecorded(p, state) ==
    /\ "store" \in Faults /\ writing = {}
    /\ world[p] \notin {state, "gone"} /\ p \in listed
    /\ world' = [world EXCEPT ![p] = state]
    /\ writing' = {p}
    /\ UNCHANGED <<up, listed, rows, entries, open, eval, calm, missed>>

UpsertFails(p) ==
    /\ "store" \in Faults
    /\ p \in writing
    /\ writing' = {} /\ missed' = missed \cup {p}
    /\ UNCHANGED <<world, up, listed, rows, entries, open, eval, calm>>

AddFails(p) ==
    /\ "store" \in Faults
    /\ up /\ writing = {}
    /\ world[p] # "gone" /\ p \notin listed
    /\ listed' = listed \cup {p} /\ missed' = missed \cup {p}
    /\ UNCHANGED <<world, up, writing, rows, entries, open, eval, calm>>

ForgetFails(p) ==
    /\ "store" \in Faults /\ writing = {}
    /\ world[p] # "gone" /\ p \in listed
    /\ world' = [world EXCEPT ![p] = "gone"]
    /\ listed' = listed \ {p} /\ missed' = missed \ {p}
    /\ UNCHANGED <<up, writing, rows, entries, open, eval, calm>>

\* The collector stops, in the middle of a handler perhaps, and starts again
\* with an empty cache and the tables as they were.
GoDown ==
    /\ "down" \in Faults /\ up
    /\ up' = FALSE
    /\ listed' = {} /\ writing' = {} /\ missed' = {} /\ eval' = Idle
    /\ UNCHANGED <<world, rows, entries, open, calm>>

ComeUp ==
    /\ ~up
    /\ up' = TRUE
    /\ UNCHANGED <<world, listed, writing, rows, entries, open, eval, calm, missed>>

(***************************************************************************)
(* The evaluator, statement by statement; the handlers go on meanwhile.    *)
(* Its reading whether an incident is open is part of Begin: it alone      *)
(* writes the table.                                                       *)
(***************************************************************************)
\* The grouping rule.
ShouldOpen(crashing) ==
    /\ Cardinality(crashing) >= PodThresh
    /\ Cardinality({NamespaceOf[p] : p \in crashing}) >= NSThresh

\* A tick that finds no incident open, and no reason to open one, does nothing.
Begin ==
    /\ up /\ eval = Idle
    /\ open # <<>> \/ ShouldOpen(Crashing)
    /\ eval' = [Idle EXCEPT !.at = "join", !.pods = Crashing]
    /\ UNCHANGED <<world, up, listed, writing, rows, entries, open, calm, missed>>

\* Mutant: an incident that is open already is not looked for.
OpenIncidentAgain ==
    /\ eval.at = "join" /\ ShouldOpen(eval.pods)
    /\ open' = <<eval.pods>> \o open
    /\ eval' = Idle
    /\ UNCHANGED <<world, up, listed, writing, rows, entries, calm, missed>>

OpenIncident ==
    /\ eval.at = "join" /\ open = <<>>
    /\ open' = <<eval.pods>>
    /\ eval' = Idle
    /\ UNCHANGED <<world, up, listed, writing, rows, entries, calm, missed>>

\* Later crash loops join the open incident.
Joined == Head(open) \cup eval.pods

JoinIncident ==
    /\ eval.at = "join" /\ open # <<>>
    /\ open' = <<Joined>> \o Tail(open)
    /\ eval' = [Idle EXCEPT !.at = "check", !.pods = Joined]
    /\ UNCHANGED <<world, up, listed, writing, rows, entries, calm, missed>>

\* "Running (or is gone) for the stable window".
Resolved(p) == rows[p] # NoRow => rows[p].state = "Running" /\ rows[p].age >= Stable

\* The next pod looked up is in order.
PassPod(p) ==
    /\ eval.at = "check" /\ p \in eval.pods
    /\ Resolved(p)
    /\ eval' = [eval EXCEPT !.pods = @ \ {p},
                    !.calm = IF rows[p] = NoRow \/ calm[p] = Stable THEN @ \cup {p} ELSE @]
    /\ UNCHANGED <<world, up, listed, writing, rows, entries, open, calm, missed>>

\* It is not, and the incident stays open.
HoldOpen(p) ==
    /\ eval.at = "check" /\ p \in eval.pods
    /\ ~Resolved(p)
    /\ eval' = Idle
    /\ UNCHANGED <<world, up, listed, writing, rows, entries, open, calm, missed>>

CloseIncident ==
    /\ eval.at = "check" /\ eval.pods = {}
    /\ open' = Tail(open)
    /\ eval' = Idle
    /\ UNCHANGED <<world, up, listed, writing, rows, entries, calm, missed>>

\* A statement fails: Tick returns, and the next tick starts anew.  (While a
\* pod is not in order, a failure and HoldOpen are the same step.)
EvaluationFails ==
    /\ "store" \in Faults
    /\ \/ eval.at = "join"
       \/ eval.at = "check" /\ \A p \in eval.pods : Resolved(p)
    /\ eval' = Idle
    /\ UNCHANGED <<world, up, listed, writing, rows, entries, open, calm, missed>>

Evaluate ==
    \/ Begin
    \/ OpenIncident
    \/ JoinIncident
    \/ \E p \in Pods : PassPod(p) \/ HoldOpen(p)
    \/ CloseIncident

(***************************************************************************)
(* Time.  Entries that have left the window are not looked at again.  A    *)
(* unit of time is long enough for the statements of one evaluation.       *)
(***************************************************************************)
Older(age, cap) == IF age < cap THEN age + 1 ELSE cap

Pass ==
    /\ eval = Idle
    /\ rows' = [p \in Pods |-> IF rows[p] = NoRow THEN NoRow
                               ELSE [rows[p] EXCEPT !.age = Older(@, Stable)]]
    /\ entries' = {[e EXCEPT !.age = @ + 1] : e \in {d \in entries : d.age < Window}}
    /\ calm' = [p \in Pods |-> Older(calm[p], Stable)]
    /\ UNCHANGED <<world, up, listed, writing, open, eval, missed>>

Informer(p) == FinishWrite(p) \/ Add(p)

Next ==
    \/ \E p \in Pods :
        \/ \E state \in States : Change(p, state) \/ ChangeUnrecorded(p, state)
        \/ \E state \in States \cup {"gone"} : ChangeUnseen(p, state)
        \/ Informer(p)
        \/ Delete(p)
        \/ Resync(p)
        \/ UpsertFails(p)
        \/ AddFails(p)
        \/ ForgetFails(p)
    \/ GoDown
    \/ ComeUp
    \/ Evaluate
    \/ EvaluationFails
    \/ Pass

\* Time passes, the ticker fires, the informer delivers and resyncs, and a
\* collector that went down comes back.
Fairness ==
    /\ SF_vars(Pass)
    /\ WF_vars(Evaluate)
    /\ WF_vars(ComeUp)
    /\ \A p \in Pods : WF_vars(Informer(p)) /\ WF_vars(Resync(p))

Spec == Init /\ [][Next]_vars

FairSpec == Spec /\ Fairness

(***************************************************************************)
(* Properties.                                                             *)
(***************************************************************************)
\* The variables keep their types.
TypeOK ==
    /\ world \in [Pods -> PodState \cup {"gone"}]
    /\ up \in BOOLEAN
    /\ listed \subseteq Pods
    /\ writing \subseteq Pods
    /\ rows \in [Pods -> Row \cup {NoRow}]
    /\ entries \subseteq Entry
    /\ open \in Seq(SUBSET Pods)
    /\ eval \in Eval
    /\ calm \in [Pods -> 0..Stable]
    /\ missed \subseteq Pods

\* There is never more than one open incident: later crash loops join it.
AtMostOneOpen == Len(open) <= 1

\* An incident is closed only when each of its pods has been looked up, in the
\* same evaluation, and was gone from the store or recorded as Running, without
\* interruption, for the stable window.
ClosedWhenCalm ==
    [][Len(open') < Len(open) => Head(open) \subseteq eval.calm]_vars

\* "Close when every affected pod has been Running (or is gone) for the stable
\* window": no incident is closed over a pod in the cache that is in
\* CrashLoopBackOff while its row says Running, but for a pod whose handler has
\* still to write the row.
ClosedWhenRunning ==
    [][Len(open') < Len(open) =>
        \A p \in (Head(open) \cap listed) \ writing :
            rows[p] # NoRow /\ rows[p].state = "Running" => world[p] # "CrashLoop"]_vars

\* What the rows say of a pod in the cache is true, except of the one being
\* written and of those whose last write failed: a restart, a resync or an event
\* makes up for what was missed.
RowsTrue ==
    \A p \in listed \ (writing \cup missed) : rows[p] # NoRow /\ rows[p].state = world[p]

\* An incident ends once every pod runs for good, or is gone and known to be,
\* the collector stays up and evaluations get through: a write that failed and
\* a restart in the middle of a handler are made good by the resync.
Settled(p) == <>[](world[p] = "Running") \/ <>[](world[p] = "gone" /\ rows[p] = NoRow)

IncidentsEnd ==
    (<>[]up /\ <>[][~EvaluationFails]_vars /\ \A p \in Pods : Settled(p)) => <>[](open = <<>>)

\* "Every affected pod must be Running ... or be deleted.  Delete the pod or the
\* incident closes when it does": once every pod is deleted, no incident stays
\* open.
DeletedPodsLetGo ==
    (<>[]up /\ \A p \in Pods : <>[](world[p] = "gone")) => <>[](open = <<>>)
=============================================================================
