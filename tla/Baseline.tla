------------------------------ MODULE Baseline ------------------------------
(***************************************************************************)
(* Healthy baselines of one node: the evaluator's quiet checks             *)
(* (internal/incident/incident.go), MarkBaseline                           *)
(* (internal/store/snapshots.go) and the maintenance that deletes          *)
(* snapshots around them (internal/store/store.go), next to the handlers   *)
(* that add snapshots and changes meanwhile.                               *)
(*                                                                         *)
(* A snapshot is reduced to whether it shows the node in order: node.ready *)
(* is True for source api, no field is missing for source agent.           *)
(***************************************************************************)
EXTENDS Naturals, FiniteSets

CONSTANTS
    Stable,     \* BASELINE_STABLE_MIN, in units of time
    RetainSnapshots,  \* RETENTION_SNAPSHOTS, in units of time
    RetainChanges,    \* RETENTION_CHANGES, in units of time
    Keep,       \* baselinesKept
    MaxTime     \* bound: how long a behaviour is followed

ASSUME BaselineAssumption ==
    /\ Stable \in Nat \ {0} /\ Keep \in Nat \ {0}
    /\ RetainSnapshots \in Nat \ {0} /\ RetainChanges \in Nat \ {0}

VARIABLES
    now,
    table,      \* table snapshots, per source
    last,       \* table changes: the time of the latest alert and of the latest
                \* flap of node.ready on record, if any
    unsettled,  \* changes that handlers have yet to store, their snapshots being
                \* stored: pairs of kind and time
    trouble,    \* tables pods and pod_transitions: a pod is in CrashLoopBackOff, or
                \* went into it or restarted within the stable window
    check       \* where Evaluator.baseline is: see Check

vars == <<now, table, last, unsettled, trouble, check>>

Source == {"api", "agent"}

Kind == {"alert", "flap"}

\* A unit of time is short enough to hold one snapshot of each source.
Snapshot == [time : Nat, good : BOOLEAN, baseline : BOOLEAN]

\* idle: between two ticks, or checking.  read, flag, trim: the checks have passed
\* and this is the next statement, for this source.  History: when they passed,
\* until the turn of source agent, of which they ask nothing.
Check == [step : {"idle", "read", "flag", "trim"}, source : Source, at : Nat]

Idle == [step |-> "idle", source |-> "api", at |-> 0]

Init ==
    /\ now = 0
    /\ table = [s \in Source |-> {}]
    /\ last = [k \in Kind |-> {}]
    /\ unsettled = {}
    /\ trouble = FALSE
    /\ check = Idle

\* LatestSnapshot: ORDER BY ts DESC; none or one.
Latest(s) == {r \in table[s] : \A q \in table[s] : q.time <= r.time}

(***************************************************************************)
(* The recorders: the snapshot first, its changes in a later statement.    *)
(***************************************************************************)
Put(s, t, g) ==
    /\ \A r \in table[s] : r.time # t
    /\ table' = [table EXCEPT ![s] = @ \cup {[time |-> t, good |-> g, baseline |-> FALSE]}]

\* The change a handler has yet to store.
Brings(kind, t, happened) == unsettled' = unsettled \cup (IF happened THEN {<<kind, t>>} ELSE {})

\* Mutant: a node is recorded while the changes of its last snapshot are not.
RecordNodeOverlapping(g) ==
    /\ Put("api", now, g)
    /\ Brings("flap", now, \E r \in Latest("api") : r.good # g)
    /\ UNCHANGED <<now, last, trouble, check>>

\* RecordNode: some field of the node changed, node.ready perhaps.  The informer
\* calls it for one object after the other.
RecordNode(g) ==
    /\ \A c \in unsettled : c[1] # "flap"
    /\ Put("api", now, g)
    /\ Brings("flap", now, \E r \in Latest("api") : r.good # g)
    /\ UNCHANGED <<now, last, trouble, check>>

\* agentSnapshot: every sample is stored, under the time it was taken at; a
\* field that vanished is an alert.  The agent posts one after the other, oldest
\* first, and late after an outage.
AgentSnapshot(t, g) ==
    /\ \A c \in unsettled : c[1] # "alert"
    /\ \A r \in table["agent"] : r.time < t
    /\ Put("agent", t, g)
    /\ Brings("alert", t, \E r \in Latest("agent") : r.good /\ ~g)
    /\ UNCHANGED <<now, last, trouble, check>>

\* The later of the times on record and another one.
Newest(times, t) == {u \in times \cup {t} : \A v \in times \cup {t} : v <= u}

\* PutChanges: a change has the time of its snapshot.
PutChanges(c) ==
    /\ last' = [last EXCEPT ![c[1]] = Newest(@, c[2])]
    /\ unsettled' = unsettled \ {c}
    /\ UNCHANGED <<now, table, trouble, check>>

\* A pod restarts or enters CrashLoopBackOff; in time the window passes it by.
PodTrouble ==
    /\ trouble' = ~trouble
    /\ UNCHANGED <<now, table, last, unsettled, check>>

(***************************************************************************)
(* Evaluator.baseline: all checks, then for each source LatestSnapshot and *)
(* the two statements of MarkBaseline, the first of which flags whatever   *)
(* snapshot is the latest by then.                                         *)
(***************************************************************************)
Since(k) == \E t \in last[k] : t + Stable >= now

\* Mutant: node.ready is not looked at.
QuietUnready ==
    /\ ~trouble
    /\ \A k \in Kind : ~Since(k)
    /\ table["api"] # {}

Quiet ==
    /\ ~trouble
    /\ \A k \in Kind : ~Since(k)
    /\ \E r \in Latest("api") : r.good

\* An alert that no later good agent snapshot has answered.
OpenAlert == \E t \in last["alert"] : \A r \in table["agent"] : r.good => r.time < t

CheckQuiet ==
    /\ check = Idle
    /\ Quiet
    /\ check' = [Idle EXCEPT !.step = "read", !.at = now]
    /\ UNCHANGED <<now, table, last, unsettled, trouble>>

\* The evaluator goes on to the next source.
NextSource ==
    check' = IF check.source = "api" THEN [step |-> "read", source |-> "agent", at |-> 0]
             ELSE Idle

\* It passes over a source without a snapshot, or whose latest snapshot is a
\* baseline already.
ReadSource ==
    /\ check.step = "read"
    /\ IF \E r \in Latest(check.source) : ~r.baseline
       THEN check' = [check EXCEPT !.step = "flag"]
       ELSE NextSource
    /\ UNCHANGED <<now, table, last, unsettled, trouble>>

\* MarkBaseline, first statement: flag the latest row.
Flag ==
    /\ check.step = "flag"
    /\ table' = [table EXCEPT ![check.source] =
                    {[r EXCEPT !.baseline = @ \/ r \in Latest(check.source)] : r \in @}]
    /\ check' = [check EXCEPT !.step = "trim"]
    /\ UNCHANGED <<now, last, unsettled, trouble>>

Baselines(s) == {r.time : r \in {q \in table[s] : q.baseline}}

\* The newest Keep of them.
NewestBaselines(s) ==
    {t \in Baselines(s) : Cardinality({u \in Baselines(s) : u > t}) < Keep}

\* MarkBaseline, second statement: unflag all but these.
Trim ==
    /\ check.step = "trim"
    /\ table' = [table EXCEPT ![check.source] =
                    {[r EXCEPT !.baseline = @ /\ r.time \in NewestBaselines(check.source)] : r \in @}]
    /\ NextSource
    /\ UNCHANGED <<now, last, unsettled, trouble>>

(***************************************************************************)
(* Failures.                                                               *)
(***************************************************************************)
\* PutChanges fails, and the handler gives up.
ChangesFail(c) ==
    /\ unsettled' = unsettled \ {c}
    /\ UNCHANGED <<now, table, last, trouble, check>>

\* A statement of the evaluator fails, and the next tick starts anew.
EvaluationFails ==
    /\ check # Idle
    /\ check' = Idle
    /\ UNCHANGED <<now, table, last, unsettled, trouble>>

\* The collector stops between two statements of any of them.
Restart ==
    /\ check' = Idle
    /\ unsettled' = {}
    /\ UNCHANGED <<now, table, last, trouble>>

(***************************************************************************)
(* Maintenance.                                                            *)
(***************************************************************************)
\* Mutant: baselines are not exempt.
PruneAll ==
    /\ table' = [s \in Source |-> {r \in table[s] : r.time + RetainSnapshots >= now}]
    /\ last' = [k \in Kind |-> {t \in last[k] : t + RetainChanges >= now}]
    /\ UNCHANGED <<now, unsettled, trouble, check>>

\* Prune: snapshots past their retention, except baselines, and old changes.
Prune ==
    /\ table' = [s \in Source |->
                    {r \in table[s] : r.baseline \/ r.time + RetainSnapshots >= now}]
    /\ last' = [k \in Kind |-> {t \in last[k] : t + RetainChanges >= now}]
    /\ UNCHANGED <<now, unsettled, trouble, check>>

\* EnforceSizeCap: the oldest snapshots of any source that are not baselines.
DropOldest(t) ==
    /\ table' = [s \in Source |-> {r \in table[s] : r.baseline \/ r.time > t}]
    /\ UNCHANGED <<now, last, unsettled, trouble, check>>

Pass ==
    /\ now < MaxTime
    /\ now' = now + 1
    /\ UNCHANGED <<table, last, unsettled, trouble, check>>

Next ==
    \/ Pass
    \/ \E g \in BOOLEAN : RecordNode(g) \/ \E t \in 0..now : AgentSnapshot(t, g)
    \/ \E c \in unsettled : PutChanges(c) \/ ChangesFail(c)
    \/ PodTrouble
    \/ CheckQuiet
    \/ ReadSource
    \/ Flag
    \/ Trim
    \/ EvaluationFails
    \/ Restart
    \/ Prune
    \/ \E t \in 0..now : DropOldest(t)

Spec == Init /\ [][Next]_vars

(***************************************************************************)
(* Properties.                                                             *)
(***************************************************************************)
\* The variables keep their types, snapshots of one source have times of their
\* own, and each handler is between two statements of one snapshot at most.
TypeOK ==
    /\ now \in Nat
    /\ table \in [Source -> SUBSET Snapshot]
    /\ \A s \in Source : \A r, q \in table[s] : r.time <= now /\ (r.time = q.time => r = q)
    /\ last \in [Kind -> SUBSET (0..now)]
    /\ unsettled \subseteq {"alert", "flap"} \X (0..now)
    /\ \A c, d \in unsettled : c[1] = d[1] => c = d
    /\ trouble \in BOOLEAN
    /\ check \in Check

\* "The newest four baselines per node and source are kept and never pruned":
\* whatever the pruning, the size cap, a marking, a late sample or a restart in
\* the middle of one does, a baseline disappears only while Keep newer ones stay.
NewestKept ==
    [][\A s \in Source : \A b \in Baselines(s) \ Baselines(s)' :
        Cardinality({t \in Baselines(s)' : t > b}) >= Keep]_vars

\* What deletes rows between the checks and the marking never brings up an
\* older snapshot as the latest one: an api snapshot that is marked either
\* shows the node ready or came after the checks.
ReadyWhenMarked ==
    [][\A r \in table["api"] :
        ~r.baseline /\ [r EXCEPT !.baseline = TRUE] \in table'["api"] /\ r.time < check.at
        => r.good]_vars

\* "Marks the latest snapshot per node as a healthy reference [...]: every node
\* Ready": an api snapshot that is marked shows the node ready, whenever it came.
HealthyReference ==
    [][\A r \in table["api"] :
        ~r.baseline /\ [r EXCEPT !.baseline = TRUE] \in table'["api"] => r.good]_vars

\* "A snapshot taken while something is missing is not a healthy reference":
\* while an alert is on record that nothing has answered, the checks do not pass.
NoBaselineInOutage == [][check = Idle /\ check' # Idle => ~OpenAlert]_vars
=============================================================================
