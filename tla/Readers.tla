------------------------------ MODULE Readers ------------------------------
(***************************************************************************)
(* What recorderctl tells about a node: the difference between the latest  *)
(* snapshot and the healthy baseline (internal/api/server.go: diff), asked *)
(* for by `recorderctl status` and `recorderctl diff`, while the collector *)
(* goes on storing samples and marking baselines.  The handler reads the   *)
(* two snapshots in two statements.                                        *)
(***************************************************************************)
EXTENDS FieldStream

VARIABLES
    base,       \* the newest baseline, NoMap before the first
    touched,    \* history: fields with a change record, or inapplicable, since then
    request     \* where recorderctl's request is, and what it has read

readVars == <<base, touched, request>>
allVars == <<cur, open, silent, base, touched, request>>

NoMap == [k \in {} |-> Unknown]

\* idle: nothing asked.  listed: /nodes has said that there is a baseline.
\* read: /diff has read the latest snapshot, not yet the baseline.  The rest is
\* history: the fields touched between the two snapshots of the answer, those
\* touched since the first was read, and which of the two is the newer one.
Request == [at : {"idle", "listed", "read"}, latest : FieldMap,
            between : SUBSET Keys, since : SUBSET Keys, newer : {"latest", "base"}]

Idle == [at |-> "idle", latest |-> NoMap, between |-> {}, since |-> {}, newer |-> "latest"]

ReadInit ==
    /\ Init
    /\ base = NoMap
    /\ touched = {}
    /\ request = Idle

\* The next sample: a change record may follow, or a field may not apply.
Store ==
    /\ Sampled
    /\ \E hit \in {Recorded(Diff(cur, cur'), Severity) \cup ReadAs("not_applicable")} :
        /\ touched' = touched \cup (IF base = NoMap THEN {} ELSE hit)
        /\ request' = IF request.at = "read" THEN [request EXCEPT !.since = @ \cup hit]
                      ELSE request
    /\ UNCHANGED base

\* The evaluator marks the latest snapshot.
Mark ==
    /\ base # cur
    /\ base' = cur
    /\ touched' = {}
    /\ request' = IF request.at = "read"
                  THEN [request EXCEPT !.between = request.since, !.newer = "base"]
                  ELSE request
    /\ UNCHANGED vars

\* Mutant: status asks for the difference of every node.
ListAllNodes ==
    /\ request.at = "idle"
    /\ request' = [Idle EXCEPT !.at = "listed"]
    /\ UNCHANGED <<vars, base, touched>>

\* `recorderctl status` asks for the difference of nodes with a baseline.
ListNodes ==
    /\ request.at = "idle" /\ base # NoMap
    /\ request' = [Idle EXCEPT !.at = "listed"]
    /\ UNCHANGED <<vars, base, touched>>

\* The handler's first statement; `recorderctl diff <node>` comes here directly.
ReadLatest ==
    /\ request.at \in {"idle", "listed"}
    /\ request' = [at |-> "read", latest |-> cur, between |-> touched, since |-> {},
                   newer |-> "latest"]
    /\ UNCHANGED <<vars, base, touched>>

\* Its second statement, and the answer; or an error, which status passes over.
Respond ==
    /\ request.at \in {"listed", "read"}
    /\ request' = Idle
    /\ UNCHANGED <<vars, base, touched>>

ReadNext == Store \/ Mark \/ ListNodes \/ ReadLatest \/ Respond

ReadSpec == ReadInit /\ [][ReadNext]_allVars

(***************************************************************************)
(* The answer.                                                             *)
(***************************************************************************)
\* fieldDiff.Changed: without a baseline nothing is; a field that one of the
\* snapshots lacks is.
Differs(b, c, k) ==
    /\ b # NoMap
    /\ k \in DOMAIN b \cap DOMAIN c => ~SameField(b[k], c[k])

\* The fields recorderctl names, from the keys of both snapshots; when there
\* are none it prints "matches baseline", or "none" in the table of nodes.
Named(b, c) == {k \in DOMAIN b \cup DOMAIN c : Differs(b, c, k)}

(***************************************************************************)
(* Properties.                                                             *)
(***************************************************************************)
\* The variables keep their types; a node that status asks about has a baseline
\* by the time its difference is computed.
ReadTypeOK ==
    /\ TypeOK
    /\ base \in FieldMap
    /\ touched \subseteq Keys
    /\ request \in Request
    /\ request.at = "listed" => base # NoMap

\* "recorderctl timeline: find the minute it vanished": a field that recorderctl
\* names has a change record from between the two snapshots, unless there was
\* no reading to depart from, or the field did not apply for a time.  This also
\* holds when a snapshot is stored and marked between the handler's two reads,
\* and the baseline is the later of the two.
DiffExplained ==
    request.at = "read" =>
        \A k \in Named(base, request.latest) :
            Reading(IF request.newer = "base" THEN request.latest ELSE base, k).state
                \in {"present", "absent"}
            => k \in request.between
=============================================================================
