---------------------------- MODULE FieldStream ----------------------------
(***************************************************************************)
(* A stream of field maps, each diffed against the one before it, as the   *)
(* collector does for every source of every node.  What the reader of the  *)
(* change records can rely on over the whole stream, with unknown and      *)
(* not_applicable readings and missing keys anywhere in it.                *)
(***************************************************************************)
EXTENDS Fields

VARIABLES
    cur,        \* the latest field map
    open,       \* history: keys with an alert that nothing has ended
    silent      \* history: keys read present, of which nothing alarming has
                \* been recorded since and that stayed applicable

vars == <<cur, open, silent>>

Init ==
    /\ cur \in {m \in FieldMap : ValidFields(m)}
    /\ open = {}
    /\ silent = {k \in DOMAIN cur : cur[k].state = "present"}

\* The fields that some of the changes with one of these severities are about.
Recorded(changes, severities) == {c.field : c \in {d \in changes : d.severity \in severities}}

ReadAs(state) == {k \in Keys : Reading(cur', k).state = state}

Sampled ==
    /\ cur' \in FieldMap
    /\ ValidFields(cur')
    /\ \E changes \in {Diff(cur, cur')} :
        /\ open' = (open \ (Recorded(changes, {"recovery", "degraded"}) \cup ReadAs("not_applicable")))
                   \cup Recorded(changes, {"alert"})
        /\ silent' = (silent \cup ReadAs("present"))
                   \ (Recorded(changes, {"alert", "degraded"}) \cup ReadAs("not_applicable"))

Spec == Init /\ [][Sampled]_vars

(***************************************************************************)
(* Properties.                                                             *)
(***************************************************************************)
\* The variables keep their types.
TypeOK ==
    /\ cur \in FieldMap
    /\ open \subseteq Keys
    /\ silent \subseteq Keys

\* The change log alone tells which fields are missing: an alert that no
\* recovery, degraded record or inapplicability has ended belongs to a field
\* that is absent right now, and so alerts on a field never repeat.
OpenAlertIsAbsent ==
    \A k \in open : Reading(cur, k).state = "absent"

\* Nothing vanishes silently: a field that was present and is now absent has
\* left an alert, or the degraded record of a failed reading in between; unless
\* it was not applicable at some time between the two, since a field that comes
\* to apply again begins anew.
NothingVanishesSilently ==
    \A k \in silent : Reading(cur, k).state # "absent"
=============================================================================
