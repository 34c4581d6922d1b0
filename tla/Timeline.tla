------------------------------ MODULE Timeline ------------------------------
(***************************************************************************)
(* The queries behind the read handlers (internal/api: timeRange,          *)
(* timeline, incidents; internal/store: Changes, Events, PodTransitions,   *)
(* Timeline, Incidents): pure operators on the tables.                     *)
(*                                                                         *)
(* A table is the sequence of its rows in the order of their ids.  Of a    *)
(* row the model keeps its time and its node; the filter on an event's     *)
(* namespace is of the same form as the one on its node.                   *)
(***************************************************************************)
EXTENDS Integers, Sequences, SequencesExt

CONSTANTS
    Limit,      \* events in an answer that asks for no number of them: 1000
    Hour,       \* default range of most answers
    Month,      \* default range of incidents: 30 days
    Lookback,   \* incidentLookback: 6 hours
    Unset,      \* a parameter that is not in the request, or an incident's end
    Malformed   \* a time that parseTime refuses

ASSUME TimelineAssumption ==
    /\ Limit \in Nat \ {0} /\ {Hour, Month, Lookback} \subseteq Nat /\ Hour <= Month
    /\ {Unset, Malformed} \cap Int = {} /\ Unset # Malformed

AnyNode == ""

(***************************************************************************)
(* The range a request asks for: one, or none when it is refused (400).    *)
(***************************************************************************)
TimeRange(from, to, now) ==
    IF Malformed \in {from, to} THEN {}
    ELSE {r \in {[from |-> IF from = Unset THEN now - Hour ELSE from,
                  to   |-> IF to = Unset THEN now ELSE to]} : r.from <= r.to}

\* The default of an hour is replaced after the range has been looked at.
IncidentRange(from, to, now) ==
    {IF from = Unset THEN [r EXCEPT !.from = r.to - Month] ELSE r : r \in TimeRange(from, to, now)}

(***************************************************************************)
(* The tables.                                                             *)
(***************************************************************************)
Within(r, t) == r.from <= t /\ t <= r.to

\* ORDER BY ts, id; and sort.SliceStable by time.
OrderByTime(s) ==
    LET Before(i, j) == s[i].time < s[j].time \/ (s[i].time = s[j].time /\ i < j)
        order == SetToSortSeq(DOMAIN s, Before)
    IN  [i \in DOMAIN s |-> s[order[i]]]

\* Changes and PodTransitions.
Rows(table, node, r) ==
    OrderByTime(SelectSeq(table, LAMBDA x : Within(r, x.time) /\ node \in {AnyNode, x.node}))

\* Events: the oldest of them, as many as asked for.
Events(table, node, r, asked) ==
    LET rows == Rows(table, node, r)
        most == IF asked <= 0 THEN Limit ELSE asked
    IN  SubSeq(rows, 1, IF most < Len(rows) THEN most ELSE Len(rows))

\* DB.Timeline: the three kinds of one node, merged.
NodeTimeline(changes, events, transitions, node, r) ==
    LET Entries(kind, rows) == [i \in DOMAIN rows |-> [time |-> rows[i].time, kind |-> kind,
                                                      data |-> rows[i]]]
    IN  OrderByTime(Entries("change", Rows(changes, node, r))
                    \o Entries("event", Events(events, node, r, 0))
                    \o Entries("pod_transition", Rows(transitions, node, r)))

(***************************************************************************)
(* Incidents.                                                              *)
(***************************************************************************)
\* Those that overlap the range; only those that are still open, if asked for.
Incidents(table, r, openOnly) ==
    {i \in table : /\ i.closed = Unset \/ r.from <= i.closed
                   /\ i.opened <= r.to
                   /\ openOnly => i.closed = Unset}

\* The changes attached to one: until it closes, or opened if it has not.
Attached(i, changes) ==
    Rows(changes, AnyNode, [from |-> i.opened - Lookback,
                            to   |-> IF i.closed = Unset THEN i.opened ELSE i.closed])
=============================================================================
