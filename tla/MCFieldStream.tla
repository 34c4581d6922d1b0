--------------------------- MODULE MCFieldStream ---------------------------
(* Two keys, two values: every pair of field maps over them follows every   *)
(* other.  The queries are compared with what they are for, over all small  *)
(* tables.                                                                  *)
EXTENDS Readers, Timeline, TLC

CONSTANTS k1, k2, v1, v2

MCKeys == {k1, k2}
MCValues == {v1, v2}
MCSymmetry == Permutations(MCKeys) \cup Permutations(MCValues)

Times == 1..3

Row == [time : Times, node : {"n1", "n2"}]

UpTo(n, S) == UNION {[1..m -> S] : m \in 0..n}

Ranges == {r \in [from : Times, to : Times] : r.from <= r.to}

Of(kind, entries) ==
    LET those == SelectSeq(entries, LAMBDA e : e.kind = kind)
    IN  [i \in DOMAIN those |-> those[i].data]

(* A timeline is in the order of time and holds every change and transition *)
(* of the node in the range; of its events it holds the oldest ones.        *)
ASSUME MCTimeline ==
    \A c, e \in UpTo(2, Row), t \in UpTo(1, Row), r \in Ranges :
        LET line == NodeTimeline(c, e, t, "n1", r)
            Wanted(table) == {i \in DOMAIN table : table[i].node = "n1" /\ Within(r, table[i].time)}
            Holds(kind, table) == Of(kind, line)
                = [i \in 1..Cardinality(Wanted(table)) |->
                    CHOOSE x \in Row : \E j \in Wanted(table) :
                        /\ table[j] = x
                        /\ Cardinality({h \in Wanted(table) :
                               table[h].time < x.time \/ (table[h].time = x.time /\ h <= j)}) = i]
        IN  /\ \A i, j \in DOMAIN line : i < j => line[i].time <= line[j].time
            /\ Holds("change", c) /\ Holds("pod_transition", t)
            /\ Len(Of("event", line)) <= Limit
            /\ \A j \in Wanted(e) : \/ Contains(Of("event", line), e[j])
                                    \/ /\ Len(Of("event", line)) = Limit
                                       /\ \A i \in 1..Limit : Of("event", line)[i].time <= e[j].time

(* An incident is listed when some moment of it lies in the range.  Without *)
(* a beginning the range is a month, but an end more than an hour ago is    *)
(* refused.                                                                 *)
ASSUME MCIncidents ==
    /\ \A o \in Times, c \in Times \cup {Unset}, r \in Ranges, only \in BOOLEAN :
        LET i == [opened |-> o, closed |-> c]
            ends == IF c = Unset THEN r.to ELSE c
        IN  ends >= o \/ c = Unset =>
                (i \in Incidents({i}, r, only)
                    <=> /\ \E m \in Times : Within(r, m) /\ o <= m /\ m <= ends
                        /\ only => c = Unset)
    /\ \A now, to \in -3 .. 3 :
        IncidentRange(Unset, to, now)
            = IF to < now - Hour THEN {} ELSE {[from |-> to - Month, to |-> to]}
=============================================================================
