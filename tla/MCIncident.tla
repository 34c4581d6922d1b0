----------------------------- MODULE MCIncident -----------------------------
(* Two pods, in two namespaces.                                             *)
EXTENDS Incident, Config

CONSTANTS p1, p2, a, b

TwoPods == {p1, p2}

MCNamespaceOf == [p \in TwoPods |-> IF p = p1 THEN a ELSE b]

OneSet(k, v) == [j \in Numbers \cup Names |-> IF j = k THEN v ELSE Unset]

(* A number is accepted from its least value on, and minutes that do not    *)
(* wrap around mean what they say.                                          *)
ASSUME MCConfig ==
    /\ Accepted(OneSet("LOG_LEVEL", Unset))
    /\ \A k \in Numbers : Problems(OneSet(k, Malformed)) = {k}
    /\ \A n \in -Half .. (Half - 1) :
        /\ \A k \in Counts \cup Retention : Accepted(OneSet(k, n)) <=> n >= Least(k)
        /\ n * Minute \in -Half .. (Half - 1) =>
            \A k \in InMinutes : /\ Accepted(OneSet(k, n)) <=> n > 0
                                 /\ Setting(OneSet(k, n), k) = n * Minute
=============================================================================
