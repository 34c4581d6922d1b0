------------------------------- MODULE Fields -------------------------------
(***************************************************************************)
(* The unit of sampling and of diffing: a field in one of four explicit    *)
(* states (internal/sample/field.go) and the transition table that turns   *)
(* two readings of it into a change record (internal/diff/diff.go).        *)
(*                                                                         *)
(* Everything here is a pure operator.  A field map is a function from the *)
(* keys that were sampled to fields; values are opaque, because the code   *)
(* only ever compares their JSON encodings.                                *)
(***************************************************************************)
EXTENDS Naturals, FiniteSets

CONSTANTS
    Keys,       \* names a field may have
    Values,     \* JSON values a present field may carry
    Nil         \* the absence of a value (Go's nil, JSON's null)

ASSUME NilAssumption == Nil \notin Values

\* FieldState: "exactly four states" a valid field may be in.
FieldState == {"present", "absent", "not_applicable", "unknown"}

\* A field as it comes off the wire, before Validate has seen it: the state
\* may be any string and the value may contradict it.
RawField == [state : FieldState \cup {"other"}, value : Values \cup {Nil}]

Present(v)    == [state |-> "present", value |-> v]
Absent        == [state |-> "absent", value |-> Nil]
NotApplicable == [state |-> "not_applicable", value |-> Nil]
Unknown       == [state |-> "unknown", value |-> Nil]

\* The fields the constructors build.
Field == {Present(v) : v \in Values} \cup {Absent, NotApplicable, Unknown}

\* Field maps: any subset of the keys may have been sampled.
FieldMap == UNION {[K -> Field] : K \in SUBSET Keys}

\* Field.Validate: a present field has a value, no other field carries one.
ValidField(f) ==
    /\ f.state \in FieldState
    /\ f.state = "present" <=> f.value # Nil

\* Snapshot.Validate, the part that is about fields.
ValidFields(m) ==
    /\ DOMAIN m # {}
    /\ \A k \in DOMAIN m : ValidField(m[k])

\* Field.Equal: same state and, for present fields, same value.
SameField(f, g) ==
    /\ f.state = g.state
    /\ f.state = "present" => f.value = g.value

\* FieldsEqual: identical key by key.
FieldsEqual(a, b) ==
    /\ DOMAIN a = DOMAIN b
    /\ \A k \in DOMAIN a : SameField(a[k], b[k])

(***************************************************************************)
(* diff.Classify.  "none" stands for ok = FALSE.                           *)
(***************************************************************************)
Severity == {"alert", "recovery", "info", "degraded"}

Comparable(old, new) ==
    /\ "not_applicable" \notin {old.state, new.state}
    /\ old.state # "unknown"

\* Mutant: a field that comes back is only another value.
ClassifyRecoveryAsInfo(old, new) ==
    CASE ~Comparable(old, new)                          -> "none"
      [] Comparable(old, new) /\ new.state = "unknown"  -> "degraded"
      [] old.state = "present" /\ new.state = "absent"  -> "alert"
      [] new.state = "present" -> IF SameField(old, new) THEN "none" ELSE "info"
      [] old.state = "absent" /\ new.state = "absent"   -> "none"

\* Mutant: a reading that fails is not worth a record.
ClassifyUnknownIsQuiet(old, new) ==
    CASE ~Comparable(old, new) \/ new.state = "unknown" -> "none"
      [] old.state = "present" /\ new.state = "absent"  -> "alert"
      [] old.state = "absent" /\ new.state = "present"  -> "recovery"
      [] old.state = "present" /\ new.state = "present"
            -> IF SameField(old, new) THEN "none" ELSE "info"
      [] old.state = "absent" /\ new.state = "absent"   -> "none"

Classify(old, new) ==
    CASE ~Comparable(old, new)                                -> "none"
      [] Comparable(old, new) /\ new.state = "unknown"        -> "degraded"
      [] old.state = "present" /\ new.state = "absent"        -> "alert"
      [] old.state = "absent" /\ new.state = "present"        -> "recovery"
      [] old.state = "present" /\ new.state = "present"
            -> IF SameField(old, new) THEN "none" ELSE "info"
      [] old.state = "absent" /\ new.state = "absent"         -> "none"

\* A key missing from one side was not sampled there: it reads as unknown.
Reading(m, k) == IF k \in DOMAIN m THEN m[k] ELSE Unknown

\* diff.Snapshots on two field maps: what one key contributes, and the whole.
DiffKey(prev, cur, k) ==
    [field |-> k, old |-> Reading(prev, k), new |-> Reading(cur, k),
     severity |-> Classify(Reading(prev, k), Reading(cur, k))]

\* Mutant: Classify's ok is ignored.
DiffUnfiltered(prev, cur) ==
    {DiffKey(prev, cur, k) : k \in DOMAIN prev \cup DOMAIN cur}

Diff(prev, cur) ==
    {DiffKey(prev, cur, k) : k \in
        {j \in DOMAIN prev \cup DOMAIN cur :
            Classify(Reading(prev, j), Reading(cur, j)) # "none"}}
=============================================================================
