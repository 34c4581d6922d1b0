---------------------------- MODULE FieldsProofs ----------------------------
(***************************************************************************)
(* Facts about the field operators, for every set of keys and values.      *)
(***************************************************************************)
EXTENDS Fields, TLAPS

\* Validate accepts exactly the fields the constructors can build.
THEOREM ValidIsField ==
    ASSUME NEW f \in RawField
    PROVE  ValidField(f) <=> f \in Field
  <1>. USE NilAssumption DEF RawField, FieldState, Field, Present, Absent, NotApplicable, Unknown
  <1>1. ASSUME ValidField(f) PROVE f \in Field
    <2>1. f.state \in FieldState /\ (f.state = "present" <=> f.value # Nil)
      BY <1>1 DEF ValidField
    <2>2. f = [state |-> f.state, value |-> f.value]
      OBVIOUS
    <2>3. CASE f.state = "present"
      BY <2>1, <2>2, <2>3
    <2>4. CASE f.state # "present"
      BY <2>1, <2>2, <2>4
    <2>. QED  BY <2>3, <2>4
  <1>2. ASSUME f \in Field PROVE ValidField(f)
    BY <1>2 DEF ValidField
  <1>. QED  BY <1>1, <1>2

\* The states of a field, and that its reading under any key is a field.
LEMMA FieldShape ==
    ASSUME NEW f \in Field
    PROVE  f.state \in FieldState
  BY DEF Field, FieldState, Present, Absent, NotApplicable, Unknown

LEMMA ReadingType ==
    ASSUME NEW m \in FieldMap, NEW k
    PROVE  Reading(m, k) \in Field
  <1>1. PICK K \in SUBSET Keys : m \in [K -> Field]
    BY DEF FieldMap
  <1>2. Unknown \in Field
    BY DEF Field
  <1>. QED  BY <1>1, <1>2 DEF Reading

\* Classify always answers, with a severity or "none".
LEMMA ClassifyType ==
    ASSUME NEW f \in Field, NEW g \in Field
    PROVE  Classify(f, g) \in Severity \cup {"none"}
  <1>1. f.state \in FieldState /\ g.state \in FieldState
    BY FieldShape
  <1>. QED  BY <1>1 DEF Classify, Comparable, Severity, FieldState

\* A field against an equal one emits nothing.
LEMMA ClassifySame ==
    ASSUME NEW f \in Field, NEW g \in Field, SameField(f, g)
    PROVE  Classify(f, g) = "none"
  <1>1. f.state \in FieldState /\ g.state \in FieldState /\ f.state = g.state
    BY FieldShape DEF SameField
  <1>. QED  BY <1>1 DEF Classify, Comparable, FieldState

\* Skipping a snapshot whose fields are unchanged loses no change.
THEOREM EqualMapsAreQuiet ==
    ASSUME NEW a \in FieldMap, NEW b \in FieldMap, FieldsEqual(a, b)
    PROVE  Diff(a, b) = {}
  <1>1. ASSUME NEW k \in DOMAIN a \cup DOMAIN b
        PROVE  Classify(Reading(a, k), Reading(b, k)) = "none"
    <2>1. SameField(Reading(a, k), Reading(b, k))
      BY <1>1 DEF FieldsEqual, Reading
    <2>. QED  BY <2>1, ReadingType, ClassifySame
  <1>. QED  BY <1>1 DEF Diff

\* A snapshot diffed against itself brings no change.
LEMMA SelfDiff ==
    ASSUME NEW m \in FieldMap
    PROVE  Diff(m, m) = {}
  BY EqualMapsAreQuiet DEF FieldsEqual, SameField

\* What Diff emits about field maps is well-formed.
LEMMA DiffType ==
    ASSUME NEW a \in FieldMap, NEW b \in FieldMap, NEW c \in Diff(a, b)
    PROVE  /\ c.field \in Keys
           /\ c.old \in Field
           /\ c.new \in Field
           /\ c.severity \in Severity
  <1>1. PICK k \in DOMAIN a \cup DOMAIN b :
            c = DiffKey(a, b, k) /\ Classify(Reading(a, k), Reading(b, k)) # "none"
    BY DEF Diff
  <1>2. DOMAIN a \subseteq Keys /\ DOMAIN b \subseteq Keys
    BY DEF FieldMap
  <1>3. Classify(Reading(a, k), Reading(b, k)) \in Severity
    BY <1>1, ReadingType, ClassifyType
  <1>. QED  BY <1>1, <1>2, <1>3, ReadingType DEF DiffKey
=============================================================================
