---------------------------- MODULE StreamProofs ----------------------------
(***************************************************************************)
(* What a reader of the change records can rely on (FieldStream), and what *)
(* recorderctl's answers mean beside them (Readers), for every set of keys *)
(* and values.                                                             *)
(*                                                                         *)
(* The two properties of the stream become inductive when "silent" is      *)
(* known to hold fields that are present.  That of the answers rests on    *)
(* one relation between two maps of the stream and the fields that were    *)
(* touched between them (Follows): it survives every sample, and the       *)
(* invariant names the four pairs of maps it holds of.                     *)
(***************************************************************************)
EXTENDS Readers, FieldsProofs

(***************************************************************************)
(* One sample.                                                             *)
(***************************************************************************)
\* The reading of a key that was not sampled is unknown.
LEMMA SampledKey ==
    ASSUME NEW m \in FieldMap, NEW k, Reading(m, k).state # "unknown"
    PROVE  k \in DOMAIN m /\ k \in Keys
  <1>1. k \in DOMAIN m
    BY DEF Reading, Unknown
  <1>. QED  BY <1>1 DEF FieldMap

\* A field that had a reading is recorded exactly with what Classify says.
LEMMA RecordedExactly ==
    ASSUME cur \in FieldMap, Sampled, NEW k, Reading(cur, k).state # "unknown",
           NEW severities, "none" \notin severities
    PROVE  k \in Recorded(Diff(cur, cur'), severities)
            <=> Classify(Reading(cur, k), Reading(cur', k)) \in severities
  <1>1. k \in DOMAIN cur
    BY SampledKey
  <1>3. ASSUME Classify(Reading(cur, k), Reading(cur', k)) \in severities
        PROVE  k \in Recorded(Diff(cur, cur'), severities)
    <2>1. DiffKey(cur, cur', k) \in Diff(cur, cur')
      BY <1>1, <1>3 DEF Diff
    <2>. QED  BY <1>3, <2>1 DEF Recorded, DiffKey
  <1>4. ASSUME k \in Recorded(Diff(cur, cur'), severities)
        PROVE  Classify(Reading(cur, k), Reading(cur', k)) \in severities
    BY <1>4 DEF Recorded, Diff, DiffKey
  <1>. QED  BY <1>3, <1>4

\* Only keys are recorded, and an alert is about a field that is now absent.
LEMMA RecordedKeys ==
    ASSUME cur \in FieldMap, Sampled, NEW severities
    PROVE  Recorded(Diff(cur, cur'), severities) \subseteq Keys
  <1>1. cur' \in FieldMap
    BY DEF Sampled
  <1>. QED  BY <1>1, DiffType DEF Recorded

LEMMA AlertIsAbsent ==
    ASSUME cur \in FieldMap, Sampled, NEW k \in Recorded(Diff(cur, cur'), {"alert"})
    PROVE  Reading(cur', k).state = "absent"
  <1>1. cur' \in FieldMap
    BY DEF Sampled
  <1>2. Classify(Reading(cur, k), Reading(cur', k)) = "alert"
    BY <1>1 DEF Recorded, Diff, DiffKey
  <1>3. Reading(cur, k).state \in FieldState /\ Reading(cur', k).state \in FieldState
    BY <1>1, ReadingType, FieldShape
  <1>. QED  BY <1>2, <1>3 DEF Classify, Comparable, FieldState

(***************************************************************************)
(* The stream.                                                             *)
(***************************************************************************)
SilentIsPresent == \A k \in silent : Reading(cur, k).state = "present"

StreamInv == TypeOK /\ OpenAlertIsAbsent /\ SilentIsPresent

LEMMA StreamInit == ASSUME Init PROVE StreamInv
  <1>1. cur \in FieldMap
    BY DEF Init
  <1>2. DOMAIN cur \subseteq Keys
    BY <1>1 DEF FieldMap
  <1>. QED  BY <1>1, <1>2 DEF Init, StreamInv, TypeOK, OpenAlertIsAbsent, SilentIsPresent, Reading

LEMMA StreamStep == ASSUME StreamInv, Sampled PROVE StreamInv'
  <1>1. cur \in FieldMap /\ cur' \in FieldMap
    BY DEF StreamInv, TypeOK, Sampled
  <1>2. TypeOK'
    <2>3. open' \subseteq Keys
      BY <1>1, RecordedKeys DEF StreamInv, TypeOK, Sampled
    <2>4. silent' \subseteq Keys
      BY DEF StreamInv, TypeOK, Sampled, ReadAs
    <2>. QED  BY <1>1, <2>3, <2>4 DEF TypeOK
  <1>3. ASSUME NEW k \in open'  PROVE Reading(cur', k).state = "absent"
    <2>1. CASE k \in Recorded(Diff(cur, cur'), {"alert"})
      BY <1>1, <2>1, AlertIsAbsent
    <2>2. CASE k \notin Recorded(Diff(cur, cur'), {"alert"})
      <3>1. k \in open /\ k \notin Recorded(Diff(cur, cur'), {"recovery", "degraded"})
            /\ k \notin ReadAs("not_applicable") /\ k \in Keys
        BY <1>3, <2>2 DEF StreamInv, TypeOK, Sampled
      <3>2. Reading(cur, k).state = "absent"
        BY <3>1 DEF StreamInv, OpenAlertIsAbsent
      <3>3. Classify(Reading(cur, k), Reading(cur', k)) \notin {"recovery", "degraded"}
        BY <1>1, <3>1, <3>2, RecordedExactly
      <3>4. Reading(cur', k).state # "not_applicable"
        BY <3>1 DEF ReadAs
      <3>5. Reading(cur', k).state \in FieldState
        BY <1>1, ReadingType, FieldShape
      <3>. QED  BY <3>2, <3>3, <3>4, <3>5 DEF Classify, Comparable, FieldState
    <2>. QED  BY <2>1, <2>2
  <1>4. ASSUME NEW k \in silent'  PROVE Reading(cur', k).state = "present"
    <2>1. CASE k \in ReadAs("present")
      BY <2>1 DEF ReadAs
    <2>2. CASE k \notin ReadAs("present")
      <3>1. k \in silent /\ k \notin Recorded(Diff(cur, cur'), {"alert", "degraded"})
            /\ k \notin ReadAs("not_applicable") /\ k \in Keys
        BY <1>4, <2>2 DEF StreamInv, TypeOK, Sampled
      <3>2. Reading(cur, k).state = "present"
        BY <3>1 DEF StreamInv, SilentIsPresent
      <3>3. Classify(Reading(cur, k), Reading(cur', k)) \notin {"alert", "degraded"}
        BY <1>1, <3>1, <3>2, RecordedExactly
      <3>4. Reading(cur', k).state # "not_applicable"
        BY <3>1 DEF ReadAs
      <3>5. Reading(cur', k).state \in FieldState
        BY <1>1, ReadingType, FieldShape
      <3>. QED  BY <3>2, <3>3, <3>4, <3>5 DEF Classify, Comparable, FieldState
    <2>. QED  BY <2>1, <2>2
  <1>. QED  BY <1>2, <1>3, <1>4 DEF StreamInv, OpenAlertIsAbsent, SilentIsPresent

(***************************************************************************)
(* The answers.                                                            *)
(***************************************************************************)
\* Of two maps of the stream, the fields not touched in between are the same
\* where the earlier one has a reading.
Follows(b, c, changed) ==
    \A k \in Keys \ changed :
        Reading(b, k).state \in {"present", "absent"} => SameField(Reading(b, k), Reading(c, k))

\* The fields that a sample touches, as Store counts them.
Hit == Recorded(Diff(cur, cur'), Severity) \cup ReadAs("not_applicable")

ReadInv ==
    /\ StreamInv
    /\ base \in FieldMap /\ touched \subseteq Keys /\ request \in Request
    /\ cur # NoMap
    /\ request.at = "listed" => base # NoMap
    /\ base # NoMap => Follows(base, cur, touched)
    /\ request.at = "read" =>
        /\ Follows(request.latest, cur, request.since)
        /\ request.newer = "base" => Follows(request.latest, base, request.between)
        /\ request.newer = "latest" /\ base # NoMap => Follows(base, request.latest, request.between)

LEMMA FollowsItself ==
    ASSUME NEW m, NEW changed
    PROVE  Follows(m, m, changed)
  BY DEF Follows, SameField

\* A sample moves the later of the two maps on, and adds what it touched.
LEMMA FollowsOn ==
    ASSUME StreamInv, Sampled, NEW b \in FieldMap, NEW changed, Follows(b, cur, changed)
    PROVE  Follows(b, cur', changed \cup Hit)
  <1>1. cur \in FieldMap /\ cur' \in FieldMap
    BY DEF StreamInv, TypeOK, Sampled
  <1>. SUFFICES ASSUME NEW k \in Keys \ (changed \cup Hit),
                       Reading(b, k).state \in {"present", "absent"}
                PROVE  SameField(Reading(b, k), Reading(cur', k))
    BY DEF Follows
  <1>2. SameField(Reading(b, k), Reading(cur, k))
    BY DEF Follows
  <1>3. Reading(cur, k).state \in {"present", "absent"}
    BY <1>2 DEF SameField
  <1>4. Classify(Reading(cur, k), Reading(cur', k)) \notin Severity
    BY <1>1, <1>3, RecordedExactly DEF Hit, Severity
  <1>5. Reading(cur', k).state # "not_applicable"
    BY DEF Hit, ReadAs
  <1>6. Reading(cur', k).state \in FieldState
    BY <1>1, ReadingType, FieldShape
  <1>7. SameField(Reading(cur, k), Reading(cur', k))
    BY <1>3, <1>4, <1>5, <1>6 DEF Classify, Comparable, FieldState, Severity, SameField
  <1>. QED  BY <1>2, <1>7 DEF SameField

\* A snapshot that passes Validate has a field.
LEMMA ValidIsSome == ASSUME NEW m, ValidFields(m) PROVE m # NoMap
  <1>1. DOMAIN NoMap = {}
    BY DEF NoMap
  <1>. QED  BY <1>1 DEF ValidFields

LEMMA NoMapType == NoMap \in FieldMap
  <1>1. NoMap \in [{} -> Field]
    BY DEF NoMap
  <1>. QED  BY <1>1 DEF FieldMap

LEMMA HitKeys == ASSUME StreamInv, Sampled PROVE Hit \subseteq Keys
  <1>1. Recorded(Diff(cur, cur'), Severity) \subseteq Keys
    BY RecordedKeys DEF StreamInv, TypeOK
  <1>. QED  BY <1>1 DEF Hit, ReadAs

LEMMA ReadInvInit == ASSUME ReadInit PROVE ReadInv
  <1>1. StreamInv /\ base = NoMap /\ touched = {} /\ request = Idle
    BY StreamInit DEF ReadInit
  <1>2. request \in Request /\ request.at # "read"
    BY <1>1, NoMapType DEF Request, Idle
  <1>3. request.at # "listed" /\ cur # NoMap
    BY <1>1, ValidIsSome DEF Idle, ReadInit, Init
  <1>. QED  BY <1>1, <1>2, <1>3, NoMapType DEF ReadInv

LEMMA StoreKeepsInv == ASSUME ReadInv, Store PROVE ReadInv'
  <1>1. StreamInv /\ Sampled /\ base' = base
    BY DEF ReadInv, Store
  <1>2. StreamInv' /\ cur' # NoMap
    BY <1>1, StreamStep, ValidIsSome DEF Sampled
  <1>3. Hit \subseteq Keys
    BY <1>1, HitKeys
  <1>4. touched' \subseteq Keys /\ (base # NoMap => touched' = touched \cup Hit)
    BY <1>3 DEF ReadInv, Store, Hit
  <1>5. base # NoMap => Follows(base, cur', touched')
    BY <1>1, <1>4, FollowsOn DEF ReadInv
  <1>6. CASE request.at = "read"
    <2>0. request \in Request
      BY DEF ReadInv
    <2>1. request' = [request EXCEPT !.since = @ \cup Hit]
      BY <1>6 DEF Store, Hit
    <2>2. /\ request' \in Request /\ request'.at = "read" /\ request'.latest = request.latest
          /\ request'.between = request.between /\ request'.newer = request.newer
          /\ request'.since = request.since \cup Hit
      BY <1>3, <1>6, <2>0, <2>1 DEF Request
    <2>3. request.latest \in FieldMap
      BY DEF ReadInv, Request
    <2>4. Follows(request.latest, cur', request.since \cup Hit)
      BY <1>1, <1>6, <2>3, FollowsOn DEF ReadInv
    <2>. QED  BY <1>1, <1>2, <1>4, <1>5, <1>6, <2>2, <2>4 DEF ReadInv
  <1>7. CASE request.at # "read"
    <2>1. request' = request
      BY <1>7 DEF Store
    <2>. QED  BY <1>1, <1>2, <1>4, <1>5, <1>7, <2>1 DEF ReadInv
  <1>. QED  BY <1>6, <1>7

LEMMA MarkKeepsInv == ASSUME ReadInv, Mark PROVE ReadInv'
  <1>1. StreamInv' /\ cur' = cur /\ base' = cur /\ touched' = {} /\ cur \in FieldMap
        /\ cur # NoMap
    BY DEF ReadInv, Mark, vars, StreamInv, TypeOK, OpenAlertIsAbsent, SilentIsPresent
  <1>2. Follows(base', cur', touched')
    BY <1>1, FollowsItself
  <1>3. CASE request.at = "read"
    <2>0. request \in Request
      BY DEF ReadInv
    <2>1. request' = [request EXCEPT !.between = request.since, !.newer = "base"]
      BY <1>3 DEF Mark
    <2>2. /\ request' \in Request /\ request'.at = "read" /\ request'.latest = request.latest
          /\ request'.between = request.since /\ request'.newer = "base"
          /\ request'.since = request.since
      BY <1>3, <2>0, <2>1 DEF Request
    <2>3. Follows(request.latest, cur, request.since)
      BY <1>3 DEF ReadInv
    <2>. QED  BY <1>1, <1>2, <2>2, <2>3 DEF ReadInv
  <1>4. CASE request.at # "read"
    <2>1. request' = request
      BY <1>4 DEF Mark
    <2>. QED  BY <1>1, <1>2, <1>4, <2>1 DEF ReadInv
  <1>. QED  BY <1>3, <1>4

LEMMA RequestKeepsInv ==
    ASSUME ReadInv, ListNodes \/ ReadLatest \/ Respond
    PROVE  ReadInv'
  <1>1. cur' = cur /\ open' = open /\ silent' = silent
        /\ base' = base /\ touched' = touched
    BY DEF ListNodes, ReadLatest, Respond, vars
  <1>2. StreamInv'
    BY <1>1 DEF ReadInv, StreamInv, TypeOK, OpenAlertIsAbsent, SilentIsPresent
  <1>3. cur \in FieldMap
    BY DEF ReadInv, StreamInv, TypeOK
  <1>4. CASE ReadLatest
    <2>1. request' = [at |-> "read", latest |-> cur, between |-> touched, since |-> {},
                      newer |-> "latest"]
      BY <1>4 DEF ReadLatest
    <2>2. request' \in Request
      BY <1>3, <2>1 DEF Request, ReadInv
    <2>3. Follows(cur, cur, {})
      BY FollowsItself
    <2>. QED  BY <1>1, <1>2, <2>1, <2>2, <2>3 DEF ReadInv
  <1>5. CASE ListNodes \/ Respond
    <2>1. request' \in Request /\ request'.at # "read"
          /\ (request'.at = "listed" => base # NoMap)
      BY <1>5, NoMapType DEF ListNodes, Respond, Idle, Request
    <2>. QED  BY <1>1, <1>2, <2>1 DEF ReadInv
  <1>. QED  BY <1>4, <1>5

LEMMA StutterKeepsInv == ASSUME ReadInv, UNCHANGED allVars PROVE ReadInv'
  BY DEF ReadInv, allVars, StreamInv, TypeOK, OpenAlertIsAbsent, SilentIsPresent, Follows

THEOREM ReadInvAlways == ReadSpec => []ReadInv
  <1>1. ReadInv /\ [ReadNext]_allVars => ReadInv'
    BY StoreKeepsInv, MarkKeepsInv, RequestKeepsInv, StutterKeepsInv DEF ReadNext
  <1>. QED  BY <1>1, ReadInvInit, PTL DEF ReadSpec

\* Every answer names only fields that can be found in the change records.
LEMMA NamedAreTouched == ASSUME ReadInv PROVE DiffExplained
  <1>. SUFFICES ASSUME request.at = "read", NEW k \in Named(base, request.latest),
                       Reading(IF request.newer = "base" THEN request.latest ELSE base, k).state
                           \in {"present", "absent"},
                       k \notin request.between
                PROVE  FALSE
    BY DEF DiffExplained
  <1>1. base \in FieldMap /\ request.latest \in FieldMap /\ base # NoMap
        /\ request.newer \in {"latest", "base"}
    BY DEF ReadInv, Request, Named, Differs
  <1>2. k \in Keys /\ k \in DOMAIN base \cup DOMAIN request.latest
    BY <1>1 DEF Named, FieldMap
  <1>3. \/ SameField(Reading(base, k), Reading(request.latest, k))
        \/ SameField(Reading(request.latest, k), Reading(base, k))
    BY <1>1, <1>2 DEF ReadInv, Follows
  <1>4. Reading(base, k).state = Reading(request.latest, k).state
        /\ Reading(base, k).state # "unknown"
    BY <1>3 DEF SameField
  <1>5. k \in DOMAIN base /\ k \in DOMAIN request.latest
    BY <1>1, <1>4, SampledKey
  <1>6. SameField(base[k], request.latest[k])
    BY <1>3, <1>5 DEF Reading, SameField
  <1>. QED  BY <1>5, <1>6 DEF Named, Differs

(***************************************************************************)
(* The results.                                                            *)
(***************************************************************************)
\* The variables keep their types, however long the stream and whatever is
\* asked of it in the meantime.
THEOREM ReadTypes == ReadSpec => []ReadTypeOK
  <1>1. ReadInv => ReadTypeOK
    BY DEF ReadInv, StreamInv, ReadTypeOK
  <1>. QED  BY <1>1, ReadInvAlways, PTL

\* The change log alone tells which fields are missing, with unknown and
\* not_applicable readings and missing keys anywhere in the stream.
THEOREM AlertsTell == ReadSpec => []OpenAlertIsAbsent
  <1>1. ReadInv => OpenAlertIsAbsent
    BY DEF ReadInv, StreamInv
  <1>. QED  BY <1>1, ReadInvAlways, PTL

\* No field that was present is absent later without a record on the way.
THEOREM NoSilentLoss == ReadSpec => []NothingVanishesSilently
  <1>1. ReadInv => NothingVanishesSilently
    BY DEF ReadInv, StreamInv, SilentIsPresent, NothingVanishesSilently
  <1>. QED  BY <1>1, ReadInvAlways, PTL

\* Every difference that recorderctl names can be found in the timeline, also
\* when snapshots are stored and marked between the two reads of its handler.
THEOREM DifferencesExplained == ReadSpec => []DiffExplained
  BY NamedAreTouched, ReadInvAlways, PTL
=============================================================================
