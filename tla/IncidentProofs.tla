--------------------------- MODULE IncidentProofs ---------------------------
(***************************************************************************)
(* Proofs about the tables of pods and incidents and the evaluator between *)
(* them, for any pods, namespaces, thresholds, windows and failures.       *)
(*                                                                         *)
(* That an incident closes only over calm pods needs two facts about every *)
(* state in between: the age of a row is never more than the time its pod  *)
(* has been on record as Running, and every pod of the incident under      *)
(* evaluation is either still to be looked up or was found calm.           *)
(*                                                                         *)
(* The last section is about the configuration that the evaluator and      *)
(* maintenance run on.                                                     *)
(***************************************************************************)
EXTENDS Incident, Config, FiniteSetTheorems, TLAPS

\* The handler that is under way holds a pod of the cache, and those are there.
Cached ==
    /\ writing \subseteq listed /\ \A p, q \in writing : p = q
    /\ \A p \in listed : world[p] # "gone"

\* The age of a row that says Running.
AgesTrue ==
    \A p \in Pods : rows[p] # NoRow /\ rows[p].state = "Running" => rows[p].age <= calm[p]

\* Where the evaluation is.
Evaluating ==
    eval.at = "check" => open # <<>> /\ Head(open) \subseteq eval.pods \cup eval.calm

IInv == TypeOK /\ Cached /\ AtMostOneOpen /\ AgesTrue /\ Evaluating

LEMMA IdleType == Idle \in Eval /\ Idle.at = "idle"
  BY DEF Idle, Eval

LEMMA RowFacts ==
    ASSUME NEW r \in Row
    PROVE  r # NoRow /\ r.state \in PodState /\ r.age \in 0..Stable
  BY RowAssumption DEF Row

LEMMA FreshRow ==
    ASSUME NEW state \in PodState
    PROVE  [state |-> state, age |-> 0] \in Row
  BY IncidentAssumption DEF Row

LEMMA UpsertedType ==
    ASSUME NEW r \in Row \cup {NoRow}, NEW state \in PodState
    PROVE  Upserted(r, state) \in Row /\ Upserted(r, state).state = state
  BY FreshRow, RowFacts DEF Upserted

LEMMA InitIInv == Init => IInv
  <1>. SUFFICES ASSUME Init PROVE IInv
    OBVIOUS
  <1>1. TypeOK
    BY IdleType, IncidentAssumption DEF Init, TypeOK, PodState
  <1>. QED  BY <1>1, IdleType DEF Init, IInv, Cached, AtMostOneOpen, AgesTrue, Evaluating

(***************************************************************************)
(* The handlers.                                                           *)
(***************************************************************************)
\* What UpsertPod leaves alone, and what it makes of the row of a cached pod.
LEMMA UpsertKeeps ==
    ASSUME IInv, NEW p \in listed', world' = world, UpsertPod(p), world[p] # "gone", p \in Pods
    PROVE  /\ rows' \in [Pods -> Row \cup {NoRow}] /\ calm' \in [Pods -> 0..Stable]
           /\ AgesTrue'
           /\ rows'[p] # NoRow /\ rows'[p].state = world[p]
           /\ \A q \in Pods \ {p} : rows'[q] = rows[q]
  <1>. USE DEF IInv, TypeOK
  <1>1. world[p] \in PodState
    OBVIOUS
  <1>2. rows[p] \in Row \cup {NoRow}
    OBVIOUS
  <1>3. rows'[p] = Upserted(rows[p], world[p]) /\ rows'[p] \in Row /\ rows'[p].state = world[p]
    BY <1>1, <1>2, UpsertedType DEF UpsertPod
  <1>4. rows' \in [Pods -> Row \cup {NoRow}] /\ \A q \in Pods \ {p} : rows'[q] = rows[q]
    BY <1>3 DEF UpsertPod
  <1>5. calm' \in [Pods -> 0..Stable] /\ \A q \in Pods \ {p} : calm'[q] = calm[q]
    BY IncidentAssumption DEF UpsertPod
  <1>6. ASSUME rows'[p].state = "Running"  PROVE rows'[p].age <= calm'[p]
    <2>1. CASE rows[p] # NoRow /\ rows[p].state = "Running"
      <3>1. rows'[p] = rows[p] /\ calm'[p] = calm[p]
        BY <1>3, <1>6, <2>1 DEF UpsertPod, Upserted
      <3>. QED  BY <2>1, <3>1 DEF AgesTrue
    <2>2. CASE ~(rows[p] # NoRow /\ rows[p].state = "Running")
      <3>1. rows'[p].age = 0
        BY <1>3, <1>6, <2>2 DEF Upserted
      <3>. QED  BY <1>5, <3>1
    <2>. QED  BY <2>1, <2>2
  <1>7. AgesTrue'
    BY <1>4, <1>5, <1>6 DEF AgesTrue
  <1>8. rows'[p] # NoRow
    BY <1>3, RowFacts
  <1>. QED  BY <1>3, <1>4, <1>5, <1>7, <1>8

LEMMA WatchKeepsIInv ==
    ASSUME IInv, NEW p \in Pods, NEW state \in States \cup {"gone"},
           \/ state \in States /\ Change(p, state)
           \/ state \in States /\ ChangeUnrecorded(p, state)
           \/ ChangeUnseen(p, state)
    PROVE  IInv'
  <1>. USE DEF IInv
  <1>1. state \in PodState \cup {"gone"} /\ (state \in States => state \in PodState)
    BY IncidentAssumption DEF PodState
  <1>2. state \in States => state # "gone"
    BY <1>1 DEF PodState
  <1>3. CASE state \in States /\ Change(p, state)
    <2>1. entries' \subseteq Entry
      BY <1>3, IncidentAssumption DEF Change, Entered, TypeOK, Entry
    <2>. QED  BY <1>1, <1>2, <1>3, <2>1
                 DEF Change, TypeOK, Cached, AtMostOneOpen, AgesTrue, Evaluating
  <1>4. CASE state \in States /\ ChangeUnrecorded(p, state)
    BY <1>1, <1>2, <1>4 DEF ChangeUnrecorded, TypeOK, Cached, AtMostOneOpen, AgesTrue, Evaluating
  <1>5. CASE ChangeUnseen(p, state)
    BY <1>1, <1>5 DEF ChangeUnseen, TypeOK, Cached, AtMostOneOpen, AgesTrue, Evaluating
  <1>. QED  BY <1>3, <1>4, <1>5

LEMMA WriteKeepsIInv ==
    ASSUME IInv, NEW p \in Pods, Informer(p) \/ Resync(p)
    PROVE  IInv'
  <1>1. /\ world' = world /\ UpsertPod(p) /\ p \in listed' /\ world[p] # "gone"
        /\ listed' \subseteq listed \cup {p} /\ writing' \subseteq writing /\ writing' \subseteq listed'
        /\ missed' = missed \ {p} /\ UNCHANGED <<up, entries, open, eval>>
    BY DEF Informer, FinishWrite, Add, Resync, UpsertPod, IInv, Cached
  <1>2. rows' \in [Pods -> Row \cup {NoRow}] /\ calm' \in [Pods -> 0..Stable] /\ AgesTrue'
    BY <1>1, UpsertKeeps
  <1>3. TypeOK'
    BY <1>1, <1>2 DEF IInv, TypeOK
  <1>. QED  BY <1>1, <1>2, <1>3 DEF IInv, Cached, AtMostOneOpen, Evaluating

LEMMA ForgetKeepsIInv ==
    ASSUME IInv, NEW p \in Pods, Delete(p) \/ UpsertFails(p) \/ AddFails(p) \/ ForgetFails(p)
    PROVE  IInv'
  <1>. USE DEF IInv, TypeOK, Cached, AtMostOneOpen, AgesTrue, Evaluating
  <1>1. CASE Delete(p)
    BY <1>1 DEF Delete
  <1>2. CASE UpsertFails(p)
    BY <1>2 DEF UpsertFails
  <1>3. CASE ForgetFails(p)
    BY <1>3 DEF ForgetFails
  <1>4. CASE AddFails(p)
    BY <1>4 DEF AddFails
  <1>. QED  BY <1>1, <1>2, <1>3, <1>4

LEMMA ProcessKeepsIInv ==
    ASSUME IInv, GoDown \/ ComeUp \/ UNCHANGED vars
    PROVE  IInv'
  <1>. USE DEF IInv, TypeOK, Cached, AtMostOneOpen, AgesTrue, Evaluating
  <1>1. CASE GoDown
    BY <1>1, IdleType DEF GoDown
  <1>2. CASE ComeUp
    BY <1>2 DEF ComeUp
  <1>3. CASE UNCHANGED vars
    BY <1>3 DEF vars
  <1>. QED  BY <1>1, <1>2, <1>3

(***************************************************************************)
(* The evaluator and time.                                                 *)
(***************************************************************************)
LEMMA EvalType ==
    ASSUME NEW e \in Eval, NEW at \in {"idle", "join", "check"}, NEW S \in SUBSET Pods
    PROVE  /\ [e EXCEPT !.at = at, !.pods = S] \in Eval
           /\ [e EXCEPT !.at = at, !.pods = S].at = at
           /\ [e EXCEPT !.at = at, !.pods = S].pods = S
  BY DEF Eval

LEMMA CrashingType == ASSUME TypeOK PROVE Crashing \in SUBSET Pods
  BY DEF TypeOK, Crashing, Entry

LEMMA BeginKeepsIInv ==
    ASSUME IInv, Begin \/ OpenIncident \/ EvaluationFails
    PROVE  IInv'
  <1>. USE DEF IInv, TypeOK, Cached, AtMostOneOpen, AgesTrue, Evaluating
  <1>1. CASE Begin
    <2>1. eval' \in Eval /\ eval'.at = "join"
      BY <1>1, IdleType, EvalType, CrashingType DEF Begin
    <2>. QED  BY <1>1, <2>1 DEF Begin
  <1>2. CASE OpenIncident
    <2>1. eval.pods \in SUBSET Pods
      BY DEF Eval
    <2>. QED  BY <1>2, <2>1, IdleType DEF OpenIncident
  <1>3. CASE EvaluationFails
    BY <1>3, IdleType DEF EvaluationFails
  <1>. QED  BY <1>1, <1>2, <1>3

LEMMA JoinKeepsIInv ==
    ASSUME IInv, JoinIncident
    PROVE  IInv'
  <1>1. /\ open \in Seq(SUBSET Pods) /\ open # <<>> /\ Len(open) <= 1
        /\ eval.pods \in SUBSET Pods
    BY DEF IInv, TypeOK, AtMostOneOpen, JoinIncident, Eval
  <1>2. Head(open) \in SUBSET Pods /\ Tail(open) = <<>>
    BY <1>1
  <1>3. Joined \in SUBSET Pods
    BY <1>1, <1>2 DEF Joined
  <1>4. open' = <<Joined>> /\ open' \in Seq(SUBSET Pods) /\ Len(open') = 1 /\ Head(open') = Joined
    <2>1. open' = <<Joined>> \o <<>>
      BY <1>2 DEF JoinIncident
    <2>2. open' = <<Joined>>
      BY <1>3, <2>1
    <2>. QED  BY <1>3, <2>2
  <1>5. eval' \in Eval /\ eval'.at = "check" /\ eval'.pods = Joined
    BY <1>3, IdleType, EvalType DEF JoinIncident
  <1>. QED  BY <1>4, <1>5 DEF IInv, TypeOK, Cached, AtMostOneOpen, AgesTrue, Evaluating, JoinIncident

\* A pod that is passed was gone, or Running for the stable window.
LEMMA PassedIsCalm ==
    ASSUME IInv, NEW p \in Pods, PassPod(p)
    PROVE  rows[p] = NoRow \/ calm[p] = Stable
  <1>. SUFFICES ASSUME rows[p] # NoRow PROVE calm[p] = Stable
    OBVIOUS
  <1>1. rows[p].state = "Running" /\ rows[p].age >= Stable
    BY DEF PassPod, Resolved
  <1>2. rows[p].age <= calm[p] /\ calm[p] \in 0..Stable /\ rows[p].age \in 0..Stable
    BY <1>1, RowFacts DEF IInv, TypeOK, AgesTrue
  <1>. QED  BY <1>1, <1>2, IncidentAssumption

LEMMA LookUpKeepsIInv ==
    ASSUME IInv, NEW p \in Pods, PassPod(p) \/ HoldOpen(p)
    PROVE  IInv'
  <1>. USE DEF IInv, TypeOK, Cached, AtMostOneOpen, AgesTrue, Evaluating
  <1>1. CASE PassPod(p)
    <2>1. eval' = [eval EXCEPT !.pods = @ \ {p}, !.calm = @ \cup {p}]
      BY <1>1, PassedIsCalm DEF PassPod
    <2>2. eval \in Eval
      OBVIOUS
    <2>3. /\ eval' \in Eval /\ eval'.at = eval.at /\ eval'.pods = eval.pods \ {p}
          /\ eval'.calm = eval.calm \cup {p}
      BY <2>1, <2>2 DEF Eval
    <2>. QED  BY <1>1, <2>3 DEF PassPod
  <1>2. CASE HoldOpen(p)
    BY <1>2, IdleType DEF HoldOpen
  <1>. QED  BY <1>1, <1>2

LEMMA CloseKeepsIInv ==
    ASSUME IInv, CloseIncident
    PROVE  IInv'
  <1>1. open \in Seq(SUBSET Pods) /\ open # <<>> /\ Len(open) <= 1
    BY DEF IInv, TypeOK, AtMostOneOpen, Evaluating, CloseIncident
  <1>2. open' = <<>>
    BY <1>1 DEF CloseIncident
  <1>3. open' \in Seq(SUBSET Pods) /\ Len(open') = 0
    BY <1>2
  <1>. QED  BY <1>2, <1>3, IdleType
            DEF IInv, TypeOK, Cached, AtMostOneOpen, AgesTrue, Evaluating, CloseIncident

LEMMA OlderRange ==
    ASSUME NEW m \in Nat, NEW a \in 0..m, NEW b \in 0..m, a <= b
    PROVE  Older(a, m) \in 0..m /\ Older(a, m) <= Older(b, m)
  BY DEF Older

LEMMA PassKeepsIInv == ASSUME IInv, Pass PROVE IInv'
  <1>1. Stable \in Nat /\ rows \in [Pods -> Row \cup {NoRow}] /\ calm \in [Pods -> 0..Stable]
    BY IncidentAssumption DEF IInv, TypeOK
  <1>2. ASSUME NEW p \in Pods
        PROVE  /\ rows'[p] \in Row \cup {NoRow} /\ calm'[p] \in 0..Stable
               /\ rows'[p] # NoRow /\ rows'[p].state = "Running" => rows'[p].age <= calm'[p]
    <2>1. calm'[p] = Older(calm[p], Stable) /\ calm'[p] \in 0..Stable
      BY <1>1, OlderRange DEF Pass
    <2>2. CASE rows[p] = NoRow
      BY <2>1, <2>2 DEF Pass
    <2>3. CASE rows[p] # NoRow
      <3>1. rows[p] \in Row /\ rows[p].age \in 0..Stable
        BY <1>1, <2>3, RowFacts
      <3>2. rows'[p] = [rows[p] EXCEPT !.age = Older(@, Stable)]
        BY <2>3 DEF Pass
      <3>3. Older(rows[p].age, Stable) \in 0..Stable
        BY <1>1, <3>1, OlderRange
      <3>4. /\ rows'[p] \in Row /\ rows'[p].state = rows[p].state
            /\ rows'[p].age = Older(rows[p].age, Stable)
        BY <3>1, <3>2, <3>3 DEF Row
      <3>5. rows[p].state = "Running" => rows[p].age <= calm[p]
        BY <2>3 DEF IInv, AgesTrue
      <3>. QED  BY <1>1, <2>1, <3>1, <3>4, <3>5, OlderRange
    <2>. QED  BY <2>2, <2>3
  <1>3. rows' \in [Pods -> Row \cup {NoRow}] /\ calm' \in [Pods -> 0..Stable] /\ AgesTrue'
    <2>1. rows' = [p \in Pods |-> rows'[p]] /\ calm' = [p \in Pods |-> calm'[p]]
      BY DEF Pass
    <2>. QED  BY <1>2, <2>1 DEF AgesTrue
  <1>4. entries' \subseteq Entry
    <2>1. ASSUME NEW e \in entries, e.age < Window
          PROVE  [e EXCEPT !.age = @ + 1] \in Entry
      BY <2>1, IncidentAssumption DEF IInv, TypeOK, Entry
    <2>. QED  BY <2>1 DEF Pass
  <1>. QED  BY <1>3, <1>4 DEF IInv, TypeOK, Cached, AtMostOneOpen, Evaluating, Pass

LEMMA StepIInv == IInv /\ [Next]_vars => IInv'
  BY WatchKeepsIInv, WriteKeepsIInv, ForgetKeepsIInv, ProcessKeepsIInv, BeginKeepsIInv,
     JoinKeepsIInv, LookUpKeepsIInv, CloseKeepsIInv, PassKeepsIInv
     DEF Next, Evaluate

LEMMA Invariance == Spec => []IInv
  BY InitIInv, StepIInv, PTL DEF Spec

(***************************************************************************)
(* The results.                                                            *)
(***************************************************************************)
\* The variables keep their types, whatever fails.
THEOREM TypeCorrect == Spec => []TypeOK
  <1>1. IInv => TypeOK
    BY DEF IInv
  <1>. QED  BY <1>1, Invariance, PTL

\* There is never more than one open incident, whatever fails.
THEOREM OneIncident == Spec => []AtMostOneOpen
  <1>1. IInv => AtMostOneOpen
    BY DEF IInv
  <1>. QED  BY <1>1, Invariance, PTL

\* An incident is closed only over pods that were found gone, or Running for
\* the stable window without interruption, in the same evaluation: also when
\* the handlers write between the lookups, statements fail and the collector
\* restarts.
THEOREM ClosedOverCalmPods == Spec => ClosedWhenCalm
  <1>1. IInv /\ [Next]_vars =>
            [Len(open') < Len(open) => Head(open) \subseteq eval.calm]_vars
    <2>. SUFFICES ASSUME IInv, Next, Len(open') < Len(open)
                  PROVE  Head(open) \subseteq eval.calm
      OBVIOUS
    <2>1. open \in Seq(SUBSET Pods) /\ Len(open) \in Nat
      BY DEF IInv, TypeOK
    <2>2. ~OpenIncident
      <3>. SUFFICES ASSUME OpenIncident PROVE FALSE
        OBVIOUS
      <3>1. Len(open) = 0 /\ Len(open') = 1
        BY DEF OpenIncident
      <3>. QED  BY <3>1
    <2>3. ~JoinIncident
      <3>. SUFFICES ASSUME JoinIncident PROVE FALSE
        OBVIOUS
      <3>1. open # <<>> /\ Len(open) <= 1 /\ Tail(open) = <<>>
        BY <2>1 DEF JoinIncident, IInv, AtMostOneOpen
      <3>2. Len(open') = 1
        BY <3>1 DEF JoinIncident
      <3>. QED  BY <2>1, <3>1, <3>2
    <2>4. open' # open
      OBVIOUS
    <2>5. CloseIncident
      BY <2>2, <2>3, <2>4 DEF Next, Change, ChangeUnrecorded, ChangeUnseen, Informer, FinishWrite,
         Add, Delete, Resync, UpsertFails, AddFails, ForgetFails, GoDown, ComeUp, Evaluate, Begin, PassPod,
         HoldOpen, EvaluationFails, Pass
    <2>. QED  BY <2>5 DEF CloseIncident, IInv, Evaluating
  <1>. QED  BY <1>1, Invariance, PTL DEF Spec, ClosedWhenCalm

\* The row of every pod in the informer's cache tells its state, except the row
\* that a handler is about to write and those whose last write failed.
THEOREM RowsAreTrue == Spec => []RowsTrue
  <1>1. Init => RowsTrue
    BY DEF Init, RowsTrue
  <1>2. IInv /\ RowsTrue /\ [Next]_vars => RowsTrue'
    <2>. SUFFICES ASSUME IInv, RowsTrue, [Next]_vars PROVE RowsTrue'
      OBVIOUS
    <2>. USE DEF RowsTrue
    <2>1. ASSUME NEW p \in Pods, NEW state, Change(p, state)  PROVE RowsTrue'
      BY <2>1 DEF Change, IInv, TypeOK
    <2>2. ASSUME NEW p \in Pods, NEW state, ChangeUnseen(p, state)  PROVE RowsTrue'
      BY <2>2 DEF ChangeUnseen, IInv, TypeOK
    <2>3. ASSUME NEW p \in Pods, Informer(p) \/ Resync(p)  PROVE RowsTrue'
      <3>1. /\ world' = world /\ UpsertPod(p) /\ p \in listed' /\ world[p] # "gone"
            /\ listed' \subseteq listed \cup {p} /\ writing \ {p} \subseteq writing'
            /\ missed' = missed \ {p}
        BY <2>3 DEF Informer, FinishWrite, Add, Resync, UpsertPod, IInv, Cached
      <3>2. writing \cup missed \subseteq writing' \cup missed' \cup {p}
        BY <3>1
      <3>3. /\ rows'[p] # NoRow /\ rows'[p].state = world[p]
            /\ \A q \in Pods \ {p} : rows'[q] = rows[q]
        BY <3>1, UpsertKeeps
      <3>. QED  BY <3>1, <3>2, <3>3 DEF IInv, TypeOK
    <2>4. ASSUME NEW p \in Pods, Delete(p)  PROVE RowsTrue'
      BY <2>4 DEF Delete, IInv, TypeOK
    <2>5. CASE GoDown \/ EvaluationFails
      BY <2>5 DEF GoDown, EvaluationFails
    <2>6. CASE ComeUp \/ Evaluate \/ UNCHANGED vars
      BY <2>6 DEF ComeUp, Evaluate, Begin, OpenIncident, JoinIncident, PassPod, HoldOpen,
                  CloseIncident, vars
    <2>7. CASE Pass
      <3>. SUFFICES ASSUME NEW p \in listed \ (writing \cup missed)
                    PROVE  rows'[p] # NoRow /\ rows'[p].state = world[p]
        BY <2>7 DEF Pass
      <3>1. p \in Pods /\ rows[p] # NoRow /\ rows[p] \in Row /\ rows[p].state = world[p]
        BY DEF IInv, TypeOK
      <3>2. rows'[p] = [rows[p] EXCEPT !.age = Older(@, Stable)]
        BY <2>7, <3>1 DEF Pass
      <3>3. rows'[p].state = rows[p].state
        BY <3>1, <3>2 DEF Row
      <3>4. rows'[p] # NoRow
        BY <3>1, PassKeepsIInv, <2>7, RowFacts, OlderRange, <3>2, IncidentAssumption DEF Row
      <3>. QED  BY <3>1, <3>3, <3>4
    <2>8. ASSUME NEW p \in Pods, NEW state, ChangeUnrecorded(p, state)  PROVE RowsTrue'
      BY <2>8 DEF ChangeUnrecorded, IInv, TypeOK
    <2>9. ASSUME NEW p \in Pods, UpsertFails(p) \/ AddFails(p) \/ ForgetFails(p)  PROVE RowsTrue'
      <3>1. CASE UpsertFails(p)
        <4>1. writing \subseteq {p}
          BY <3>1 DEF UpsertFails, IInv, Cached
        <4>. QED  BY <3>1, <4>1 DEF UpsertFails
      <3>2. CASE AddFails(p)
        BY <3>2 DEF AddFails
      <3>3. CASE ForgetFails(p)
        BY <3>3 DEF ForgetFails, IInv, TypeOK
      <3>. QED  BY <2>9, <3>1, <3>2, <3>3
    <2>. QED  BY <2>1, <2>2, <2>3, <2>4, <2>5, <2>6, <2>7, <2>8, <2>9 DEF Next
  <1>. QED  BY <1>1, <1>2, Invariance, PTL DEF Spec

(***************************************************************************)
(* Progress.  Under the fairness of FairSpec these two are why IncidentsEnd*)
(* holds.                                                                  *)
(***************************************************************************)
\* How many lookups an evaluation that is under way has left at most.
EvalLeft == IF eval.at = "join" THEN Cardinality(Pods) + 1 ELSE Cardinality(eval.pods)

\* An evaluation cannot be drawn out: each of its statements ends it or leaves
\* fewer lookups to do, and nothing that the handlers write meanwhile gives it
\* another pod to wait for.
THEOREM EvaluationsEnd ==
    ASSUME IsFiniteSet(Pods)
    PROVE  Spec =>
               [][eval # Idle =>
                     /\ eval' = Idle \/ EvalLeft' < EvalLeft \/ eval' = eval
                     /\ Evaluate => eval' = Idle \/ EvalLeft' < EvalLeft]_vars
  <1>1. ASSUME IInv, IInv', Evaluate, eval # Idle
        PROVE  eval' = Idle \/ EvalLeft' < EvalLeft
    <2>1. eval \in Eval /\ eval' \in Eval
      BY <1>1 DEF IInv, TypeOK
    <2>2. /\ IsFiniteSet(eval.pods) /\ IsFiniteSet(eval'.pods)
          /\ Cardinality(Pods) \in Nat /\ Cardinality(eval.pods) \in Nat
          /\ Cardinality(eval'.pods) \in Nat /\ Cardinality(eval'.pods) <= Cardinality(Pods)
      BY <2>1, FS_Subset, FS_CardinalityType DEF Eval
    <2>3. CASE JoinIncident
      <3>1. eval.at = "join" /\ eval'.at = "check"
        BY <2>3 DEF JoinIncident, Idle
      <3>. QED  BY <2>2, <3>1 DEF EvalLeft
    <2>4. ASSUME NEW p \in Pods, PassPod(p)  PROVE EvalLeft' < EvalLeft
      <3>1. /\ p \in eval.pods /\ eval'.pods = eval.pods \ {p}
            /\ eval.at = "check" /\ eval'.at = "check"
        BY <2>1, <2>4 DEF PassPod, Eval
      <3>2. Cardinality(eval'.pods) = Cardinality(eval.pods) - 1
        BY <2>2, <3>1, FS_RemoveElement
      <3>. QED  BY <2>2, <3>1, <3>2 DEF EvalLeft
    <2>. QED  BY <1>1, <2>3, <2>4 DEF Evaluate, Begin, OpenIncident, HoldOpen, CloseIncident
  <1>2. ASSUME Next, ~Evaluate  PROVE eval' = Idle \/ eval' = eval
    BY <1>2 DEF Next, Change, ChangeUnrecorded, ChangeUnseen, Informer, FinishWrite, Add, UpsertPod,
        Delete, Resync, UpsertFails, AddFails, ForgetFails, GoDown, ComeUp, EvaluationFails, Pass
  <1>3. IInv /\ IInv' /\ [Next]_vars =>
            [eval # Idle =>
                /\ eval' = Idle \/ EvalLeft' < EvalLeft \/ eval' = eval
                /\ Evaluate => eval' = Idle \/ EvalLeft' < EvalLeft]_vars
    BY <1>1, <1>2
  <1>. QED  BY <1>3, Invariance, PTL DEF Spec

\* The evaluator finds nothing against the pod, and its row is true.
InOrder(p) ==
    \/ world[p] = "gone" /\ rows[p] = NoRow
    \/ /\ world[p] = "Running" /\ rows[p] # NoRow
       /\ rows[p].state = "Running" /\ rows[p].age = Stable

\* A pod that is in order stays so for as long as it runs on, or stays away:
\* the restarts of the collector, the lists and the resyncs after them, and
\* writes that fail do not make its stable window begin anew.
THEOREM InOrderStays ==
    Spec => [][\A p \in Pods : InOrder(p) /\ world'[p] = world[p] => InOrder(p)']_vars
  <1>1. ASSUME IInv, IInv', Next, NEW p \in Pods, InOrder(p), world'[p] = world[p]
        PROVE  InOrder(p)'
    <2>. USE DEF InOrder
    <2>1. rows \in [Pods -> Row \cup {NoRow}] /\ Stable \in Nat /\ listed \subseteq Pods
      BY <1>1, IncidentAssumption DEF IInv, TypeOK
    <2>2. ASSUME NEW q \in Pods, Informer(q) \/ Resync(q)  PROVE InOrder(p)'
      <3>1. /\ world' = world /\ UpsertPod(q) /\ world[q] # "gone"
        BY <1>1, <2>2 DEF Informer, FinishWrite, Add, Resync, UpsertPod, IInv, Cached
      <3>2. rows' = [rows EXCEPT ![q] = Upserted(@, world[q])]
        BY <3>1 DEF UpsertPod
      <3>3. CASE p # q
        BY <1>1, <2>1, <3>1, <3>2, <3>3
      <3>4. CASE p = q
        <4>1. rows'[p] = rows[p]
          BY <1>1, <2>1, <3>1, <3>2, <3>4 DEF Upserted
        <4>. QED  BY <1>1, <3>1, <4>1
      <3>. QED  BY <3>3, <3>4
    <2>3. ASSUME NEW q \in Pods, Delete(q)  PROVE InOrder(p)'
      BY <1>1, <2>1, <2>3 DEF Delete, IInv, TypeOK
    <2>4. CASE Pass
      <3>1. world' = world /\ rows'[p] = IF rows[p] = NoRow THEN NoRow
                                         ELSE [rows[p] EXCEPT !.age = Older(@, Stable)]
        BY <2>4 DEF Pass
      <3>2. CASE rows[p] = NoRow
        BY <1>1, <3>1, <3>2
      <3>3. CASE rows[p] # NoRow
        <4>1. rows[p] \in Row /\ rows[p].age = Stable /\ rows[p].state = "Running"
          BY <1>1, <2>1, <3>3
        <4>2. rows'[p] = rows[p]
          BY <2>1, <3>1, <3>3, <4>1 DEF Older, Row
        <4>. QED  BY <1>1, <3>1, <4>2
      <3>. QED  BY <3>2, <3>3
    <2>5. CASE UNCHANGED rows
      BY <1>1, <2>5
    <2>. QED  BY <1>1, <2>2, <2>3, <2>4, <2>5
              DEF Next, Change, ChangeUnrecorded, ChangeUnseen, UpsertFails, AddFails, ForgetFails,
                  GoDown, ComeUp, Evaluate, Begin, OpenIncident, JoinIncident, PassPod, HoldOpen,
                  CloseIncident, EvaluationFails
  <1>2. IInv /\ IInv' /\ [Next]_vars =>
            [\A p \in Pods : InOrder(p) /\ world'[p] = world[p] => InOrder(p)']_vars
    BY <1>1
  <1>. QED  BY <1>2, Invariance, PTL DEF Spec

(***************************************************************************)
(* What the collector may take for granted about a configuration that was  *)
(* accepted.                                                               *)
(***************************************************************************)
LEMMA DefaultInRange ==
    ASSUME NEW k \in Numbers
    PROVE  Default(k) \in Int /\ Default(k) >= Least(k)
BY ConfigAssumption, SMTT(30) DEF Numbers, Counts, Retention, InMinutes, Default, Least

LEMMA SettingInRange ==
    ASSUME NEW env, Environment(env), NEW k \in Numbers
    PROVE  Setting(env, k) \in Int
<1>1. CASE env[k] \in {Unset, Malformed}
    BY <1>1, DefaultInRange DEF Setting
<1>2. CASE env[k] \notin {Unset, Malformed}
    <2>1. env[k] \in Int
        BY <1>2 DEF Environment
    <2>2. Minutes(env[k]) \in Int
        BY <2>1, ConfigAssumption DEF Minutes
    <2>3. QED  BY <1>2, <2>1, <2>2 DEF Setting
<1>3. QED  BY <1>1, <1>2

\* The assumptions that the evaluator's and the store's modules make of the
\* configuration hold of every one that FromEnv accepts, product of minutes
\* that wraps around or not: thresholds, window, quiet time and retention are
\* positive.
THEOREM AcceptedIsUsable ==
    ASSUME NEW env, Environment(env), Accepted(env), NEW k \in Numbers
    PROVE  Setting(env, k) \in Nat \ {0}
<1>1. Setting(env, k) \in Int
    BY SettingInRange
<1>2. ~(Setting(env, k) < Least(k))
    BY DEF Accepted, Problems
<1>3. Least(k) >= 1 /\ Least(k) \in Int
    BY DEF Least
<1>4. QED  BY <1>1, <1>2, <1>3

\* "A bare helm install must run on these alone."
THEOREM DefaultsAccepted ==
    ASSUME NEW env, Environment(env), \A k \in Numbers \cup Names : env[k] = Unset
    PROVE  Accepted(env)
<1>1. \A k \in Numbers \cup Names : Setting(env, k) = Default(k)
    BY DEF Setting
<1>2. ASSUME NEW k \in Numbers
      PROVE  env[k] # Malformed
    BY ConfigAssumption
<1>3. ASSUME NEW k \in Numbers  PROVE  ~(Setting(env, k) < Least(k))
    BY <1>1, DefaultInRange DEF Least
<1>4. ASSUME NEW k \in Names  PROVE  Setting(env, k) \in Allowed(k)
    BY <1>1 DEF Names, Default, Allowed
<1>5. QED  BY <1>2, <1>3, <1>4 DEF Accepted, Problems
=============================================================================
