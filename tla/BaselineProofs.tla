--------------------------- MODULE BaselineProofs ---------------------------
(***************************************************************************)
(* Proofs about the healthy baselines of a node, for any windows,          *)
(* retentions, number of baselines kept and length of the behaviour.       *)
(*                                                                         *)
(* That the newest baselines stay is a fact about ranks: the rank of a     *)
(* baseline is the number of newer ones, no two have the same, so those    *)
(* with a rank below Keep that are newer than b are Keep as soon as b has  *)
(* that many above it.  That the marking meets nothing unready needs one   *)
(* invariant (Checked): a row that the checks would not have accepted has  *)
(* a newer one above it, and deletions take the older row first.           *)
(***************************************************************************)
EXTENDS Baseline, FiniteSetTheorems, TLAPS

Above(S, t) == {u \in S : u > t}

\* The K newest times of a set.
Top(S, K) == {t \in S : Cardinality(Above(S, t)) < K}

(***************************************************************************)
(* Ranks.                                                                  *)
(***************************************************************************)
LEMMA AboveFinite ==
    ASSUME NEW S \in SUBSET Nat, IsFiniteSet(S), NEW t
    PROVE  /\ Above(S, t) \subseteq S
           /\ IsFiniteSet(Above(S, t))
           /\ Cardinality(Above(S, t)) \in Nat
  BY FS_Subset, FS_CardinalityType DEF Above

\* A proper part of a finite set has fewer elements.
LEMMA ProperPart ==
    ASSUME NEW S, IsFiniteSet(S), NEW T \in SUBSET S, NEW x \in S, x \notin T
    PROVE  Cardinality(T) < Cardinality(S)
  <1>1. IsFiniteSet(T) /\ Cardinality(T) <= Cardinality(S) /\ Cardinality(S) # Cardinality(T)
    BY FS_Subset
  <1>. QED  BY <1>1, FS_CardinalityType

\* The later a time, the fewer are above it.
LEMMA RankFalls ==
    ASSUME NEW S \in SUBSET Nat, IsFiniteSet(S), NEW t \in S, NEW u \in S, t < u
    PROVE  Cardinality(Above(S, u)) < Cardinality(Above(S, t))
  <1>1. Above(S, u) \subseteq Above(S, t)
    <2>. SUFFICES ASSUME NEW v \in S, v > u PROVE v > t
      BY DEF Above
    <2>1. t \in Nat /\ u \in Nat /\ v \in Nat
      OBVIOUS
    <2>. QED  BY <2>1
  <1>2. u \in Above(S, t) /\ u \notin Above(S, u)
    BY DEF Above
  <1>3. IsFiniteSet(Above(S, t))
    BY AboveFinite
  <1>. QED  BY <1>1, <1>2, <1>3, ProperPart

\* Times of ranks in lo..hi are no more than these.
LEMMA FewRanks ==
    ASSUME NEW S \in SUBSET Nat, IsFiniteSet(S), NEW lo \in Nat, NEW hi \in Nat, lo <= hi,
           NEW R \in SUBSET S, \A t \in R : Cardinality(Above(S, t)) \in lo..(hi - 1)
    PROVE  IsFiniteSet(R) /\ Cardinality(R) \in Nat /\ Cardinality(R) <= hi - lo
  <1>. DEFINE rank == [t \in R |-> Cardinality(Above(S, t))]
  <1>1. ASSUME NEW t \in R, NEW u \in R, rank[t] = rank[u]
        PROVE  t = u
    <2>1. ~(t < u) /\ ~(u < t)
      BY <1>1, RankFalls, AboveFinite
    <2>. QED  BY <2>1
  <1>2. rank \in Injection(R, lo..(hi - 1))
    BY <1>1 DEF Injection, IsInjective
  <1>3. IsFiniteSet(lo..(hi - 1)) /\ Cardinality(lo..(hi - 1)) = hi - lo
    <2>1. lo \in Int /\ hi - 1 \in Int
      OBVIOUS
    <2>2. /\ IsFiniteSet(lo..(hi - 1))
          /\ Cardinality(lo..(hi - 1)) = IF lo > hi - 1 THEN 0 ELSE (hi - 1) - lo + 1
      BY <2>1, FS_Interval
    <2>. QED  BY <2>2
  <1>4. IsFiniteSet(R) /\ Cardinality(R) <= Cardinality(lo..(hi - 1))
    BY <1>2, <1>3, FS_Injection
  <1>. QED  BY <1>3, <1>4, FS_CardinalityType

\* The newest K of a set are K at most.
LEMMA TopFew ==
    ASSUME NEW S \in SUBSET Nat, IsFiniteSet(S), NEW K \in Nat
    PROVE  Cardinality(Top(S, K)) <= K
  <1>1. \A t \in Top(S, K) : Cardinality(Above(S, t)) \in 0..(K - 1)
    BY AboveFinite DEF Top
  <1>. QED  BY <1>1, FewRanks DEF Top

\* Of the K newest, K are newer than a time that is not one of them.
LEMMA TopKept ==
    ASSUME NEW S \in SUBSET Nat, IsFiniteSet(S), NEW K \in Nat, NEW b \in S \ Top(S, K)
    PROVE  Cardinality(Above(Top(S, K), b)) >= K
  <1>. DEFINE A == Above(S, b)
              T == Above(Top(S, K), b)
              n == Cardinality(A)
  <1>1. IsFiniteSet(A) /\ A \subseteq S /\ n \in Nat /\ n >= K
    BY AboveFinite DEF Top
  <1>2. T \subseteq A /\ A \cap T = T
    BY DEF Above, Top
  <1>3. ASSUME NEW t \in A \ T
        PROVE  Cardinality(Above(S, t)) \in K..(n - 1)
    <2>1. t \in S /\ t > b /\ t \notin Top(S, K)
      BY <1>3 DEF Above, Top
    <2>2. Cardinality(Above(S, t)) < n
      BY <2>1, RankFalls
    <2>. QED  BY <1>1, <2>1, <2>2, AboveFinite DEF Top
  <1>4. Cardinality(A \ T) \in Nat /\ Cardinality(A \ T) <= n - K
    <2>1. A \ T \in SUBSET S
      BY <1>1
    <2>. HIDE DEF A, T, n
    <2>. QED  BY <1>1, <1>3, <2>1, FewRanks
  <1>5. Cardinality(A \ T) = n - Cardinality(T)
    BY <1>1, <1>2, FS_Difference
  <1>6. Cardinality(T) \in Nat
    BY <1>1, <1>2, FS_Subset, FS_CardinalityType
  <1>. QED  BY <1>1, <1>4, <1>5, <1>6

(***************************************************************************)
(* The rows of one source.                                                 *)
(***************************************************************************)
RowsOK(rows) ==
    /\ rows \subseteq Snapshot
    /\ \A r, q \in rows : r.time <= now /\ (r.time = q.time => r = q)

BaselineTimes(rows) == {r.time : r \in {q \in rows : q.baseline}}

LEMMA TypeRows == ASSUME TypeOK PROVE \A s \in Source : RowsOK(table[s])
  BY DEF TypeOK, RowsOK

LEMMA BaselineTimesFacts ==
    ASSUME now \in Nat, NEW rows, RowsOK(rows)
    PROVE  BaselineTimes(rows) \in SUBSET Nat /\ IsFiniteSet(BaselineTimes(rows))
  <1>1. BaselineTimes(rows) \in SUBSET Nat /\ \A t \in BaselineTimes(rows) : t <= now
    BY DEF RowsOK, BaselineTimes, Snapshot
  <1>. QED  BY <1>1, FS_BoundedSetOfNaturals

\* A new row.
LEMMA PutRows ==
    ASSUME TypeOK, NEW s \in Source, NEW t \in 0..now, NEW g \in BOOLEAN, Put(s, t, g)
    PROVE  /\ table' \in [Source -> SUBSET Snapshot]
           /\ \A x \in Source \ {s} : table'[x] = table[x]
           /\ table'[s] = table[s] \cup {[time |-> t, good |-> g, baseline |-> FALSE]}
           /\ \A r \in table[s] : r.time # t
           /\ \A x \in Source : RowsOK(table'[x])
  <1>. DEFINE new == [time |-> t, good |-> g, baseline |-> FALSE]
  <1>1. new \in Snapshot /\ new.time = t /\ t <= now
    BY DEF Snapshot, TypeOK
  <1>2. /\ table' = [table EXCEPT ![s] = @ \cup {new}]
        /\ \A r \in table[s] : r.time # t
    BY DEF Put
  <1>. HIDE DEF new
  <1>3. /\ table' \in [Source -> SUBSET Snapshot]
        /\ \A x \in Source \ {s} : table'[x] = table[x]
        /\ table'[s] = table[s] \cup {new}
    BY <1>1, <1>2 DEF TypeOK
  <1>4. ASSUME NEW x \in Source PROVE RowsOK(table'[x])
    BY <1>1, <1>2, <1>3, TypeRows DEF RowsOK
  <1>. QED  BY <1>2, <1>3, <1>4 DEF new

\* Flagging changes no more than the flag.
LEMMA FlagRows ==
    ASSUME TypeOK, Flag
    PROVE  /\ table' \in [Source -> SUBSET Snapshot]
           /\ \A x \in Source \ {check.source} : table'[x] = table[x]
           /\ table'[check.source] = {[r EXCEPT !.baseline = @ \/ r \in Latest(check.source)] :
                                        r \in table[check.source]}
           /\ \A x \in Source : RowsOK(table'[x])
  <1>. DEFINE s == check.source
              flagged(r) == [r EXCEPT !.baseline = @ \/ r \in Latest(s)]
  <1>1. s \in Source
    BY DEF TypeOK, Check
  <1>2. ASSUME NEW r \in Snapshot
        PROVE  flagged(r) \in Snapshot /\ flagged(r).time = r.time
    BY DEF Snapshot
  <1>3. table' = [table EXCEPT ![s] = {flagged(r) : r \in @}]
    BY DEF Flag
  <1>. HIDE DEF flagged
  <1>4. table'[s] = {flagged(r) : r \in table[s]} /\ \A x \in Source \ {s} : table'[x] = table[x]
    BY <1>1, <1>3 DEF TypeOK
  <1>5. RowsOK(table'[s])
    BY <1>1, <1>2, <1>4, TypeRows DEF RowsOK
  <1>6. \A x \in Source : RowsOK(table'[x])
    BY <1>4, <1>5, TypeRows DEF RowsOK
  <1>. QED  BY <1>3, <1>4, <1>6 DEF flagged, RowsOK, TypeOK

LEMMA TrimRows ==
    ASSUME TypeOK, Trim
    PROVE  /\ table' \in [Source -> SUBSET Snapshot]
           /\ \A x \in Source \ {check.source} : table'[x] = table[x]
           /\ table'[check.source] =
                {[r EXCEPT !.baseline = @ /\ r.time \in NewestBaselines(check.source)] :
                    r \in table[check.source]}
           /\ \A x \in Source : RowsOK(table'[x])
  <1>. DEFINE s == check.source
              trimmed(r) == [r EXCEPT !.baseline = @ /\ r.time \in NewestBaselines(s)]
  <1>1. s \in Source
    BY DEF TypeOK, Check
  <1>2. ASSUME NEW r \in Snapshot
        PROVE  trimmed(r) \in Snapshot /\ trimmed(r).time = r.time
    BY DEF Snapshot
  <1>3. table' = [table EXCEPT ![s] = {trimmed(r) : r \in @}]
    BY DEF Trim
  <1>. HIDE DEF trimmed
  <1>4. table'[s] = {trimmed(r) : r \in table[s]} /\ \A x \in Source \ {s} : table'[x] = table[x]
    BY <1>1, <1>3 DEF TypeOK
  <1>5. RowsOK(table'[s])
    BY <1>1, <1>2, <1>4, TypeRows DEF RowsOK
  <1>6. \A x \in Source : RowsOK(table'[x])
    BY <1>4, <1>5, TypeRows DEF RowsOK
  <1>. QED  BY <1>3, <1>4, <1>6 DEF trimmed, RowsOK, TypeOK

\* What pruning and the size cap have in common: baselines stay, and so does
\* every row that is newer than one that stays without being a baseline.
Deletion ==
    /\ table' \in [Source -> SUBSET Snapshot]
    /\ \A x \in Source :
        /\ table'[x] \subseteq table[x]
        /\ \A r \in table[x] : r.baseline => r \in table'[x]
        /\ \A r \in table'[x] : ~r.baseline =>
            \A q \in table[x] : q.time > r.time => q \in table'[x]

LEMMA PruneDeletes == ASSUME TypeOK, Prune PROVE Deletion
  <1>1. table' \in [Source -> SUBSET Snapshot]
    BY DEF TypeOK, Prune
  <1>2. ASSUME NEW x \in Source, NEW r \in table'[x], ~r.baseline,
               NEW q \in table[x], q.time > r.time
        PROVE  q \in table'[x]
    <2>1. r \in table[x] /\ r.time + RetainSnapshots >= now
      BY <1>2 DEF Prune
    <2>2. q.time \in Nat /\ r.time \in Nat /\ RetainSnapshots \in Nat /\ now \in Nat
      BY <2>1, BaselineAssumption DEF TypeOK, Snapshot
    <2>. QED  BY <1>2, <2>1, <2>2 DEF Prune
  <1>. QED  BY <1>1, <1>2 DEF Prune, Deletion

LEMMA DropDeletes ==
    ASSUME TypeOK, NEW t \in 0..now, DropOldest(t)
    PROVE  Deletion
  <1>1. table' \in [Source -> SUBSET Snapshot]
    BY DEF TypeOK, DropOldest
  <1>2. ASSUME NEW x \in Source, NEW r \in table'[x], ~r.baseline,
               NEW q \in table[x], q.time > r.time
        PROVE  q \in table'[x]
    <2>1. r \in table[x] /\ r.time > t
      BY <1>2 DEF DropOldest
    <2>2. q.time \in Nat /\ r.time \in Nat /\ t \in Nat
      BY <2>1 DEF TypeOK, Snapshot
    <2>. QED  BY <1>2, <2>1, <2>2 DEF DropOldest
  <1>. QED  BY <1>1, <1>2 DEF DropOldest, Deletion

LEMMA DeletionRows ==
    ASSUME TypeOK, Deletion
    PROVE  \A x \in Source : RowsOK(table'[x])
  BY TypeRows DEF Deletion, RowsOK

(***************************************************************************)
(* Types.                                                                  *)
(***************************************************************************)
\* While the api snapshot is read and flagged: no row that was there when the
\* checks passed is the latest one and not ready, unless it is a baseline.
Checked ==
    /\ check.at <= now
    /\ check.step \in {"read", "flag"} /\ check.source = "api" =>
        \A r \in table["api"] :
            ~r.good /\ ~r.baseline /\ r.time < check.at
                => \E q \in table["api"] : q.time > r.time

IInv == TypeOK /\ Checked

LEMMA IdleType == Idle \in Check /\ Idle.at = 0 /\ Idle.step = "idle"
  BY DEF Idle, Check, Source

LEMMA InitIInv == Init => IInv
  <1>. SUFFICES ASSUME Init PROVE IInv
    OBVIOUS
  <1>1. TypeOK
    <2>1. table \in [Source -> SUBSET Snapshot] /\ \A s \in Source : table[s] = {}
      BY DEF Init
    <2>2. last \in [Kind -> SUBSET (0..now)]
      BY DEF Init
    <2>. QED  BY <2>1, <2>2, IdleType DEF Init, TypeOK
  <1>2. Checked
    BY IdleType DEF Init, Checked
  <1>. QED  BY <1>1, <1>2 DEF IInv

LEMMA NewestType ==
    ASSUME TypeOK, NEW c \in unsettled
    PROVE  /\ c = <<c[1], c[2]>> /\ c[1] \in Kind /\ c[2] \in 0..now
           /\ Newest(last[c[1]], c[2]) \subseteq 0..now
  <1>1. c = <<c[1], c[2]>> /\ c[1] \in Kind /\ c[2] \in 0..now
    BY DEF TypeOK, Kind
  <1>2. last[c[1]] \subseteq 0..now
    BY <1>1 DEF TypeOK
  <1>. QED  BY <1>1, <1>2 DEF Newest

LEMMA BringsType ==
    ASSUME TypeOK, NEW kind \in Kind, NEW t \in 0..now, NEW happened \in BOOLEAN,
           \A c \in unsettled : c[1] # kind, Brings(kind, t, happened)
    PROVE  /\ unsettled' \subseteq {"alert", "flap"} \X (0..now)
           /\ \A c, d \in unsettled' : c[1] = d[1] => c = d
  BY DEF TypeOK, Brings, Kind

LEMMA NextSourceType ==
    ASSUME TypeOK, NextSource
    PROVE  /\ check' \in Check /\ check'.at = 0
           /\ check'.source = "agent" \/ check'.step = "idle"
  BY DEF NextSource, Check, Source, Idle

LEMMA StepTypes == ASSUME TypeOK, [Next]_vars PROVE TypeOK'
  <1>. USE DEF TypeOK
  <1>1. ASSUME NEW g \in BOOLEAN, RecordNode(g) PROVE TypeOK'
    <2>1. now \in 0..now /\ "api" \in Source /\ "flap" \in Kind
      BY DEF Source, Kind
    <2>2. UNCHANGED <<now, last, trouble, check>> /\ Put("api", now, g)
      BY <1>1 DEF RecordNode
    <2>3. /\ unsettled' \subseteq {"alert", "flap"} \X (0..now)
          /\ \A c, d \in unsettled' : c[1] = d[1] => c = d
      BY <1>1, <2>1, BringsType DEF RecordNode
    <2>. QED  BY <2>1, <2>2, <2>3, PutRows DEF RowsOK
  <1>2. ASSUME NEW g \in BOOLEAN, NEW t \in 0..now, AgentSnapshot(t, g) PROVE TypeOK'
    <2>1. "agent" \in Source /\ "alert" \in Kind
      BY DEF Source, Kind
    <2>2. UNCHANGED <<now, last, trouble, check>> /\ Put("agent", t, g)
      BY <1>2 DEF AgentSnapshot
    <2>3. /\ unsettled' \subseteq {"alert", "flap"} \X (0..now)
          /\ \A c, d \in unsettled' : c[1] = d[1] => c = d
      BY <1>2, <2>1, BringsType DEF AgentSnapshot
    <2>. QED  BY <2>1, <2>2, <2>3, PutRows DEF RowsOK
  <1>3. ASSUME NEW c \in unsettled, PutChanges(c) PROVE TypeOK'
    BY <1>3, NewestType DEF PutChanges, Kind
  <1>4. ASSUME NEW c \in unsettled, ChangesFail(c) PROVE TypeOK'
    BY <1>4 DEF ChangesFail
  <1>5. CASE PodTrouble
    BY <1>5 DEF PodTrouble
  <1>6. CASE CheckQuiet
    <2>1. check' \in Check
      BY <1>6 DEF CheckQuiet, Check, Idle, Source
    <2>. QED  BY <1>6, <2>1 DEF CheckQuiet
  <1>7. CASE ReadSource
    <2>1. check' \in Check
      BY <1>7, NextSourceType, IdleType DEF ReadSource, Check
    <2>. QED  BY <1>7, <2>1 DEF ReadSource
  <1>8. CASE Flag
    <2>1. check' \in Check
      BY <1>8 DEF Flag, Check
    <2>2. UNCHANGED <<now, last, unsettled, trouble>>
      BY <1>8 DEF Flag
    <2>. QED  BY <1>8, <2>1, <2>2, FlagRows DEF RowsOK
  <1>9. CASE Trim
    <2>1. check' \in Check
      BY <1>9, NextSourceType, IdleType DEF Trim
    <2>2. UNCHANGED <<now, last, unsettled, trouble>>
      BY <1>9 DEF Trim
    <2>. QED  BY <1>9, <2>1, <2>2, TrimRows DEF RowsOK
  <1>10. CASE EvaluationFails
    BY <1>10, IdleType DEF EvaluationFails
  <1>11. CASE Restart
    BY <1>11, IdleType DEF Restart
  <1>12. CASE Prune
    <2>1. last' \in [Kind -> SUBSET (0..now)] /\ UNCHANGED <<now, unsettled, trouble, check>>
      BY <1>12 DEF Prune
    <2>. QED  BY <1>12, <2>1, PruneDeletes, DeletionRows DEF Deletion, RowsOK
  <1>13. ASSUME NEW t \in 0..now, DropOldest(t) PROVE TypeOK'
    <2>1. UNCHANGED <<now, last, unsettled, trouble, check>>
      BY <1>13 DEF DropOldest
    <2>. QED  BY <1>13, <2>1, DropDeletes, DeletionRows DEF Deletion, RowsOK
  <1>14. CASE Pass
    <2>1. now' = now + 1 /\ UNCHANGED <<table, last, unsettled, trouble, check>>
      BY <1>14 DEF Pass
    <2>2. \A s \in Source : \A r \in table[s] : r.time \in Nat
      BY DEF Snapshot
    <2>3. 0..now \subseteq 0..(now + 1)
      OBVIOUS
    <2>. QED  BY <2>1, <2>2, <2>3
  <1>15. CASE UNCHANGED vars
    BY <1>15 DEF vars
  <1>. QED  BY <1>1, <1>2, <1>3, <1>4, <1>5, <1>6, <1>7, <1>8, <1>9, <1>10, <1>11, <1>12, <1>13,
               <1>14, <1>15 DEF Next

(***************************************************************************)
(* The checks and the marking.                                             *)
(***************************************************************************)
\* The row that the checks have seen to be ready is the latest one.
LEMMA CheckedAtFirst ==
    ASSUME TypeOK, CheckQuiet
    PROVE  Checked'
  <1>1. PICK l \in table["api"] : l.good /\ \A q \in table["api"] : q.time <= l.time
    BY DEF CheckQuiet, Quiet, Latest
  <1>2. check'.at = now /\ UNCHANGED <<now, table>>
    BY DEF CheckQuiet, Idle
  <1>3. ASSUME NEW r \in table["api"], ~r.good PROVE l.time > r.time
    <2>1. l \in Snapshot /\ r \in Snapshot /\ l.time # r.time
      BY <1>1, <1>3 DEF TypeOK, Source
    <2>. QED  BY <1>1, <2>1 DEF Snapshot
  <1>. QED  BY <1>1, <1>2, <1>3 DEF Checked, TypeOK

\* Deletions do not bring up a row that the checks would have refused.
LEMMA CheckedDeletion ==
    ASSUME TypeOK, Checked, Deletion, UNCHANGED <<now, check>>
    PROVE  Checked'
  <1>1. "api" \in Source
    BY DEF Source
  <1>. QED  BY <1>1 DEF Checked, Deletion

LEMMA StepChecked == ASSUME IInv, [Next]_vars PROVE Checked'
  <1>. USE DEF IInv
  <1>1. ASSUME NEW g \in BOOLEAN, RecordNode(g) PROVE Checked'
    <2>1. now \in 0..now /\ "api" \in Source /\ now \in Nat
      BY DEF Source, TypeOK
    <2>2. UNCHANGED <<now, check>> /\ Put("api", now, g)
      BY <1>1 DEF RecordNode
    <2>3. table'["api"] = table["api"] \cup {[time |-> now, good |-> g, baseline |-> FALSE]}
      BY <2>1, <2>2, PutRows
    <2>4. check.at \in Nat
      BY DEF TypeOK, Check
    <2>. QED  BY <2>1, <2>2, <2>3, <2>4 DEF Checked
  <1>2. ASSUME NEW g \in BOOLEAN, NEW t \in 0..now, AgentSnapshot(t, g) PROVE Checked'
    <2>1. "agent" \in Source /\ "api" \in Source \ {"agent"}
      BY DEF Source
    <2>2. UNCHANGED <<now, check>> /\ Put("agent", t, g)
      BY <1>2 DEF AgentSnapshot
    <2>3. table'["api"] = table["api"]
      BY <2>1, <2>2, PutRows
    <2>. QED  BY <2>2, <2>3 DEF Checked
  <1>3. CASE CheckQuiet
    BY <1>3, CheckedAtFirst
  <1>4. CASE ReadSource
    <2>1. CASE check' = [check EXCEPT !.step = "flag"]
      BY <1>4, <2>1 DEF ReadSource, Checked, TypeOK, Check
    <2>2. CASE NextSource
      BY <1>4, <2>2, NextSourceType DEF ReadSource, Checked, TypeOK
    <2>. QED  BY <1>4, <2>1, <2>2 DEF ReadSource
  <1>5. CASE Flag
    BY <1>5 DEF Flag, Checked, TypeOK, Check
  <1>6. CASE Trim
    BY <1>6, NextSourceType DEF Trim, Checked, TypeOK
  <1>7. CASE EvaluationFails \/ Restart
    BY <1>7, IdleType DEF EvaluationFails, Restart, Checked, TypeOK
  <1>8. CASE Prune
    BY <1>8, PruneDeletes, CheckedDeletion DEF Prune
  <1>9. ASSUME NEW t \in 0..now, DropOldest(t) PROVE Checked'
    BY <1>9, DropDeletes, CheckedDeletion DEF DropOldest
  <1>10. CASE Pass
    <2>1. now' = now + 1 /\ UNCHANGED <<table, check>>
      BY <1>10 DEF Pass
    <2>2. now \in Nat /\ check.at \in Nat
      BY DEF TypeOK, Check
    <2>. QED  BY <2>1, <2>2 DEF Checked
  <1>11. ASSUME UNCHANGED <<now, table, check>> PROVE Checked'
    BY <1>11 DEF Checked
  <1>. QED  BY <1>1, <1>2, <1>3, <1>4, <1>5, <1>6, <1>7, <1>8, <1>9, <1>10, <1>11
            DEF Next, PutChanges, ChangesFail, PodTrouble, vars

LEMMA StepIInv == ASSUME IInv, [Next]_vars PROVE IInv'
  BY StepTypes, StepChecked DEF IInv

\* Snapshots of one source keep times of their own, changes and checks their
\* shape, whatever the recorders, the evaluator and the maintenance do.
THEOREM TypeCorrect == Spec => []TypeOK
  <1>1. IInv => TypeOK
    BY DEF IInv
  <1>. QED  BY <1>1, InitIInv, StepIInv, PTL DEF Spec

(***************************************************************************)
(* Which baselines stay.                                                   *)
(***************************************************************************)
LEMMA BaselinesAre ==
    ASSUME TypeOK, NEW s \in Source
    PROVE  /\ Baselines(s) \in SUBSET Nat
           /\ IsFiniteSet(Baselines(s))
           /\ NewestBaselines(s) = Top(Baselines(s), Keep)
  <1>1. Baselines(s) = BaselineTimes(table[s])
    BY DEF Baselines, BaselineTimes
  <1>2. NewestBaselines(s) = Top(Baselines(s), Keep)
    BY DEF NewestBaselines, Top, Above
  <1>. QED  BY <1>1, <1>2, TypeRows, BaselineTimesFacts DEF TypeOK

\* Trim leaves the newest Keep.
LEMMA TrimLeavesTop ==
    ASSUME TypeOK, Trim, NEW s \in Source, s = check.source
    PROVE  Baselines(s)' = Top(Baselines(s), Keep)
  <1>1. /\ table'[s] = {[r EXCEPT !.baseline = @ /\ r.time \in NewestBaselines(s)] : r \in table[s]}
        /\ \A r \in table[s] : r \in Snapshot
    BY TrimRows, TypeRows DEF RowsOK
  <1>2. NewestBaselines(s) \subseteq Baselines(s)
    BY DEF NewestBaselines
  <1>3. Baselines(s)' = NewestBaselines(s)
    <2>1. ASSUME NEW t \in Baselines(s)' PROVE t \in NewestBaselines(s)
      <3>1. PICK q \in table'[s] : q.baseline /\ q.time = t
        BY <2>1 DEF Baselines
      <3>2. PICK r \in table[s] : q = [r EXCEPT !.baseline = @ /\ r.time \in NewestBaselines(s)]
        BY <1>1
      <3>. QED  BY <1>1, <3>1, <3>2 DEF Snapshot
    <2>2. ASSUME NEW t \in NewestBaselines(s) PROVE t \in Baselines(s)'
      <3>1. PICK r \in table[s] : r.baseline /\ r.time = t
        BY <1>2, <2>2 DEF Baselines
      <3>. DEFINE q == [r EXCEPT !.baseline = @ /\ r.time \in NewestBaselines(s)]
      <3>2. q \in table'[s] /\ q.time = t /\ q.baseline
        BY <1>1, <2>2, <3>1 DEF Snapshot
      <3>. QED  BY <3>2 DEF Baselines
    <2>. QED  BY <2>1, <2>2
  <1>. QED  BY <1>3, BaselinesAre

\* No other step takes a baseline away.
LEMMA OthersKeep ==
    ASSUME TypeOK, [Next]_vars, NEW s \in Source, ~(Trim /\ s = check.source)
    PROVE  Baselines(s) \subseteq Baselines(s)'
  <1>1. ASSUME \A r \in table[s] : r.baseline => r \in table'[s]
        PROVE  Baselines(s) \subseteq Baselines(s)'
    BY <1>1 DEF Baselines
  <1>2. ASSUME NEW x \in Source, NEW t \in 0..now, NEW g \in BOOLEAN, Put(x, t, g)
        PROVE  Baselines(s) \subseteq Baselines(s)'
    BY <1>1, <1>2, PutRows
  <1>3. ASSUME NEW g \in BOOLEAN, RecordNode(g) PROVE Baselines(s) \subseteq Baselines(s)'
    BY <1>2, <1>3 DEF RecordNode, Source, TypeOK
  <1>4. ASSUME NEW g \in BOOLEAN, NEW t \in 0..now, AgentSnapshot(t, g)
        PROVE  Baselines(s) \subseteq Baselines(s)'
    BY <1>2, <1>4 DEF AgentSnapshot, Source
  <1>5. CASE Flag
    <2>1. CASE s # check.source
      BY <1>1, <1>5, <2>1, FlagRows
    <2>2. CASE s = check.source
      <3>1. \A r \in table[s] : r \in Snapshot
        BY TypeRows DEF RowsOK
      <3>2. ASSUME NEW r \in table[s], r.baseline
            PROVE  [r EXCEPT !.baseline = @ \/ r \in Latest(s)] = r
        BY <3>1, <3>2 DEF Snapshot
      <3>. QED  BY <1>1, <1>5, <2>2, <3>2, FlagRows
    <2>. QED  BY <2>1, <2>2
  <1>6. CASE Trim
    BY <1>1, <1>6, TrimRows
  <1>7. CASE Prune
    BY <1>1, <1>7, PruneDeletes DEF Deletion
  <1>8. ASSUME NEW t \in 0..now, DropOldest(t) PROVE Baselines(s) \subseteq Baselines(s)'
    BY <1>1, <1>8, DropDeletes DEF Deletion
  <1>9. ASSUME UNCHANGED table PROVE Baselines(s) \subseteq Baselines(s)'
    BY <1>1, <1>9
  <1>. QED  BY <1>3, <1>4, <1>5, <1>6, <1>7, <1>8, <1>9
            DEF Next, PutChanges, ChangesFail, PodTrouble, CheckQuiet, ReadSource,
                EvaluationFails, Restart, Pass, vars

LEMMA StepKeeps ==
    ASSUME TypeOK, [Next]_vars, NEW s \in Source, NEW b \in Baselines(s) \ Baselines(s)'
    PROVE  Cardinality({t \in Baselines(s)' : t > b}) >= Keep
  <1>1. Trim /\ s = check.source
    BY OthersKeep
  <1>2. Baselines(s)' = Top(Baselines(s), Keep)
    BY <1>1, TrimLeavesTop
  <1>3. Cardinality(Above(Top(Baselines(s), Keep), b)) >= Keep
    BY <1>2, BaselinesAre, TopKept, BaselineAssumption
  <1>. QED  BY <1>2, <1>3 DEF Above

\* A baseline disappears only while Keep newer ones stay, whatever pruning, the
\* size cap, a marking or an interruption of one does.
THEOREM NewestStay == Spec => NewestKept
  <1>1. TypeOK /\ [Next]_vars
            => [\A s \in Source : \A b \in Baselines(s) \ Baselines(s)' :
                    Cardinality({t \in Baselines(s)' : t > b}) >= Keep]_vars
    BY StepKeeps
  <1>. QED  BY <1>1, TypeCorrect, PTL DEF Spec, NewestKept

\* The reference of recorderctl diff and status never goes back in time: from
\* the first marking on each source has a baseline, and the newest one is only
\* ever replaced by a newer one.
THEOREM ReferenceStays ==
    Spec => [][\A s \in Source : \A b \in Baselines(s) : \E t \in Baselines(s)' : t >= b]_vars
  <1>1. ASSUME TypeOK, TypeOK', [Next]_vars, NEW s \in Source, NEW b \in Baselines(s)
        PROVE  \E t \in Baselines(s)' : t >= b
    <2>1. CASE b \in Baselines(s)'
      BY <1>1, <2>1, BaselinesAre
    <2>2. CASE b \notin Baselines(s)'
      <3>1. Cardinality({t \in Baselines(s)' : t > b}) >= Keep
        BY <1>1, <2>2, StepKeeps
      <3>2. PICK t \in Baselines(s)' : t > b
        BY <3>1, FS_EmptySet, BaselineAssumption
      <3>3. t \in Nat /\ b \in Nat
        BY <1>1 DEF Baselines, TypeOK, Snapshot
      <3>. QED  BY <3>2, <3>3
    <2>. QED  BY <2>1, <2>2
  <1>2. TypeOK /\ TypeOK' /\ [Next]_vars
            => [\A s \in Source : \A b \in Baselines(s) : \E t \in Baselines(s)' : t >= b]_vars
    BY <1>1
  <1>. QED  BY <1>2, TypeCorrect, PTL DEF Spec

\* However many markings were cut off after their first statement, the next one
\* that completes leaves Keep baselines at most.
THEOREM MarkingsCatchUp ==
    Spec => [][Trim => \A s \in Source :
                s = check.source => Cardinality(Baselines(s)') <= Keep]_vars
  <1>1. ASSUME TypeOK, Trim, NEW s \in Source, s = check.source
        PROVE  Cardinality(Baselines(s)') <= Keep
    BY <1>1, TrimLeavesTop, BaselinesAre, TopFew, BaselineAssumption
  <1>2. TypeOK => [Trim => \A s \in Source :
                s = check.source => Cardinality(Baselines(s)') <= Keep]_vars
    BY <1>1
  <1>. QED  BY <1>2, TypeCorrect, PTL DEF Spec

(***************************************************************************)
(* What is marked.                                                         *)
(***************************************************************************)
LEMMA StepReady ==
    ASSUME IInv, [Next]_vars, NEW r \in table["api"],
           ~r.baseline, [r EXCEPT !.baseline = TRUE] \in table'["api"], r.time < check.at
    PROVE  r.good
  <1>. DEFINE api == "api"
              marked == [r EXCEPT !.baseline = TRUE]
  <1>1. api \in Source /\ TypeOK /\ Checked
    BY DEF IInv, Source
  <1>2. /\ \A q \in table[api] : q \in Snapshot /\ (q.time = r.time => q = r)
        /\ marked \in Snapshot /\ marked.time = r.time /\ marked.baseline
    <2>1. \A q \in table[api] : q \in Snapshot /\ (q.time = r.time => q = r)
      BY <1>1, TypeRows DEF RowsOK
    <2>. QED  BY <2>1 DEF Snapshot
  <1>3. marked \notin table[api]
    BY <1>2
  <1>4. ASSUME NEW x \in Source, NEW t \in 0..now, NEW g \in BOOLEAN, Put(x, t, g)
        PROVE  FALSE
    <2>1. /\ \A y \in Source \ {x} : table'[y] = table[y]
          /\ table'[x] = table[x] \cup {[time |-> t, good |-> g, baseline |-> FALSE]}
      BY <1>1, <1>4, PutRows
    <2>. QED  BY <1>1, <1>2, <1>3, <2>1
  <1>5. ASSUME NEW g \in BOOLEAN, RecordNode(g) PROVE FALSE
    BY <1>1, <1>4, <1>5 DEF RecordNode, TypeOK
  <1>6. ASSUME NEW g \in BOOLEAN, NEW t \in 0..now, AgentSnapshot(t, g) PROVE FALSE
    BY <1>4, <1>6 DEF AgentSnapshot, Source
  <1>7. CASE Flag
    <2>1. check.source = api
      BY <1>1, <1>3, <1>7, FlagRows
    <2>2. table'[api] = {[q EXCEPT !.baseline = @ \/ q \in Latest(api)] : q \in table[api]}
      BY <1>1, <1>7, <2>1, FlagRows
    <2>3. PICK q \in table[api] : marked = [q EXCEPT !.baseline = @ \/ q \in Latest(api)]
      BY <2>2
    <2>4. q = r
      BY <1>2, <2>3 DEF Snapshot
    <2>5. r \in Latest(api)
      BY <1>2, <2>3, <2>4 DEF Snapshot
    <2>6. \A u \in table[api] : ~(u.time > r.time)
      BY <1>2, <2>5 DEF Latest, Snapshot
    <2>. QED  BY <1>1, <1>2, <1>7, <2>1, <2>6 DEF Checked, Flag
  <1>8. CASE Trim
    <2>1. check.source = api
      BY <1>1, <1>3, <1>8, TrimRows
    <2>2. table'[api] =
            {[q EXCEPT !.baseline = @ /\ q.time \in NewestBaselines(api)] : q \in table[api]}
      BY <1>1, <1>8, <2>1, TrimRows
    <2>3. PICK q \in table[api] :
            marked = [q EXCEPT !.baseline = @ /\ q.time \in NewestBaselines(api)]
      BY <2>2
    <2>. QED  BY <1>2, <2>3 DEF Snapshot
  <1>9. ASSUME Deletion PROVE FALSE
    BY <1>1, <1>3, <1>9 DEF Deletion
  <1>10. ASSUME UNCHANGED table PROVE FALSE
    BY <1>3, <1>10
  <1>. QED  BY <1>1, <1>5, <1>6, <1>7, <1>8, <1>9, <1>10, PruneDeletes, DropDeletes
            DEF Next, PutChanges, ChangesFail, PodTrouble, CheckQuiet, ReadSource,
                EvaluationFails, Restart, Pass, vars

\* An api snapshot that is marked shows the node ready or came after the checks.
THEOREM MarkedAreReady == Spec => ReadyWhenMarked
  <1>1. IInv /\ [Next]_vars
            => [\A r \in table["api"] :
                    ~r.baseline /\ [r EXCEPT !.baseline = TRUE] \in table'["api"]
                        /\ r.time < check.at => r.good]_vars
    BY StepReady
  <1>. QED  BY <1>1, InitIInv, StepIInv, PTL DEF Spec, ReadyWhenMarked
=============================================================================
