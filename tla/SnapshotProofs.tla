------------------------- MODULE SnapshotProofs -------------------------
(***************************************************************************)
(* Proofs about an agent's samples, for any views, configurations,         *)
(* DaemonSets and POD_CIDR, and any processes and boot times of the host.  *)
(***************************************************************************)
EXTENDS AgentSnapshot, FiniteSetTheorems, TLAPS

\* A driver with a tunnel has pinned its mode: only pinned modes have one.
LEMMA TunnelIsPinned ==
    ASSUME NEW d, Tunnel(d, Unpinned) # "none"
    PROVE  FALSE
BY DEF Tunnel, Unpinned

\* What a driver with a tunnel reports of the overlay is whether its link is
\* there, never that it does not apply (Sample, linkFields).
LEMMA TunnelReported ==
    ASSUME NEW d, NEW m, NEW v, NEW cidrs, Tunnel(d, m) # "none"
    PROVE  Fields(d, m, v, cidrs)[Overlay] \in {"present", "absent"}
<1>1. Overlay \in OverlayKeys /\ Overlay \in Keys /\ Overlay \notin BridgeKeys
  BY DEF Overlay, OverlayKeys, Keys, BridgeKeys
<1>2. Overlay \notin NotApplicable(d, m)
  BY <1>1 DEF NotApplicable
<1>3. DriverField(d, m, v, cidrs, Overlay) = LinkField(v, Tunnel(d, m), "")
  <2>1. Overlay[2] = "" /\ Overlay # Neighbours /\ Overlay # Routes /\ Overlay # Interfaces
    BY DEF Overlay, Neighbours, Routes, Interfaces
  <2>2. Overlay \notin PrimaryNIC
    BY DEF Overlay, PrimaryNIC
  <2> QED
    BY <1>1, <2>1, <2>2 DEF DriverField
<1>4. LinkField(v, Tunnel(d, m), "") \in {"present", "absent"}
  BY DEF LinkField, Existing
<1> QED
  BY <1>1, <1>2, <1>3, <1>4 DEF Fields

\* Inductive: whenever the driver has pinned a mode with a tunnel, the latest
\* sample does not declare the overlay not applicable.
TunnelShows == Tunnel(driver, mode) # "none" => fields[Overlay] # "not_applicable"

LEMMA UnknownShows == NoFields[Overlay] # "not_applicable"
BY DEF NoFields, Keys, OverlayKeys, Overlay

LEMMA NoDriverNoTunnel == Tunnel("none", Unpinned) = "none"
BY DEF Tunnel, Unpinned

LEMMA TunnelShowsInit == Init => TunnelShows
BY NoDriverNoTunnel DEF Init, Start, TunnelShows

LEMMA TunnelShowsNext == TunnelShows /\ [Next]_vars => TunnelShows'
<1>1. ASSUME NEW v, NEW h, NEW due, SampleView(v, h, due)
      PROVE  TunnelShows'
  BY <1>1, TunnelReported DEF SampleView, TunnelShows
<1>2. ASSUME NEW h, NEW due, SampleNothing(h, due)
      PROVE  TunnelShows'
  BY <1>2, UnknownShows DEF SampleNothing, TunnelShows
<1>3. ASSUME TunnelShows, Reconfigure
      PROVE  TunnelShows'
  BY <1>3 DEF Reconfigure, TunnelShows
<1>4. ASSUME Restart
      PROVE  TunnelShows'
  BY <1>4, NoDriverNoTunnel DEF Restart, TunnelShows
<1>5. ASSUME TunnelShows, UNCHANGED vars
      PROVE  TunnelShows'
  BY <1>5 DEF vars, TunnelShows
<1> QED
  BY <1>1, <1>2, <1>3, <1>4, <1>5 DEF Next, Sample

\* A driver that stays keeps the mode it has pinned.
LEMMA ModeStays ==
    ASSUME [Next]_vars, driver' = driver, mode # Unpinned, driver # "none"
    PROVE  mode' = mode
<1>1. ASSUME NEW v, NEW h, NEW due, SampleView(v, h, due)
      PROVE  mode' = mode
  BY <1>1 DEF SampleView, Pinned, ModeBefore
<1>2. ASSUME NEW h, NEW due, SampleNothing(h, due)
      PROVE  mode' = mode
  BY <1>2 DEF SampleNothing, ModeBefore
<1> QED
  BY <1>1, <1>2 DEF Next, Sample, Reconfigure, Restart, vars

(***************************************************************************)
(* Types.                                                                  *)
(***************************************************************************)
State == {"present", "absent", "not_applicable", "unknown"}

\* Every sample has all generic keys, whatever the links.
LEMMA FieldsType ==
    ASSUME NEW d, NEW m, NEW v, NEW cidrs
    PROVE  Fields(d, m, v, cidrs) \in [Keys -> State]
<1>1. ASSUME NEW link, NEW suffix
      PROVE  LinkField(v, link, suffix) \in State
  BY DEF LinkField, Existing, State
<1>2. ASSUME NEW k \in Keys
      PROVE  DriverField(d, m, v, cidrs, k) \in State
  BY <1>1 DEF Keys, DriverField, Existing, State
<1> QED
  BY <1>2 DEF Fields, State

LEMMA RegistryFacts ==
    /\ Len(Registry) = 4
    /\ \A i \in 1..4 : Registry[i] \in Driver
    /\ \A d \in Driver : \E i \in 1..4 : Registry[i] = d
    /\ \A i, j \in 1..4 : Registry[i] = Registry[j] => i = j
BY DEF Registry, Driver

LEMMA ScoreType == ASSUME NEW d, NEW ctx PROVE Score(d, ctx) \in 0..100
BY DEF Score, Capped

LEMMA ScoreInt == ASSUME NEW d, NEW ctx PROVE Score(d, ctx) \in Int
BY ScoreType

LEMMA FourOrdered ==
    ASSUME NEW a \in Int, NEW b \in Int, NEW c \in Int, NEW d \in Int
    PROVE  \/ a >= b /\ a >= c /\ a >= d
           \/ b > a /\ b >= c /\ b >= d
           \/ c > a /\ c > b /\ c >= d
           \/ d > a /\ d > b /\ d > c
OBVIOUS

\* Among four scores there is an earliest highest one.
LEMMA Best ==
    ASSUME NEW f \in [1..4 -> Int]
    PROVE  \E i \in 1..4 : \A j \in 1..4 : f[i] > f[j] \/ (f[i] = f[j] /\ i <= j)
<1>1. f[1] \in Int /\ f[2] \in Int /\ f[3] \in Int /\ f[4] \in Int
  OBVIOUS
<1>2. 1..4 = {1, 2, 3, 4}
  OBVIOUS
<1>3. CASE f[1] >= f[2] /\ f[1] >= f[3] /\ f[1] >= f[4]
  BY <1>1, <1>2, <1>3
<1>4. CASE f[2] > f[1] /\ f[2] >= f[3] /\ f[2] >= f[4]
  BY <1>1, <1>2, <1>4
<1>5. CASE f[3] > f[1] /\ f[3] > f[2] /\ f[3] >= f[4]
  BY <1>1, <1>2, <1>5
<1>6. CASE f[4] > f[1] /\ f[4] > f[2] /\ f[4] > f[3]
  BY <1>1, <1>2, <1>6
<1>7. \/ f[1] >= f[2] /\ f[1] >= f[3] /\ f[1] >= f[4]
      \/ f[2] > f[1] /\ f[2] >= f[3] /\ f[2] >= f[4]
      \/ f[3] > f[1] /\ f[3] > f[2] /\ f[3] >= f[4]
      \/ f[4] > f[1] /\ f[4] > f[2] /\ f[4] > f[3]
  BY <1>1, FourOrdered, Zenon
<1> QED
  BY <1>3, <1>4, <1>5, <1>6, <1>7

\* Choose takes a driver that no other one beats.
LEMMA ChooseFacts ==
    ASSUME NEW ctx
    PROVE  /\ Choose(ctx) \in Driver
           /\ \A d \in Driver : Score(Choose(ctx), ctx) >= Score(d, ctx)
<1> DEFINE Wins(i) == \E s \in {Score(Registry[i], ctx)} :
                        /\ \A j \in 1..(i - 1) : Score(Registry[j], ctx) < s
                        /\ \A j \in (i + 1)..Len(Registry) : Score(Registry[j], ctx) <= s
<1> DEFINE best == CHOOSE i \in 1..Len(Registry) : Wins(i)
<1> DEFINE f == [i \in 1..4 |-> Score(Registry[i], ctx)]
<1>1. f \in [1..4 -> Int]
  BY ScoreInt
<1>2. PICK i \in 1..4 : \A j \in 1..4 : f[i] > f[j] \/ (f[i] = f[j] /\ i <= j)
  BY <1>1, Best
<1>3. Wins(i)
  <2>1. ASSUME NEW j \in 1..(i - 1)  PROVE j \in 1..4 /\ f[j] < f[i]
    BY <1>1, <1>2
  <2>2. ASSUME NEW j \in (i + 1)..4  PROVE j \in 1..4 /\ f[j] <= f[i]
    BY <1>1, <1>2
  <2>3. \A j \in 1..(i - 1) : Score(Registry[j], ctx) < Score(Registry[i], ctx)
    BY <2>1
  <2>4. \A j \in (i + 1)..Len(Registry) : Score(Registry[j], ctx) <= Score(Registry[i], ctx)
    BY <2>2, RegistryFacts
  <2>. QED  BY <2>3, <2>4
<1>4. best \in 1..4 /\ Wins(best)
  BY <1>3, RegistryFacts
<1>5. Choose(ctx) = Registry[best]
  BY DEF Choose
<1>6. ASSUME NEW d \in Driver
      PROVE  Score(Registry[best], ctx) >= Score(d, ctx)
  <2>1. PICK j \in 1..4 : Registry[j] = d
    BY RegistryFacts
  <2>. HIDE DEF best
  <2>2. j \in 1..(best - 1) \/ j = best \/ j \in (best + 1)..Len(Registry)
    BY <1>4, RegistryFacts
  <2>3. Score(Registry[best], ctx) \in Int /\ Score(Registry[j], ctx) \in Int
    BY ScoreInt
  <2>4. Score(Registry[j], ctx) <= Score(Registry[best], ctx)
    BY <1>4, <2>2, <2>3
  <2> QED
    BY <2>1, <2>4, <2>3
<1> QED
  BY <1>4, <1>5, <1>6, RegistryFacts

LEMMA HintsType == ASSUME TypeOK PROVE Answers \subseteq Hints
BY DEF TypeOK, Answers

LEMMA ModeType ==
    ASSUME TypeOK, NEW d \in Driver, NEW v
    PROVE  Pinned(d, ModeBefore(d), v) \in Mode
<1>1. Inferred(d, v) \in Mode
  BY DEF Inferred, Mode, Driver
<1> QED
  BY <1>1 DEF Pinned, ModeBefore, TypeOK

LEMMA ChoiceType ==
    ASSUME TypeOK, NEW due, NEW h, NEW v
    PROVE  Choice(due, h, v) \in Driver
BY ChooseFacts DEF Choice, TypeOK

LEMMA TypeInit == Init => TypeOK
BY DEF Init, Start, TypeOK, Hints, NoHints, NoFields, State

LEMMA TypeStep == TypeOK /\ [Next]_vars => TypeOK'
<1> SUFFICES ASSUME TypeOK, [Next]_vars PROVE TypeOK'
  OBVIOUS
<1>1. ASSUME NEW v, NEW h \in Answers, NEW due, SampleView(v, h, due)
      PROVE  TypeOK'
  <2>1. driver' \in Driver
    BY <1>1, ChoiceType DEF SampleView
  <2>2. mode' \in Mode
    BY <1>1, ChoiceType, ModeType DEF SampleView
  <2>3. fields' \in [Keys -> State]
    BY <1>1, FieldsType DEF SampleView
  <2> QED
    BY <1>1, <2>1, <2>2, <2>3, HintsType DEF SampleView, TypeOK, State
<1>2. ASSUME NEW h \in Answers, NEW due, SampleNothing(h, due)
      PROVE  TypeOK'
  <2>1. driver' \in Driver
    BY <1>2, ChoiceType DEF SampleNothing
  <2>2. mode' \in Mode \cup {Unpinned}
    BY <1>2 DEF SampleNothing, ModeBefore, TypeOK
  <2> QED
    BY <1>2, <2>1, <2>2, HintsType DEF SampleNothing, TypeOK, NoFields
<1>3. CASE Reconfigure
  BY <1>3 DEF Reconfigure, TypeOK
<1>4. CASE Restart
  BY <1>4 DEF Restart, TypeOK, Hints, NoHints, NoFields
<1>5. CASE UNCHANGED vars
  BY <1>5 DEF vars, TypeOK
<1> QED
  BY <1>1, <1>2, <1>3, <1>4, <1>5 DEF Next, Sample

(***************************************************************************)
(* Detection.                                                              *)
(***************************************************************************)
\* A driver that the configuration names beats all it does not name, with a
\* DaemonSet and links of theirs.
LEMMA NamedWins ==
    ASSUME NEW ctx, NEW d \in Driver \ {"generic"}, ctx.config = {d}
    PROVE  Choose(ctx) = d
<1>1. Score(d, ctx) >= 70
  BY DEF Score, Capped
<1>2. ASSUME NEW e \in Driver \ {d}
      PROVE  Score(e, ctx) <= 60
  BY DEF Score, Capped
<1>3. Choose(ctx) \in Driver /\ Score(Choose(ctx), ctx) >= Score(d, ctx)
  BY ChooseFacts
<1> QED
  BY <1>1, <1>2, <1>3, ScoreType

LEMMA ConfigNamesOne ==
    ASSUME TypeOK, Cardinality(config) = 1
    PROVE  \E d \in Driver \ {"generic"} : config = {d}
<1>1. IsFiniteSet({"flannel", "calico", "cilium"})
  <2>1. IsFiniteSet({"flannel"})
    BY FS_Singleton
  <2>2. IsFiniteSet({"flannel"} \cup {"calico"})
    BY <2>1, FS_AddElement
  <2>3. IsFiniteSet(({"flannel"} \cup {"calico"}) \cup {"cilium"})
    BY <2>2, FS_AddElement
  <2>4. ({"flannel"} \cup {"calico"}) \cup {"cilium"} = {"flannel", "calico", "cilium"}
    OBVIOUS
  <2> QED
    BY <2>3, <2>4
<1>2. config \in SUBSET {"flannel", "calico", "cilium"}
  BY SamplingAssumption DEF TypeOK, Driver
<1>3. IsFiniteSet(config)
  BY <1>1, <1>2, FS_Subset
<1>4. PICK d : config = {d}
  BY <1>3, FS_Singleton
<1> QED
  BY <1>2, <1>4 DEF Driver

\* A change of driver is the outcome of a detection.
LEMMA ChangeIsDetected ==
    ASSUME TypeOK, [Next]_vars, driver' # driver, driver' # "none", Cardinality(config) = 1
    PROVE  driver' \in config
<1>1. PICK d \in Driver \ {"generic"} : config = {d}
  BY ConfigNamesOne
<1>2. ASSUME NEW h, NEW v
      PROVE  Choose(Context(h, v)) = d
  BY <1>1, NamedWins DEF Context
<1>3. ASSUME NEW h, NEW v, NEW due, Choice(due, h, v) # driver
      PROVE  Choice(due, h, v) = d
  BY <1>2, <1>3 DEF Choice
<1>4. driver' = d
  BY <1>3 DEF Next, Sample, SampleView, SampleNothing, Reconfigure, Restart, vars
<1> QED
  BY <1>1, <1>4

(***************************************************************************)
(* The host.                                                               *)
(***************************************************************************)
LEMMA SomeProcesses ==
    ASSUME NEW pids \in SUBSET Pids, NEW f \in [pids -> Starts]
    PROVE  f \in Processes
BY DEF Processes

LEMMA ProcessFacts ==
    ASSUME NEW f \in Processes
    PROVE  /\ DOMAIN f \subseteq Pids
           /\ f \in [DOMAIN f -> Starts]
BY DEF Processes

\* What a sample tells is unknown, absent, or a start added to the boot time
\* as it is now, or to 0.
LEMMA SampledStart ==
    ASSUME HostTypeOK, NEW seen \in SUBSET DOMAIN running, NEW field \in HostFields(seen)
    PROVE  field \in StartFields
<1>1. btime \in BootTimes /\ \A p \in seen : running[p] \in Starts
  BY ProcessFacts DEF HostTypeOK
<1>2. ASSUME NEW boot \in BootTimes \cup {0}, field \in ProcessStart(boot, seen)
      PROVE  \/ field = NoStart("absent")
             \/ \E t \in Starts : field = StartedAt(boot + t)
  BY <1>1, <1>2 DEF ProcessStart, FirstListed
<1>3. \/ field \in ProcessStart(btime, seen)
      \/ field = NoStart("unknown")
      \/ field \in ProcessStart(0, seen)
  BY DEF HostFields
<1> QED
  BY <1>1, <1>2, <1>3 DEF StartFields

LEMMA HostTypeInit == HostInit => HostTypeOK
<1>1. NoProcess \in Processes
  <2>1. {} \in SUBSET Pids /\ [p \in {} |-> 0] \in [{} -> Starts]
    OBVIOUS
  <2> QED
    BY <2>1, SomeProcesses DEF NoProcess
<1> QED
  BY <1>1 DEF HostInit, HostTypeOK, StartFields

LEMMA HostTypeStep == ASSUME HostTypeOK, [HostNext]_hostVars PROVE HostTypeOK'
<1>1. CASE HostSample
  <2>1. PICK seen \in SUBSET DOMAIN running :
            /\ started' \in HostFields(seen)
            /\ found' = [p \in seen |-> running[p]]
            /\ same' = TRUE
            /\ UNCHANGED <<running, btime>>
    BY <1>1 DEF HostSample
  <2>2. found' \in Processes
    <3>1. seen \in SUBSET Pids /\ [p \in seen |-> running[p]] \in [seen -> Starts]
      BY ProcessFacts DEF HostTypeOK
    <3> QED
      BY <2>1, <3>1, SomeProcesses
  <2> QED
    BY <2>1, <2>2, SampledStart DEF HostTypeOK
<1>2. CASE ProcessesChange
  BY <1>2 DEF HostTypeOK, ProcessesChange
<1>3. CASE ClockIsSet
  BY <1>3 DEF HostTypeOK, ClockIsSet
<1>4. CASE UNCHANGED hostVars
  BY <1>4 DEF HostTypeOK, hostVars
<1> QED
  BY <1>1, <1>2, <1>3, <1>4 DEF HostNext

(***************************************************************************)
(* The results.                                                            *)
(***************************************************************************)
SnapshotInv == TypeOK /\ TunnelShows /\ HostTypeOK

LEMMA SamplingAlone == ASSUME [SnapshotNext]_<<vars, hostVars>> PROVE [Next]_vars
BY DEF SnapshotNext, Snapshot, Next

LEMMA HostAlone ==
    ASSUME [SnapshotNext]_<<vars, hostVars>>
    PROVE  [HostNext]_hostVars
BY DEF SnapshotNext, Snapshot, HostNext

LEMMA SnapshotInvAlways == SnapshotSpec => []SnapshotInv
<1>1. SnapshotInit => SnapshotInv
  BY TypeInit, TunnelShowsInit, HostTypeInit DEF SnapshotInit, SnapshotInv
<1>2. SnapshotInv /\ [SnapshotNext]_<<vars, hostVars>> => SnapshotInv'
  BY TypeStep, TunnelShowsNext, HostTypeStep, SamplingAlone, HostAlone DEF SnapshotInv
<1> QED
  BY <1>1, <1>2, PTL DEF SnapshotSpec

\* The variables keep their types: every sample has all generic keys, and
\* detection always ends with a driver.
THEOREM SnapshotTypes == SnapshotSpec => []SnapshotTypeOK
<1>1. SnapshotInv => SnapshotTypeOK
  BY DEF SnapshotInv, SnapshotTypeOK
<1> QED
  BY <1>1, SnapshotInvAlways, PTL

\* Once a driver instance has pinned a mode with an overlay, no later sample of
\* it declares the overlay not applicable: an overlay that disappears reads as
\* absent, whatever reads fail and whatever detection says in between.
THEOREM OutageStaysVisible == SnapshotSpec => OutageIsAbsent
<1>1. SnapshotInv /\ [SnapshotNext]_<<vars, hostVars>> =>
        [driver' = driver /\ Tunnel(driver, mode) # "none" =>
            fields'[Overlay] # "not_applicable"]_vars
  <2> SUFFICES ASSUME TunnelShows, [Next]_vars, driver' = driver, Tunnel(driver, mode) # "none"
               PROVE  fields'[Overlay] # "not_applicable"
    BY SamplingAlone DEF SnapshotInv
  <2>1. mode # Unpinned /\ driver # "none"
    BY TunnelIsPinned DEF Tunnel
  <2>2. mode' = mode
    BY <2>1, ModeStays
  <2> QED
    BY <2>2, TunnelShowsNext DEF TunnelShows
<1> QED
  BY <1>1, SnapshotInvAlways, PTL DEF SnapshotSpec, OutageIsAbsent

\* The driver that the configuration names is taken, whatever DaemonSets and
\* links other CNIs have left, and whichever detection it is.
THEOREM ConfigIsAuthoritative == SnapshotSpec => ConfigDecides
<1>1. SnapshotInv /\ [SnapshotNext]_<<vars, hostVars>> =>
        [driver' # driver /\ driver' # "none" /\ Cardinality(config) = 1 => driver' \in config]_vars
  BY ChangeIsDetected, SamplingAlone DEF SnapshotInv
<1> QED
  BY <1>1, SnapshotInvAlways, PTL DEF SnapshotSpec, ConfigDecides

\* Progress, why DetectionSettles holds: the next detection takes the driver that
\* the configuration names alone, and no later sample drops it while it does,
\* whatever the hints and links and whichever reads fail.
THEOREM DetectionTakesAndKeeps ==
    SnapshotSpec =>
        [][\A d \in Configs : config = {d} =>
              /\ Snapshot(TRUE) => driver' = d
              /\ driver = d => driver' \in {d, "none"}]_<<vars, hostVars>>
<1>1. ASSUME NEW d \in Configs, config = {d}, NEW due \in BOOLEAN, Sample(due)
      PROVE  due \/ driver = d => driver' = d
  <2>1. d \in Driver \ {"generic"}
    BY SamplingAssumption
  <2>2. PICK h, v : driver' = Choice(due, h, v)
    BY <1>1 DEF Sample, SampleView, SampleNothing
  <2>3. Choose(Context(h, v)) = d
    BY <1>1, <2>1, NamedWins DEF Context
  <2> QED
    BY <2>2, <2>3 DEF Choice
<1>2. ASSUME [SnapshotNext]_<<vars, hostVars>>, NEW d \in Configs, config = {d}
      PROVE  /\ Snapshot(TRUE) => driver' = d
             /\ driver = d => driver' \in {d, "none"}
  BY <1>1, <1>2 DEF SnapshotNext, Snapshot, Reconfigure, Restart, vars
<1>3. [SnapshotNext]_<<vars, hostVars>> =>
        [\A d \in Configs : config = {d} =>
            /\ Snapshot(TRUE) => driver' = d
            /\ driver = d => driver' \in {d, "none"}]_<<vars, hostVars>>
  BY <1>2
<1> QED
  BY <1>3, PTL DEF SnapshotSpec
=============================================================================
