---------------------------- MODULE NodeSampling ----------------------------
(***************************************************************************)
(* One agent's samples over its life (internal/agent/agent.go: Snapshot,   *)
(* refreshHints): the driver it has chosen and the mode that driver has    *)
(* pinned, while the node's links, its CNI configuration and what the      *)
(* collector can tell of the cluster change, and each of the three reads   *)
(* may fail.                                                               *)
(***************************************************************************)
EXTENDS Cni

CONSTANTS
    Views,          \* what a netlink read may see: [links, addressed, local]
    Configs,        \* drivers the CNI configuration may name
    DaemonSets,     \* drivers that may have a DaemonSet in the cluster
    Override        \* POD_CIDR is set

NoView == [links |-> {}, addressed |-> {}, local |-> {}]

ASSUME SamplingAssumption ==
    /\ \A v \in Views : /\ v.links \subseteq Link
                        /\ v.addressed \subseteq v.links
                        /\ v.local \subseteq v.links \cap Vxlan
    /\ Configs \subseteq Driver \ {"generic"} /\ DaemonSets \subseteq Driver \ {"generic"}
    /\ Override \in BOOLEAN

VARIABLES
    config,     \* the drivers /etc/cni/net.d names
    hints,      \* Agent.hints: DaemonSets, and whether pod CIDRs came with them
    driver,     \* Agent.choice.Driver, "none" before the first sample
    mode,       \* the mode that driver instance has pinned
    fields      \* the latest sample

vars == <<config, hints, driver, mode, fields>>

Hints == [daemonsets : SUBSET DaemonSets, cidrs : BOOLEAN]

NoHints == [daemonsets |-> {}, cidrs |-> FALSE]

Overlay == <<"overlay_tunnel", "">>

Start ==
    /\ hints = NoHints
    /\ driver = "none"
    /\ mode = Unpinned
    /\ fields = NoFields

Init == config \in SUBSET Configs /\ Start

\* The collector's answer: an informer cache that is still being filled has any
\* part of what there is.  A failed request keeps the last hints.
Answers == {hints} \cup Hints

Context(h, v) == [config |-> config, daemonsets |-> h.daemonsets, links |-> v.links]

\* Mutant: the driver is chosen once and for all.
ChoiceKept(due, h, v) == IF driver = "none" THEN Choose(Context(h, v)) ELSE driver

\* Detection runs in the first sample, and when RedetectEvery has passed.
Choice(due, h, v) ==
    IF driver = "none" \/ due THEN Choose(Context(h, v)) ELSE driver

\* A driver of another name is a new instance; one of the same name keeps its
\* mode, detected again or not.
ModeBefore(d) == IF d = driver THEN mode ELSE Unpinned

\* Snapshot, with the netlink read succeeding.
SampleView(v, h, due) ==
    LET d == Choice(due, h, v)
        m == Pinned(d, ModeBefore(d), v)
    IN  /\ hints' = h
        /\ driver' = d
        /\ mode' = m
        /\ fields' = Fields(d, m, v, h.cidrs \/ Override)
        /\ UNCHANGED config

\* Snapshot, with the netlink read failing: detection goes without links, and
\* the driver is not asked.
SampleNothing(h, due) ==
    LET d == Choice(due, h, NoView)
    IN  /\ hints' = h
        /\ driver' = d
        /\ mode' = ModeBefore(d)
        /\ fields' = NoFields
        /\ UNCHANGED config

Sample(due) ==
    \E h \in Answers : SampleNothing(h, due) \/ \E v \in Views : SampleView(v, h, due)

Reconfigure ==
    /\ config' \in SUBSET Configs
    /\ config' # config
    /\ UNCHANGED <<hints, driver, mode, fields>>

Restart ==
    /\ driver # "none"
    /\ UNCHANGED config
    /\ hints' = NoHints
    /\ driver' = "none"
    /\ mode' = Unpinned
    /\ fields' = NoFields

Next ==
    \/ \E due \in BOOLEAN : Sample(due)
    \/ Reconfigure
    \/ Restart

Spec == Init /\ [][Next]_vars

(***************************************************************************)
(* Properties.                                                             *)
(***************************************************************************)
\* The variables keep their types: every sample has all generic keys.
TypeOK ==
    /\ config \subseteq Configs
    /\ hints \in Hints
    /\ driver \in Driver \cup {"none"}
    /\ mode \in Mode \cup {Unpinned}
    /\ fields \in [Keys -> {"present", "absent", "not_applicable", "unknown"}]

\* "Once an overlay has been seen, its later disappearance is an outage, not a
\* mode change": a sample that follows one with an overlay, from the same
\* driver, never declares the overlay not applicable, however many failed
\* reads, detections and new hints come in between.
OutageIsAbsent ==
    [][driver' = driver /\ Tunnel(driver, mode) # "none" =>
        fields'[Overlay] # "not_applicable"]_vars

\* "Config is authoritative": when the configuration names one driver,
\* detection takes it, whatever DaemonSets and interfaces other CNIs have left.
ConfigDecides ==
    [][driver' # driver /\ driver' # "none" /\ Cardinality(config) = 1 => driver' \in config]_vars

\* "Flannel backend, Calico mode and Cilium mode are inferred from interfaces [...]
\* and pinned for the agent's lifetime": a mode that a driver has pinned is the
\* only one it samples with until the agent restarts, if it ever does.
PinnedForLife ==
    \A d \in Driver, m \in Mode :
        [](driver = d /\ mode = m =>
            <>(driver = "none") \/ [](driver = d => mode \in {m, Unpinned}))

\* A driver chosen while the configuration, the hints or the links could not be
\* read is corrected: once the configuration names one driver for good, that
\* driver samples.
DetectionSettles ==
    \A d \in Configs : <>[](config = {d}) => []<>(driver = d)
=============================================================================
