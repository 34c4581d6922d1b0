-------------------------------- MODULE Cni --------------------------------
(***************************************************************************)
(* The CNI drivers (internal/cni): how one is chosen for a node, which     *)
(* mode it infers from the node's links, and what it reports for each      *)
(* generic key.  Pure operators; a field is reduced to its state.          *)
(*                                                                         *)
(* A view is one successful netlink read: the links there are, which of    *)
(* them have an IPv4 address, and which VXLAN devices a local address.     *)
(* Its default route leads through eth0 if there is such a link.  A context is what detection goes by: the drivers *)
(* named by the CNI configuration and by DaemonSets, and the links.        *)
(***************************************************************************)
EXTENDS Naturals, Sequences, FiniteSets

Driver == {"flannel", "calico", "cilium", "generic"}

\* Order breaks ties; generic is last.
Registry == <<"flannel", "calico", "cilium", "generic">>

Link == {"cni0", "flannel.1", "vxlan.calico", "tunl0", "cilium_host", "cilium_vxlan",
         "cilium_geneve", "eth0"}

\* The links that the kernel reports as VXLAN devices.
Vxlan == {"flannel.1", "vxlan.calico", "cilium_vxlan"}

BridgeKeys  == {"pod_bridge"} \X {"", "ipv4", "mtu", "state"}
OverlayKeys == {"overlay_tunnel"} \X {"", "ipv4", "mtu", "state", "vni", "local_addr"}
Neighbours  == <<"neighbour_table", "">>
Routes      == <<"pod_cidr_routes", "">>
PrimaryNIC  == {"primary_nic"} \X {"state", "carrier"}
Interfaces  == <<"interfaces", "">>

Keys == BridgeKeys \cup OverlayKeys \cup PrimaryNIC \cup {Neighbours, Routes, Interfaces}

(***************************************************************************)
(* Detection.                                                              *)
(***************************************************************************)
\* The interfaces that hint at a driver.
Hinted(d, links) ==
    \/ d = "flannel" /\ links \cap {"flannel.1", "cni0"} # {}
    \/ d = "calico" /\ links \cap {"vxlan.calico", "tunl0"} # {} /\ "cni0" \notin links
    \/ d = "cilium" /\ "cilium_host" \in links

Capped(n) == IF n > 100 THEN 100 ELSE n

\* Mutant: a DaemonSet counts for as much as the configuration.
ScoreAlike(d, ctx) ==
    IF d = "generic" THEN 1
    ELSE Capped((IF d \in ctx.config THEN 40 ELSE 0) + (IF d \in ctx.daemonsets THEN 40 ELSE 0)
                + (IF Hinted(d, ctx.links) THEN 20 ELSE 0))

\* Detect and score.
Score(d, ctx) ==
    IF d = "generic" THEN 1
    ELSE Capped((IF d \in ctx.config THEN 70 ELSE 0) + (IF d \in ctx.daemonsets THEN 40 ELSE 0)
                + (IF Hinted(d, ctx.links) THEN 20 ELSE 0))

\* Choose, with no driver forced: the highest score, the earliest of equals.
Choose(ctx) ==
    Registry[CHOOSE i \in 1..Len(Registry) : \E s \in {Score(Registry[i], ctx)} :
                /\ \A j \in 1..(i - 1) : Score(Registry[j], ctx) < s
                /\ \A j \in (i + 1)..Len(Registry) : Score(Registry[j], ctx) <= s]

(***************************************************************************)
(* Topology and Sample.                                                    *)
(***************************************************************************)
\* The mode a driver infers when it first sees the links.
Inferred(d, v) ==
    CASE d = "flannel" -> IF "flannel.1" \in v.links THEN "vxlan" ELSE "host-gw"
      [] d = "calico"  -> IF "vxlan.calico" \in v.links THEN "vxlan"
                          ELSE IF "tunl0" \in v.addressed THEN "ipip" ELSE "routing"
      [] d = "cilium"  -> IF "cilium_vxlan" \in v.links THEN "vxlan"
                          ELSE IF "cilium_geneve" \in v.links THEN "geneve" ELSE "native"
      [] d = "generic" -> "unknown"

Mode == {"vxlan", "host-gw", "ipip", "routing", "geneve", "native", "unknown"}

Unpinned == ""

\* Mutant: the mode follows the links.
PinnedNever(d, mode, v) == Inferred(d, v)

\* Topology's mode: inferred once, then pinned (Generic has none to pin).
Pinned(d, mode, v) == IF mode = Unpinned THEN Inferred(d, v) ELSE mode

\* Each driver's interface for the pod bridge, and its tunnel in each mode.
Bridge(d) ==
    CASE d = "flannel" -> "cni0" [] d = "cilium" -> "cilium_host" [] OTHER -> "none"

Tunnel(d, mode) ==
    CASE d = "flannel" /\ mode = "vxlan"  -> "flannel.1"
      [] d = "calico"  /\ mode = "vxlan"  -> "vxlan.calico"
      [] d = "calico"  /\ mode = "ipip"   -> "tunl0"
      [] d = "cilium"  /\ mode = "vxlan"  -> "cilium_vxlan"
      [] d = "cilium"  /\ mode = "geneve" -> "cilium_geneve"
      [] OTHER                            -> "none"

\* Topology.NotApplicable.
NotApplicable(d, mode) ==
    (IF Bridge(d) = "none" THEN BridgeKeys ELSE {})
    \cup (IF Tunnel(d, mode) = "none" THEN OverlayKeys \cup {Neighbours} ELSE {})

Existing(b) == IF b THEN "present" ELSE "absent"

\* linkFields: a missing link is absent, and so is a missing address; only a
\* VXLAN device has a VNI and may have a local address.
LinkField(v, link, suffix) ==
    CASE suffix \in {"vni", "local_addr"} /\ link \in v.links \ Vxlan -> "not_applicable"
      [] suffix = "ipv4"       -> Existing(link \in v.addressed)
      [] suffix = "local_addr" -> Existing(link \in v.local)
      [] OTHER                 -> Existing(link \in v.links)

\* Driver.Sample; cidrs tells whether the pod CIDRs are known.
DriverField(d, mode, v, cidrs, k) ==
    CASE k \in BridgeKeys  -> LinkField(v, Bridge(d), k[2])
      [] k \in OverlayKeys -> LinkField(v, Tunnel(d, mode), k[2])
      [] k = Neighbours    -> Existing(Tunnel(d, mode) \in v.links)
      [] k = Routes        -> IF cidrs THEN "present" ELSE "unknown"
      [] k \in PrimaryNIC  -> Existing("eth0" \in v.links)
      [] k = Interfaces    -> "present"

\* Mutant: what does not apply is left out.
FieldsThatApply(d, mode, v, cidrs) ==
    [k \in Keys \ NotApplicable(d, mode) |-> DriverField(d, mode, v, cidrs, k)]

\* Sample on a view that was read: every generic key is present.
Fields(d, mode, v, cidrs) ==
    LET na == NotApplicable(d, mode)
    IN  [k \in Keys |-> IF k \in na THEN "not_applicable" ELSE DriverField(d, mode, v, cidrs, k)]

\* Sample when netlink could not be read.
NoFields == [k \in Keys |-> "unknown"]
=============================================================================
