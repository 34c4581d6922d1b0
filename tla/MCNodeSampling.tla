--------------------------- MODULE MCNodeSampling ---------------------------
(* What a read may see: each CNI whole, without its tunnel, and without     *)
(* anything; and links without an address, next to another CNI's leftovers. *)
EXTENDS AgentSnapshot

Read(links, bare) ==
    [links |-> links, addressed |-> links \ bare, local |-> (links \cap Vxlan) \ bare]

MCViews ==
    {Read({}, {}), Read({"cni0", "eth0"}, {}), Read({"cni0", "flannel.1"}, {"cni0"}),
     Read({"vxlan.calico"}, {"vxlan.calico"}), Read({"tunl0"}, {}),
     Read({"cni0", "tunl0"}, {"tunl0"}),
     Read({"cilium_host"}, {}), Read({"cilium_host", "cilium_vxlan"}, {})}

\* Flannel with its tunnel, then Calico in its place, then Flannel without one.
MCLiveChange ==
    {Read({"cni0", "flannel.1"}, {}), Read({"vxlan.calico"}, {}), Read({"cni0"}, {})}
=============================================================================
