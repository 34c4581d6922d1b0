--------------------------- MODULE AgentSnapshot ---------------------------
(***************************************************************************)
(* The agent's Snapshot as a whole: the driver's fields and the host's in  *)
(* one sample (internal/agent/agent.go).                                   *)
(***************************************************************************)
EXTENDS NodeSampling, HostFacts

SnapshotInit == Init /\ HostInit

\* Snapshot: what the links and the host show at the time of one tick.
Snapshot(due) == Sample(due) /\ HostSample

SnapshotNext ==
    \/ \E due \in BOOLEAN : Snapshot(due)
    \/ (Reconfigure \/ Restart) /\ UNCHANGED hostVars
    \/ (ProcessesChange \/ ClockIsSet) /\ UNCHANGED vars

\* The ticker fires, and RedetectEvery passes.
SnapshotSpec ==
    /\ SnapshotInit /\ [][SnapshotNext]_<<vars, hostVars>>
    /\ WF_<<vars, hostVars>>(Snapshot(TRUE))

(***************************************************************************)
(* Properties.                                                             *)
(***************************************************************************)
\* The variables keep their types.
SnapshotTypeOK == TypeOK /\ HostTypeOK
=============================================================================
