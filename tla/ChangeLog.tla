----------------------------- MODULE ChangeLog -----------------------------
(***************************************************************************)
(* What the recorder promises of one source on one node, abstractly:       *)
(* snapshots are recorded in the order of their times, each one together   *)
(* with the changes it brings against the one before it, in one step.      *)
(***************************************************************************)
EXTENDS Snapshots

VARIABLES
    latest,     \* the snapshot recorded last
    log         \* the change records so far

Init ==
    /\ latest = NoSnapshot
    /\ log = {}

\* The next snapshot and its changes.
Record ==
    /\ latest' \in Snapshot
    /\ latest = NoSnapshot \/ latest.time < latest'.time
    /\ log' = log \cup ChangesBetween(latest, latest')

Spec == Init /\ [][Record]_<<latest, log>>
=============================================================================
