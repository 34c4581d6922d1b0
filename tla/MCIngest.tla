------------------------------ MODULE MCIngest ------------------------------
(***************************************************************************)
(* Constants for checking Ingest: one field that can be present with two   *)
(* values or absent, two drivers, and one reading that is too large for    *)
(* the handler to decode.                                                  *)
(***************************************************************************)
EXTENDS Ingest, TLC

CONSTANTS k, s1, s2

MCKeys == {k}
MCValues == {"v1", "v2"}
MCDrivers == {"flannel", "generic"}

Read(d, f) == [driver |-> d, fields |-> [x \in MCKeys |-> f]]

MCOversize == {Read("generic", Unknown)}

MCReadings ==
    {Read("flannel", Present("v1")), Read("flannel", Absent), Read("generic", Present("v2"))}
    \cup MCOversize

OneSlot == {s1}
TwoSlots == {s1, s2}

\* Slots are told apart by what is in them only.
MCSymmetry == Permutations(TwoSlots)
=============================================================================
