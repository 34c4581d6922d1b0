---------------------------- MODULE MCNodeRecord ----------------------------
(* Constants for checking NodeRecord: a condition that may be missing and a *)
(* string, which between them give every kind of change.                    *)
EXTENDS NodeRecord

MCKeys == {"node.ready", "node.boot_id"}
MCValues == {"True", "False", "b1", "b2"}
MCDrivers == {""}

Object(ready, boot) == [k \in MCKeys |-> IF k = "node.ready" THEN ready ELSE boot]

MCObjects == {Object("True", "b1"), Object("False", "b1"), Object(Nil, "b2")}

Forward == {1}
=============================================================================
