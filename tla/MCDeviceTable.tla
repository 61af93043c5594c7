--------------------------- MODULE MCDeviceTable ---------------------------
(* TLC instances of DeviceTable. *)
EXTENDS DeviceTable, TLC

CONSTANTS i1, i2, p, q, s, u

TwoInstances == {i1, i2}
TwoProducts == {p, q}
TwoSpecs == {s, u}

Symmetry == Permutations(Instances) \cup Permutations(Specs) \cup Permutations(Products)
=============================================================================
