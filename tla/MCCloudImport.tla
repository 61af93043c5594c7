--------------------------- MODULE MCCloudImport ---------------------------
(* TLC instances of CloudImport: days of two time units, two time zones one *)
(* unit apart.                                                              *)
EXTENDS CloudImport, TLC

CONSTANTS i1, i2

TwoInstances == {i1, i2}
TwoZones == {0, 1}
TwoRaws == {0, 1}
OneTime == {1}
TwoScales == {0, 1}

\* Bound: either the specification changes or the cloud corrects an event.
OneChange == scale = Min(Scales) \/ \A e \in log : e.raw = Min(Raws)

Symmetry == Permutations(Instances)
=============================================================================
