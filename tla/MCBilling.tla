----------------------------- MODULE MCBilling -----------------------------
(* TLC instances of Billing: two readings to begin with, and a third that is *)
(* older than the second and out of line with it.                            *)
EXTENDS Billing, TLC

CONSTANTS i1, i2, RON, EUR, p1, p2

TwoInstances == {i1, i2}
TwoTimes == {0, 1}
ThreeValues == {1, 2, 3}
TwoPrices == {p1, p2}
TwoCurrencies == {RON, EUR}
TwoReadings == <<[time |-> 0, value |-> 1], [time |-> 1, value |-> 2]>>
OlderReading == {[time |-> 0, value |-> 3]}

Symmetry == Permutations(Instances) \cup Permutations(Currencies) \cup Permutations(Prices)
=============================================================================
