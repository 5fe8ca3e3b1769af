---------------------------- MODULE MCLayerNodes ----------------------------
EXTENDS LayerNodes

CONSTANTS A, B, C

TypeSet == {A, B, C}
AddressSet == 1..4
Classes == <<A, A, B, C>>
UpperSets == [t \in TypeSet |-> IF t = A THEN {} ELSE IF t = B THEN {A} ELSE {B, A}]
LowerSets == [t \in TypeSet |-> IF t = A THEN {B} ELSE IF t = B THEN {C} ELSE {}]
Layer == [t \in TypeSet |-> IF t = A THEN 0 ELSE IF t = B THEN 1 ELSE 2]
=============================================================================
