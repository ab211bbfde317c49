------------------------------ MODULE MCFleet -------------------------------
EXTENDS Fleet

CONSTANTS m1, m2, m3

Two == {m1, m2}
Ends == {m1, m3}
Three == {m1, m2, m3}

FromOne == [m \in Members |-> 1]

\* m3 has one sequence fewer left below the bound than the others.
Uneven == [m \in Members |-> IF m = m3 THEN 2 ELSE 1]
=============================================================================
