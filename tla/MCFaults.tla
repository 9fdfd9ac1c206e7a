------------------------------- MODULE MCFaults -------------------------------
\* Faults with two flags and a key that names no flag.
EXTENDS Faults

CONSTANTS f1, f2, f3

MCVariantsOf == [f \in {f1, f2} |-> IF f = f1 THEN {"on", "off"} ELSE {"10x", "off"}]
===============================================================================
