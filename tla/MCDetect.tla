------------------------------- MODULE MCDetect -------------------------------
\* Detect with a fault of any kind: expected at the sampled container, at any or at
\* another one, in another domain, or in none.
EXTENDS Detect

CONSTANTS c1, elsewhere

MCLevels == [c \in Containers |-> 0..2]
MCAims ==
    {[domain |-> Infrastructure, entity |-> e] : e \in {c1, Anything, elsewhere}}
    \cup {[domain |-> d, entity |-> Anything] : d \in {"ecommerce", NoDomain}}
===============================================================================
