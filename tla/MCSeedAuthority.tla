-------------------------- MODULE MCSeedAuthority ---------------------------
(* An instance of SeedAuthority: two populations that overlap in their     *)
(* domain, and a quarantined one that overlaps one of them.                *)
EXTENDS SeedAuthority, TLC

CONSTANTS halfHanchan, p, q, history

MCDomainOf == [a \in Allocation |-> IF a = history THEN Legacy ELSE halfHanchan]
MCSeedsOf == [a \in Allocation |->
  IF a = p THEN {1, 2} ELSE IF a = q THEN {2, 3} ELSE {3, 4}]

(* Runs of the workflow are interchangeable, and only safety is checked.   *)
Symmetry == Permutations(Run)
=============================================================================
