------------------------------- MODULE MCKmap -------------------------------
(* Kmap for TLC.  The boot regions lie below and above the pages that callers  *)
(* map, and share tables of the two upper levels with them.  The memory is     *)
(* enough for all but one of the pages that callers ask for.                   *)
EXTENDS Kmap

Requests == {[start |-> 7, end |-> 9, phys |-> 0, pageable |-> TRUE],
             [start |-> 9, end |-> 10, phys |-> 0, pageable |-> FALSE],
             [start |-> 9, end |-> 10, phys |-> 100, pageable |-> FALSE]}
BootRegions == <<[start |-> 2, end |-> 4, phys |-> 0, pageable |-> FALSE],
                 [start |-> 10, end |-> 11, phys |-> 200, pageable |-> FALSE]>>
Sym == Permutations(Map)
=============================================================================
