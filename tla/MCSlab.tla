------------------------------- MODULE MCSlab -------------------------------
(* Instances of Slab.  The CPUs and the pages are interchangeable.         *)
EXTENDS Slab, TLC

Sym == Permutations(Cpu) \cup Permutations(Page)
=============================================================================
