------------------------------- MODULE MCPmm -------------------------------
(* Instances of Pmm: two-byte pages, blocks of up to four pages. *)
EXTENDS Pmm

r(b, s) == [base |-> b, size |-> s]

\* The whole memory in one region; and an odd start that no large block fits.
OneRegion == { <<r(0, 8)>>, <<r(2, 8)>> }
\* None, and one that leaves a single page.
OneReservation == { << >>, <<r(1, 7)>> }

\* No map lists a page twice.
ASSUME MapsApart == RegionsApart
============================================================================
