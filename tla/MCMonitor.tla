------------------------------ MODULE MCMonitor ------------------------------
(* Monitor for TLC: 18 pages; 0 and 1 hold boot tables, 2 the CPU stacks.  The  *)
(* read-only view takes one table per level, and address 324 two more.        *)
EXTENDS Monitor

MCPage == 0..17
MCRams == {3..16, 3..13, 3..11, 3..8, {3}, {}}
=============================================================================
