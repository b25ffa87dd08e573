-------------------------- MODULE MCGuestScheduler --------------------------
(* Instances of GuestScheduler for TLC.                                     *)
EXTENDS GuestScheduler

CONSTANTS main, t1, t2

\* The main thread sits between a more and a less urgent worker.
PrioMiddle == [t \in Threads |-> IF t = t1 THEN 0 ELSE IF t = main THEN 1 ELSE 2]
=============================================================================
