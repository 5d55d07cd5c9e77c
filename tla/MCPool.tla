------------------------------- MODULE MCPool -------------------------------
(* The requests of MCBooking over a pool of connections.                     *)
EXTENDS MCBooking, Pool

RushHour == Rush \cup {"update", "fail"}

\* Every operation but update, and the health check.
BusyDay == (Everything \ {"update"}) \cup {"health"}

PoolSymmetry == Symmetry \cup Permutations(Events)
=============================================================================
