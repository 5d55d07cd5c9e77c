------------------------------- MODULE MCLedger -------------------------------
(* The requests of MCBooking by people who also write down their address.    *)
EXTENDS MCBooking, BookingLedger, Answers

PeopleSymmetry == Symmetry \cup Permutations(People)
=============================================================================
