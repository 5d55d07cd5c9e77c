------------------------------ MODULE MCBooking ------------------------------
(* Values for the constants of Booking; each run's cfg chooses among them.   *)
EXTENDS Booking, TLC

OpenEvent(seats) ==
  [capacity |-> seats, waitlistEnabled |-> TRUE, startsAt |-> 1, endsAt |-> 2,
   registrationOpensAt |-> Null, registrationClosesAt |-> Null]

OneSeat == {OpenEvent(1)}

\* A room of one seat that is offered a second one, and loses it again.
Resize == {[capacity |-> 1], [capacity |-> 2]}

\* A null for a column that cannot be cleared.
NullDate == {[startsAt |-> Null]}

Edits == Resize \cup NullDate

\* An edit that is refused, once it has waited for the event and locked it.
Refusable == {[endsAt |-> 1]}

\* Longer, later, and an edit with a null for a date that cannot be cleared.
Postpone ==
  {[endsAt |-> 4], [startsAt |-> 3], [startsAt |-> Null, registrationClosesAt |-> 1]}

Everything == Operations \cup {"create", "fail"}

\* No event is called off and no request dies: a rollback commits nothing, and the run
\* on all operations has it.
NotCalledOff == (Operations \cup {"create"}) \ {"cancelEvent"}

Rush == {"create", "publish", "register", "cancelRegistration"}

CallOff == {"create", "publish", "register", "cancelEvent"}

Republish == {"create", "publish", "cancelEvent"}

DraftDelete == {"create", "publish", "register", "remove"}

CrossLocks == {"create", "publish", "register", "cancelRegistration", "cancelEvent"}

Symmetry == Permutations(Workers) \cup Permutations(Attendees)
=============================================================================
