---------------------------- MODULE BookingLedger ----------------------------
(***************************************************************************)
(* Booking implements SeatLedger: the committed rows of an event are its   *)
(* seats, and its waitlisted rows in ticket order are its line.  Every     *)
(* commit is one step of the ledger and everything else is a stutter.      *)
(***************************************************************************)
EXTENDS Booking

\* findWaitlist: the people still waiting, in the order they will be served.
Line(e) ==
  LET queue == Committed(e, "WAITLISTED")
  IN  CHOOSE line \in [1..Cardinality(queue) -> queue] :
        \A i, j \in 1..Cardinality(queue) :
          i < j => regs[line[i]].position < regs[line[j]].position

\* The capacities a POST or a PATCH may carry.
Capacities ==
  ( {dto.capacity : dto \in NewEvents}
      \cup {patch.capacity : patch \in {p \in Patches : "capacity" \in DOMAIN p}} ) \ {Null}

Ledger == INSTANCE SeatLedger WITH
  Halls <- Events,
  People <- RegIds,
  Sizes <- Capacities,
  capacity <- [e \in Events |-> IF events[e].status = "DELETED" THEN -1 ELSE events[e].capacity],
  seated <- [e \in Events |-> Committed(e, "CONFIRMED")],
  line <- [e \in Events |-> Line(e)],
  left <- {r \in RegIds : regs[r].status \in {"CANCELLED", "DELETED"}}

\* As long as no event is called off, requests in flight on the rows
\* of an event cannot be told from seats handed out one after the other.
ImplementsLedger == Ledger!Spec
=============================================================================
