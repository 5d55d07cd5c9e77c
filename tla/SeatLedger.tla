------------------------------ MODULE SeatLedger ------------------------------
(***************************************************************************)
(* What the service promises about the seats of an event, without rows,    *)
(* transactions, locks or tickets: whoever comes takes a free seat or      *)
(* joins the end of the line; whenever a seat is free the head of the line *)
(* has it already; whoever leaves does not come back; a hall that closes   *)
(* sends everybody home and never opens again.  Module BookingLedger shows *)
(* that Booking implements it.                                             *)
(***************************************************************************)
EXTENDS Integers, SequencesExt

CONSTANTS
  Halls,   \* the events
  People,  \* the registrations that may ever be made
  Sizes    \* the capacities a hall may be given

VARIABLES
  capacity,  \* seats of a hall, 0 before it opens and Closed afterwards
  seated,    \* who holds a seat
  line,      \* who waits, next one first
  left       \* who has given up a seat or a place

Closed == -1

vars == <<capacity, seated, line, left>>

Waiting(h) == {line[h][i] : i \in 1..Len(line[h])}

Newcomers == People \ (left \cup UNION {seated[h] \cup Waiting(h) : h \in Halls})

Init ==
  /\ capacity = [h \in Halls |-> 0]
  /\ seated = [h \in Halls |-> {}]
  /\ line = [h \in Halls |-> <<>>]
  /\ left = {}

\* `sitting' keep their seats and the head of the line fills what is free.
Serve(h, seats, sitting, queue) ==
  LET n == Min({seats - Cardinality(sitting), Len(queue)})
  IN  /\ seated' = [seated EXCEPT ![h] = sitting \cup {queue[i] : i \in 1..n}]
      /\ line' = [line EXCEPT ![h] = SubSeq(queue, n + 1, Len(queue))]

Open(h, seats) ==
  /\ capacity[h] = 0
  /\ capacity' = [capacity EXCEPT ![h] = seats]
  /\ UNCHANGED <<seated, line, left>>

Join(h, p) ==
  /\ capacity[h] > 0
  /\ p \in Newcomers
  /\ Serve(h, capacity[h], seated[h], Append(line[h], p))
  /\ UNCHANGED <<capacity, left>>

GiveUpSeat(h, p) ==
  /\ p \in seated[h]
  /\ Serve(h, capacity[h], seated[h] \ {p}, line[h])
  /\ left' = left \cup {p}
  /\ UNCHANGED capacity

LeaveLine(h, p) ==
  /\ \E i \in 1..Len(line[h]) :
       line[h][i] = p /\ line' = [line EXCEPT ![h] = RemoveAt(@, i)]
  /\ left' = left \cup {p}
  /\ UNCHANGED <<capacity, seated>>

Close(h) ==
  /\ capacity[h] > 0
  /\ capacity' = [capacity EXCEPT ![h] = Closed]
  /\ seated' = [seated EXCEPT ![h] = {}]
  /\ line' = [line EXCEPT ![h] = <<>>]
  /\ left' = left \cup seated[h] \cup Waiting(h)

Resize(h, seats) ==
  /\ capacity[h] > 0
  /\ seats >= Cardinality(seated[h])
  /\ capacity' = [capacity EXCEPT ![h] = seats]
  /\ Serve(h, seats, seated[h], line[h])
  /\ UNCHANGED left

Next ==
  \E h \in Halls :
    \/ Close(h)
    \/ \E seats \in Sizes : Open(h, seats) \/ Resize(h, seats)
    \/ \E p \in People : Join(h, p) \/ GiveUpSeat(h, p) \/ LeaveLine(h, p)

Spec == Init /\ [][Next]_vars
=============================================================================
