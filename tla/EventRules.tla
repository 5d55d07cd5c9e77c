------------------------------ MODULE EventRules ------------------------------
(***************************************************************************)
(* The rules the services consult before they write: the event state       *)
(* machine (events/event-status.ts), the schedule rules                    *)
(* (events/event-schedule.ts), who may register                            *)
(* (registrations/policy/registration-policy.ts) and who moves up          *)
(* (registrations/policy/waitlist.ts).  All of them are pure functions in  *)
(* the source and pure operators here; module Booking applies them to rows *)
(* it has read, module RulesCheck checks them against each other.          *)
(***************************************************************************)
EXTENDS Integers, FiniteSets

\* The TypeScript null of the two optional dates and of an absent ticket.
Null == -1

EventStatuses == {"DRAFT", "PUBLISHED", "CANCELLED"}
EventActions  == {"publish", "cancel"}

ActiveStatuses == {"CONFIRMED", "WAITLISTED"}

-----------------------------------------------------------------------------
(* The event state machine.                                                *)

TRANSITIONS == { <<"DRAFT", "publish", "PUBLISHED">>,
                 <<"PUBLISHED", "cancel", "CANCELLED">> }

\* The statuses `action' may lead to: one, or none when it is refused.
applyAction(from, action) ==
  {to \in EventStatuses : <<from, action, to>> \in TRANSITIONS}

canDelete(status) == status = "DRAFT"

-----------------------------------------------------------------------------
(* The schedule of an event: a record with fields startsAt, endsAt,        *)
(* registrationOpensAt and registrationClosesAt (the last two may be Null).*)

\* Mutant of ScheduleViolations: the last rule, for events without a close time,
\* is left out.
WithoutOpenRule(s) ==
  {field \in {"endsAt", "registrationClosesAt", "registrationOpensAt"} :
     \/ field = "endsAt" /\ s.endsAt <= s.startsAt
     \/ field = "registrationClosesAt" /\ s.registrationClosesAt > s.startsAt
     \/ field = "registrationOpensAt" /\ s.registrationClosesAt # Null
          /\ s.registrationOpensAt >= s.registrationClosesAt}

ScheduleViolations(s) ==
  LET opens  == s.registrationOpensAt
      closes == s.registrationClosesAt
  IN  {field \in {"endsAt", "registrationClosesAt", "registrationOpensAt"} :
         \/ field = "endsAt" /\ s.endsAt <= s.startsAt
         \/ field = "registrationClosesAt" /\ closes # Null /\ closes > s.startsAt
         \/ field = "registrationOpensAt" /\ opens # Null /\ closes # Null
              /\ opens >= closes
         \/ field = "registrationOpensAt" /\ opens # Null /\ closes = Null
              /\ opens > s.startsAt}

Coherent(s) == ScheduleViolations(s) = {}

-----------------------------------------------------------------------------
(* Who may register.                                                       *)

REGISTRATION_REFUSALS ==
  {"event-not-published", "event-cancelled", "registration-not-open",
   "registration-closed", "event-already-started", "event-full"}

\* Mutant of decideRegistration: the start is checked before the close time.
DecideStartFirst(event, now, confirmedCount) ==
  IF event.status # "PUBLISHED" THEN "event-not-published"
  ELSE IF event.registrationOpensAt # Null /\ now < event.registrationOpensAt
    THEN "registration-not-open"
  ELSE IF now >= event.startsAt THEN "event-already-started"
  ELSE IF event.registrationClosesAt # Null /\ now > event.registrationClosesAt
    THEN "registration-closed"
  ELSE IF confirmedCount < event.capacity THEN "CONFIRMED" ELSE "WAITLISTED"

\* The outcome CONFIRMED or WAITLISTED, or the reason of the first refusal.
decideRegistration(event, now, confirmedCount) ==
  CASE event.status = "CANCELLED" -> "event-cancelled"
    [] event.status \notin {"CANCELLED", "PUBLISHED"} -> "event-not-published"
    [] event.status = "PUBLISHED" ->
         IF event.registrationOpensAt # Null /\ now < event.registrationOpensAt
           THEN "registration-not-open"
         ELSE IF event.registrationClosesAt # Null /\ now > event.registrationClosesAt
           THEN "registration-closed"
         ELSE IF now >= event.startsAt THEN "event-already-started"
         ELSE IF confirmedCount < event.capacity THEN "CONFIRMED"
         ELSE IF event.waitlistEnabled THEN "WAITLISTED"
         ELSE "event-full"

-----------------------------------------------------------------------------
(* Who moves up.  The queue is a set of registration ids, numbered in the   *)
(* order of their (time-ordered) UUIDs, and a function that gives each of  *)
(* them its ticket, or Null.                                               *)

seatsAvailable(capacity, confirmedCount) ==
  IF capacity > confirmedCount THEN capacity - confirmedCount ELSE 0

\* Mutant of Before: a missing ticket compares as less than any other.
NullFirst(ticket, a, b) ==
  IF ticket[a] = ticket[b] THEN a < b ELSE ticket[a] < ticket[b]

\* Mutant of Before: last come, first served.
HighestFirst(ticket, a, b) == ticket[a] > ticket[b]

\* The comparator of inQueueOrder: lowest ticket first, a missing ticket last,
\* ties broken by id.
Before(ticket, a, b) ==
  \/ ticket[a] = ticket[b] /\ a < b
  \/ ticket[a] # Null /\ ticket[b] = Null
  \/ ticket[a] # Null /\ ticket[a] < ticket[b]

\* Mutant of selectForPromotion: the rows in the order the database returns them.
WithoutOrder(queue, ticket, seats) ==
  {chosen \in SUBSET queue :
     Cardinality(chosen) <= seats /\ (chosen = queue \/ Cardinality(chosen) = seats)}

\* The first `seats' of the queue, or all of it when it is shorter.  The order is
\* total, so there is exactly one such set.
selectForPromotion(queue, ticket, seats) ==
  {chosen \in SUBSET queue :
     /\ Cardinality(chosen) <= seats
     /\ chosen = queue \/ Cardinality(chosen) = seats
     /\ \A a \in chosen, b \in queue \ chosen : Before(ticket, a, b)}

\* Mutant of nextWaitlistPosition: counting the people who wait.
CountedPosition(tickets) == {Cardinality(tickets) + 1}

\* One past the highest ticket held, 1 when nobody waits: a set of one number.
nextWaitlistPosition(tickets) ==
  {highest + 1 : highest \in {t \in {0} \cup tickets : \A u \in tickets : u <= t}}
=============================================================================
