------------------------------- MODULE Listing -------------------------------
(***************************************************************************)
(* EventsService.findAll beside the write paths of Booking: the page, the  *)
(* total and the registration counts are three statements, and at READ     *)
(* COMMITTED each of them sees what is committed when it is executed, the  *)
(* first two inside one transaction or not.  findOne is a page of one      *)
(* event.  Which of the matching rows a page holds is left to module       *)
(* Paging; here a page is any choice of the right size.                    *)
(***************************************************************************)
EXTENDS Booking, FiniteSetsExt

CONSTANTS
  Filters,  \* the sets of statuses a query may ask for
  Size      \* the page size, after clamping

\* The query is validated: @IsIn(EVENT_STATUSES).
ASSUME FiltersAssumption == Filters \subseteq SUBSET EventStatuses

VARIABLE list  \* the query in flight and what it has read

NoCounts == [confirmed |-> 0, waitlisted |-> 0]
NoQuery ==
  [step |-> "idle", filter |-> {}, skip |-> 0, rows |-> <<>>, total |-> 0, counts |-> <<>>]

ListInit == Init /\ list = NoQuery

\* buildWhere: the rows a query matches when a statement of it is executed.
Matching(filter) == {e \in Events : events[e].status \in filter}

\* findMany({ where, skip, take }).
ReadPage(filter, skip) ==
  /\ list.step = "idle"
  /\ \E page \in SUBSET Matching(filter) :
       /\ Cardinality(page) = Max({0, Min({Size, Cardinality(Matching(filter)) - skip})})
       /\ list' = [NoQuery EXCEPT !.step = "total", !.filter = filter, !.skip = skip,
                                  !.rows = [e \in page |-> events[e]]]

\* count({ where }).
ReadTotal ==
  /\ list.step = "total"
  /\ list' = [list EXCEPT !.step = "counts", !.total = Cardinality(Matching(list.filter))]

\* findOne: one row by id, and no total.
ReadOne(e) ==
  /\ list.step = "idle"
  /\ Exists(e)
  /\ list' = [NoQuery EXCEPT !.step = "counts", !.rows = [f \in {e} |-> events[f]], !.total = 1]

CountsOf(e) ==
  [confirmed |-> Cardinality(Committed(e, "CONFIRMED")),
   waitlisted |-> Cardinality(Committed(e, "WAITLISTED"))]

\* Mutant of ReadCounts: two filtered counts instead of one grouped query.
ReadCountsTwice ==
  \/ /\ list.step = "counts"
     /\ list' = [list EXCEPT !.step = "waitlisted",
          !.counts = [e \in DOMAIN list.rows |-> [NoCounts EXCEPT !.confirmed = CountsOf(e).confirmed]]]
  \/ /\ list.step = "waitlisted"
     /\ list' = [list EXCEPT !.step = "answered",
          !.counts = [e \in DOMAIN @ |-> [@[e] EXCEPT !.waitlisted = CountsOf(e).waitlisted]]]

\* groupBy over the whole page.
ReadCounts ==
  /\ list.step = "counts"
  /\ list' = [list EXCEPT !.step = "answered", !.counts = [e \in DOMAIN list.rows |-> CountsOf(e)]]

\* The response is sent and the next query may come.
Answer == list.step = "answered" /\ list' = NoQuery

Read ==
  \/ \E filter \in Filters, skip \in {0, Size} : ReadPage(filter, skip)
  \/ \E e \in Events : ReadOne(e)
  \/ ReadTotal
  \/ ReadCounts
  \/ Answer

ListNext ==
  \/ Next /\ UNCHANGED list
  \/ Read /\ UNCHANGED vars

ListSpec == ListInit /\ [][ListNext]_<<vars, list>>

-----------------------------------------------------------------------------

\* toEventResponse: the seats a client is told are free.
availableSeats(e) == seatsAvailable(list.rows[e].capacity, list.counts[e].confirmed)

\* No response shows people waiting beside a free seat, as long as no capacity is
\* edited and no event called off: both counts of an event are of one instant,
\* although the row they are put beside is of an earlier one.
NoQueueBesideFreeSeat ==
  list.step = "answered" =>
    \A e \in DOMAIN list.rows : availableSeats(e) > 0 => list.counts[e].waitlisted = 0

\* events.service.ts: "One transaction, so the count and the page agree": a page
\* never holds more rows than there are.
PageAgreesWithTotal ==
  list.step \in {"counts", "answered"} /\ DOMAIN list.rows # {} =>
    list.skip + Cardinality(DOMAIN list.rows) <= list.total
=============================================================================
