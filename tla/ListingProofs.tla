---------------------------- MODULE ListingProofs ----------------------------
(***************************************************************************)
(* Proofs about the readers of Listing beside the requests of Booking:     *)
(*   ListingIsBooking    ListSpec => Spec                                  *)
(*   NoSeatHidden        ListSpec => []NoQueueBesideFreeSeat, if no        *)
(*                       capacity is edited and no event called off        *)
(* A response puts counts beside an event row that was read earlier: what  *)
(* the row says of the capacity must still be true when they are read.     *)
(***************************************************************************)
EXTENDS Listing, RowProofs

\* A reader writes nothing: what is proved of Spec holds with readers beside it.
THEOREM ListingIsBooking == ListSpec => Spec
<1>1. ListInit => Init
  BY DEF ListInit
<1>2. [ListNext]_<<vars, list>> => [Next]_vars
  BY DEF ListNext
<1> QED
  BY <1>1, <1>2, PTL DEF ListSpec, Spec

-----------------------------------------------------------------------------
(* Capacities that are never edited.                                       *)

\* No PATCH carries a capacity.
NoResize == \A patch \in Patches : "capacity" \notin DOMAIN patch

\* A transaction that writes an event leaves it the capacity it has.
CapacityInv == \A e \in Events : elock[e] # None => edirty[e].capacity = events[e].capacity

\* Nobody holds an event at first.
LEMMA CapacityInit == Init => CapacityInv
  BY DEF Init, CapacityInv

\* What a PATCH without a capacity leaves of it.
LEMMA MergeKeeps ==
  ASSUME NoResize, NEW row, NEW patch \in Patches
  PROVE  Merge(row, patch).capacity = row.capacity
<1>1. Kept(patch, "capacity", row.capacity) = row.capacity
  BY DEF NoResize, Kept, Given, Nulls
<1> QED
  BY <1>1 DEF Merge

\* An event that was created has the same capacity after every statement.
LEMMA CapacityKept ==
  ASSUME IInv, CapacityInv, [Next]_vars, NEW e \in Events, events[e].status # "ABSENT"
  PROVE  events'[e].capacity = events[e].capacity
<1>0. events[e] \in EventRows
  BY DEF IInv, Structure, TypeOK
<1>1. ASSUME NEW w \in Workers, StepOf(w) PROVE events'[e].capacity = events[e].capacity
  <2>1. CASE elock[e] = w /\ events'[e] = edirty[e]
    BY <2>1, NoneAssumption DEF CapacityInv
  <2>2. CASE events'[e] = [events[e] EXCEPT !.status = "PUBLISHED"]
    BY <1>0, <2>2, StatusEdit
  <2> QED
    BY <1>1, <2>1, <2>2, OthersKeep
<1>2. ASSUME NEW f \in Events, NEW dto \in NewEvents, Create(f, dto) PROVE events'[e] = events[e]
  BY <1>2 DEF Create, IInv, Structure, TypeOK
<1> QED
  BY <1>1, <1>2, NextCases DEF Tick, vars, rowVars

\* An event that was created stays created.
LEMMA CreatedStays ==
  ASSUME IInv, OrphanInv, [Next]_vars, NEW e \in Events, events[e].status # "ABSENT"
  PROVE  events'[e].status # "ABSENT"
<1>0. events[e] \in EventRows
  BY DEF IInv, Structure, TypeOK
<1>1. ASSUME NEW w \in Workers, StepOf(w) PROVE events'[e].status # "ABSENT"
  <2>1. CASE elock[e] = w /\ events'[e] = edirty[e]
    BY <2>1, NoneAssumption DEF OrphanInv, CascadeInv, CascadeOK, EventStatuses
  <2>2. CASE events'[e] = [events[e] EXCEPT !.status = "PUBLISHED"]
    BY <1>0, <2>2, StatusEdit
  <2> QED
    BY <1>1, <2>1, <2>2, OthersKeep
<1>2. ASSUME NEW f \in Events, NEW dto \in NewEvents, Create(f, dto) PROVE events'[e] = events[e]
  BY <1>2 DEF Create, IInv, Structure, TypeOK
<1> QED
  BY <1>1, <1>2, NextCases DEF Tick, vars, rowVars

\* Whatever a statement writes into the row of its event, the capacity stays.
LEMMA VersionKeeps ==
  ASSUME IInv, OrphanInv, CapacityInv, NoResize, NEW w \in Workers, StepOf(w),
         NEW e \in Events, elock'[e] # None
  PROVE  edirty'[e].capacity = events[e].capacity /\ events[e].status # "ABSENT"
<1>0. events[e] \in EventRows /\ (Exists(e) => events[e].status # "ABSENT")
  BY DEF IInv, Structure, TypeOK, Exists, EventStatuses
<1>1. CASE elock'[e] = elock[e] /\ edirty'[e] = edirty[e]
  BY <1>0, <1>1 DEF CapacityInv, OrphanInv, LockedExists
<1>2. CASE Exists(e) /\ edirty'[e] = events[e]
  BY <1>0, <1>2
<1>3. CASE Exists(e) /\ \E status : edirty'[e] = [events[e] EXCEPT !.status = status]
  BY <1>0, <1>3 DEF EventRows
<1>4. CASE e = req[w].event /\ pc[w] = "write" /\ edirty'[e] = Patched(w)
  <2>1. /\ req[w].patch \in Patches /\ elock[e] = w
        /\ VisibleEvent(w, req[w].event) = edirty[e]
    BY <1>4, Holding DEF HoldsEvent, RequestOK
  <2>2. Patched(w).capacity = edirty[e].capacity
    BY <2>1, MergeKeeps DEF Patched
  <2> QED
    BY <1>0, <1>4, <2>1, <2>2, NoneAssumption DEF CapacityInv, OrphanInv, LockedExists
<1>5. e = req[w].event \/ (elock'[e] = elock[e] /\ edirty'[e] = edirty[e])
  BY OthersKeep
<1> QED
  BY <1>1, <1>2, <1>3, <1>4, <1>5, EventVersions

\* CapacityInv is inductive on the states of the other invariants, while no capacity is
\* edited.
LEMMA CapacityNext ==
  ASSUME NoResize
  PROVE  IInv /\ OrphanInv /\ CapacityInv /\ [Next]_vars => CapacityInv'
<1> SUFFICES ASSUME IInv, OrphanInv, CapacityInv, [Next]_vars,
                    NEW e \in Events, elock'[e] # None
             PROVE  edirty'[e].capacity = events'[e].capacity
  BY DEF CapacityInv
<1>1. ASSUME NEW w \in Workers, StepOf(w) PROVE edirty'[e].capacity = events'[e].capacity
  BY <1>1, VersionKeeps, CapacityKept
<1>2. ASSUME UNCHANGED <<edirty, elock>> PROVE edirty'[e].capacity = events'[e].capacity
  <2>1. edirty[e].capacity = events[e].capacity /\ events[e].status # "ABSENT"
    BY <1>2 DEF CapacityInv, OrphanInv, LockedExists, Exists, EventStatuses
  <2> QED
    BY <1>2, <2>1, CapacityKept
<1> QED
  BY <1>1, <1>2, NextCases DEF Create, Tick, vars, rowVars

-----------------------------------------------------------------------------
(* What a page still says when it is answered.                             *)

\* The rows of a query in flight are of events that were created, and their capacity is
\* the one these have now.
PageCurrent ==
  list.step \in {"total", "counts"} =>
    /\ DOMAIN list.rows \subseteq Events
    /\ \A e \in DOMAIN list.rows :
         events[e].status # "ABSENT" /\ list.rows[e].capacity = events[e].capacity

\* A query has the fields it starts with.
QueryType ==
  list = [step |-> list.step, filter |-> list.filter, skip |-> list.skip,
          rows |-> list.rows, total |-> list.total, counts |-> list.counts]

PageInv == QueryType /\ PageCurrent /\ NoQueueBesideFreeSeat

\* No query is in flight at first.
LEMMA PageInit == ListInit => PageInv
  BY DEF ListInit, NoQuery, PageInv, QueryType, PageCurrent, NoQueueBesideFreeSeat

\* What is read is of events that were created.
LEMMA PageRead ==
  ASSUME PageInv, UNCHANGED vars,
         \/ \E filter \in Filters, skip \in {0, Size} : ReadPage(filter, skip)
         \/ \E e \in Events : ReadOne(e)
         \/ ReadTotal
  PROVE  PageInv'
<1>0. UNCHANGED events
  BY DEF vars, rowVars
<1>1. ASSUME NEW filter \in Filters, NEW skip \in {0, Size}, ReadPage(filter, skip)
      PROVE  PageInv'
  <2>1. PICK page \in SUBSET Matching(filter) :
          list' = [NoQuery EXCEPT !.step = "total", !.filter = filter, !.skip = skip,
                                  !.rows = [e \in page |-> events[e]]]
    BY <1>1 DEF ReadPage
  <2>2. \A e \in page : e \in Events /\ events[e].status # "ABSENT"
    BY FiltersAssumption DEF Matching, EventStatuses
  <2>3. /\ list'.step = "total" /\ list'.rows = [e \in page |-> events[e]]
        /\ QueryType'
    BY <2>1 DEF NoQuery, QueryType
  <2> QED
    BY <1>0, <2>2, <2>3 DEF PageInv, PageCurrent, NoQueueBesideFreeSeat
<1>2. ASSUME NEW e \in Events, ReadOne(e) PROVE PageInv'
  <2>1. /\ list'.step = "counts" /\ list'.rows = [f \in {e} |-> events[f]]
        /\ QueryType'
    BY <1>2 DEF ReadOne, NoQuery, QueryType
  <2>2. events[e].status # "ABSENT"
    BY <1>2 DEF ReadOne, Exists, EventStatuses
  <2> QED
    BY <1>0, <2>1, <2>2 DEF PageInv, PageCurrent, NoQueueBesideFreeSeat
<1>3. CASE ReadTotal
  <2>1. /\ list.step = "total" /\ list'.step = "counts" /\ list'.rows = list.rows
        /\ QueryType'
    BY <1>3 DEF ReadTotal, PageInv, QueryType
  <2> QED
    BY <1>0, <2>1 DEF PageInv, PageCurrent, NoQueueBesideFreeSeat
<1> QED
  BY <1>1, <1>2, <1>3

\* The counts are read of a state in which nobody waits beside a free seat, and the
\* capacity they are compared with is the one of that state.
LEMMA PageCounted ==
  ASSUME IInv, QueueServed, PageInv, ReadCounts
  PROVE  PageInv'
<1>1. /\ list.step = "counts" /\ list'.step = "answered" /\ list'.rows = list.rows
      /\ list'.counts = [e \in DOMAIN list.rows |-> CountsOf(e)]
      /\ QueryType'
  BY DEF ReadCounts, PageInv, QueryType
<1>2. ASSUME NEW e \in DOMAIN list.rows, CountsOf(e).waitlisted # 0
      PROVE  ~(seatsAvailable(list.rows[e].capacity, CountsOf(e).confirmed) > 0)
  <2>1. e \in Events /\ list.rows[e].capacity = events[e].capacity
    BY <1>1 DEF PageInv, PageCurrent
  <2>2. Committed(e, "WAITLISTED") # {}
    BY <1>2, FS_EmptySet DEF CountsOf
  <2>3. Cardinality(Committed(e, "CONFIRMED")) >= events[e].capacity
    BY <2>1, <2>2 DEF QueueServed
  <2>4. Cardinality(Committed(e, "CONFIRMED")) \in Nat /\ events[e].capacity \in Nat
    BY <2>1, RowsFinite DEF IInv, Structure, TypeOK, EventRows
  <2> QED
    BY <2>1, <2>3, <2>4 DEF CountsOf, seatsAvailable
<1>3. NoQueueBesideFreeSeat'
  <2> SUFFICES ASSUME NEW e \in DOMAIN list'.rows, availableSeats(e)' > 0
               PROVE  list'.counts[e].waitlisted = 0
    BY <1>1 DEF NoQueueBesideFreeSeat
  <2>1. e \in DOMAIN list.rows /\ list'.counts[e] = CountsOf(e)
    BY <1>1
  <2> QED
    BY <1>1, <1>2, <2>1 DEF availableSeats
<1> QED
  BY <1>1, <1>3 DEF PageInv, PageCurrent

\* PageInv is inductive on the states of the other invariants.
LEMMA PageNext ==
  IInv /\ OrphanInv /\ CapacityInv /\ QueueServed /\ PageInv /\ [ListNext]_<<vars, list>>
    => PageInv'
<1> SUFFICES ASSUME IInv, OrphanInv, CapacityInv, QueueServed, PageInv,
                    [ListNext]_<<vars, list>>
             PROVE  PageInv'
  OBVIOUS
<1>1. CASE [Next]_vars /\ UNCHANGED list
  <2>1. \A e \in Events : events[e].status # "ABSENT" =>
          events'[e].status # "ABSENT" /\ events'[e].capacity = events[e].capacity
    BY <1>1, CreatedStays, CapacityKept
  <2> QED
    BY <1>1, <2>1 DEF PageInv, QueryType, PageCurrent, NoQueueBesideFreeSeat, availableSeats
<1>2. CASE Answer
  BY <1>2 DEF Answer, NoQuery, PageInv, QueryType, PageCurrent, NoQueueBesideFreeSeat
<1>3. CASE Read /\ UNCHANGED vars
  BY <1>2, <1>3, PageRead, PageCounted DEF Read
<1> QED
  BY <1>1, <1>3 DEF ListNext

\* No response shows people waiting beside a free seat, in a service that edits no capacity
\* and calls no event off: both counts of an event are of one instant, and the capacity
\* they are put beside, though read before, is still the one of that instant.
THEOREM NoSeatHidden ==
  ASSUME "cancelEvent" \notin Menu, NoResize
  PROVE  ListSpec => []NoQueueBesideFreeSeat
<1>1. FillInv => QueueServed
  BY DEF FillInv
<1>2. PageInv => NoQueueBesideFreeSeat
  BY DEF PageInv
<1>3. Spec => [](IInv /\ OrphanInv /\ CapacityInv /\ QueueServed)
  BY <1>1, CapacityInit, CapacityNext, OrphanInvariance, FillInvariance, PTL DEF Spec
<1> QED
  BY <1>2, <1>3, ListingIsBooking, PageInit, PageNext, PTL DEF ListSpec
=============================================================================
