---------------------------- MODULE BookingProofs ----------------------------
(***************************************************************************)
(* Proofs about Booking, for any number of requests, events, attendees and *)
(* registrations and whatever mix of operations the clients call:          *)
(*   TypeCorrect       Spec => []TypeOK                                    *)
(*   NeverOverbooked   Spec => []NoOverbooking                             *)
(*   ReadsStayTrue     Spec => WritesUnderLock                             *)
(*   LockOrder         Spec => []EventLockedFirst, if no event is ever     *)
(*                     cancelled                                           *)
(* All four rest on one inductive invariant, IInv.  The last parts say     *)
(* what any one statement of a request does to the rows and leaves to the  *)
(* other requests, and which statements a request goes through, for the    *)
(* proofs about the rest of the system.                                    *)
(***************************************************************************)
EXTENDS Booking, RuleProofs

-----------------------------------------------------------------------------
(* The inductive invariant.                                                *)

\* The statements between SELECT ... FOR UPDATE and the end of the transaction.
HoldsEvent ==
  {"decide", "position", "insert", "reread", "cancelRow", "promote", "promoteRow",
   "check", "write", "cascade", "commit"}

\* As its transaction sees it, `r' is a registration of the event w is about.
OfEvent(w, r) ==
  /\ r \in RegIds
  /\ Visible(w, r).status # "ABSENT"
  /\ Visible(w, r).event = req[w].event

\* A request carries what its next statement needs.
RequestOK(w) ==
  /\ pc[w] # "idle" => req[w].event \in Events
  /\ pc[w] = "lock" => req[w].op \in {"register", "cancelRegistration", "update"}
  /\ pc[w] = "lock" /\ req[w].op = "cancelRegistration" => OfEvent(w, req[w].reg)
  /\ pc[w] \in {"reread", "cancelRow"} => OfEvent(w, req[w].reg)
  /\ pc[w] = "lock" /\ req[w].op = "update" => req[w].patch \in Patches
  /\ pc[w] \in {"check", "write"} => req[w].patch \in Patches
  /\ pc[w] = "position" => req[w].status = "WAITLISTED"
  /\ pc[w] = "insert" => req[w].status \in ActiveStatuses
  /\ pc[w] \in {"promoteRow", "sweep", "cascade"} =>
       \A r \in req[w].todo : OfEvent(w, r)

RequestInv == \A w \in Workers : RequestOK(w)

\* A locked registration belongs to the event its transaction is about, and keeps
\* the event it had; cancelling an event writes nothing but cancellations.
RowInv ==
  \A r \in RegIds :
    /\ regs[r].status # "ABSENT" => regs[r].event \in Events
    /\ rlock[r] # None =>
         /\ pc[rlock[r]] \in HoldsEvent \cup {"sweep"}
         /\ pc[rlock[r]] = "sweep" => dirty[r].status = "CANCELLED"
         /\ dirty[r].status # "ABSENT"
         /\ dirty[r].event = req[rlock[r]].event
         /\ regs[r].status # "ABSENT" => regs[r].event = dirty[r].event

\* The event row is held exactly by the transactions past their first lock.
LockInv ==
  /\ \A w \in Workers : pc[w] \in HoldsEvent => elock[req[w].event] = w
  /\ \A e \in Events : elock[e] # None =>
       pc[elock[e]] \in HoldsEvent /\ req[elock[e]].event = e

\* While an event row is held, the seats its holder sees and still means to give
\* fit the capacity it is about to commit.
Seats(w, e) == Cardinality(Rows(w, e, "CONFIRMED"))

SeatsFit(w, e) ==
  /\ Seats(w, e) <= edirty[e].capacity
  /\ pc[w] = "insert" /\ req[w].status = "CONFIRMED" => Seats(w, e) < edirty[e].capacity
  /\ pc[w] = "promoteRow" => Seats(w, e) + Cardinality(req[w].todo) <= edirty[e].capacity
  /\ pc[w] = "write" => Seats(w, e) <= Patched(w).capacity

SeatInv == \A e \in Events : elock[e] # None => SeatsFit(elock[e], e)

\* An event that does not exist has no capacity and no lock.
AbsentInv ==
  \A e \in Events :
    /\ events[e].status = "ABSENT" => events[e].capacity = 0
    /\ elock[e] # None => edirty[e].status # "ABSENT"

Structure == TypeOK /\ RequestInv /\ RowInv /\ LockInv

IInv == Structure /\ AbsentInv /\ SeatInv /\ NoOverbooking

-----------------------------------------------------------------------------
(* Type correctness.                                                       *)

\* The rows a PATCH leaves are rows: a field of it has the column's type.
LEMMA MergeType ==
  ASSUME NEW row \in EventRows, NEW patch \in Patches
  PROVE  Merge(row, patch) \in EventRows
<1>1. Kept(patch, "capacity", row.capacity) \in Nat
  BY PatchesAssumption DEF Kept, Nulls, NotNull, Given, EventRows
<1>2. Given(patch, "waitlistEnabled", row.waitlistEnabled) \in BOOLEAN
  BY PatchesAssumption DEF Given, EventRows
<1>3. Kept(patch, "startsAt", row.startsAt) \in Nat
  BY PatchesAssumption DEF Kept, Nulls, NotNull, Given, EventRows
<1>4. Kept(patch, "endsAt", row.endsAt) \in Nat
  BY PatchesAssumption DEF Kept, Nulls, NotNull, Given, EventRows
<1>5. Given(patch, "registrationOpensAt", row.registrationOpensAt) \in Nat \cup {Null}
  BY PatchesAssumption DEF Given, EventRows
<1>6. Given(patch, "registrationClosesAt", row.registrationClosesAt) \in Nat \cup {Null}
  BY PatchesAssumption DEF Given, EventRows
<1> QED
  BY <1>1, <1>2, <1>3, <1>4, <1>5, <1>6 DEF Merge, EventRows

\* So are the rows an UPDATE of the status leaves.
LEMMA StatusEdit ==
  ASSUME NEW row \in EventRows, NEW status \in {"PUBLISHED", "CANCELLED", "DELETED"}
  PROVE  LET edited == [row EXCEPT !.status = status]
         IN  edited \in EventRows /\ edited.status = status /\ edited.capacity = row.capacity
  BY DEF EventRows, EventStatuses

\* Ending a transaction and beginning a request keep the types.
LEMMA ReleaseType ==
  ASSUME TypeOK, NEW w \in Workers, Release(w)
  PROVE  /\ edirty' \in [Events -> EventRows]
         /\ elock' \in [Events -> Workers \cup {None}]
         /\ dirty' \in [RegIds -> RegRows]
         /\ rlock' \in [RegIds -> Workers \cup {None}]
<1>1. AbsentEvent \in EventRows
  BY DEF AbsentEvent, EventRows, Null
<1>2. AbsentReg \in RegRows
  BY DEF AbsentReg, RegRows, Null
<1> QED
  BY <1>1, <1>2 DEF TypeOK, Release

\* A request that has ended is a request.
LEMMA NoRequestType == NoRequest \in Requests
  BY DEF NoRequest, Requests

\* A rollback keeps every type.
LEMMA RollbackType ==
  ASSUME TypeOK, NEW w \in Workers, Rollback(w)
  PROVE  TypeOK'
  BY ReleaseType, NoRequestType DEF TypeOK, Rollback, Goto, Note, Labels

\* So does the beginning of a request.
LEMMA BeginType ==
  ASSUME TypeOK, NEW w \in Workers, NEW op \in Operations, NEW label \in Labels,
         NEW request \in Requests, Begin(w, op, label, request)
  PROVE  TypeOK'
<1>1. [request EXCEPT !.op = op] \in Requests
  BY DEF Requests
<1> QED
  BY <1>1 DEF TypeOK, Begin, Goto, Note, rowVars

\* What a transaction sees are rows.
LEMMA VisibleType ==
  ASSUME TypeOK, NEW w \in Workers
  PROVE  /\ \A r \in RegIds : Visible(w, r) \in RegRows
         /\ \A e \in Events : VisibleEvent(w, e) \in EventRows
  BY DEF TypeOK, Visible, VisibleEvent

-----------------------------------------------------------------------------
(* Frames: what a step of one request leaves alone in the others.          *)

\* The sets of rows counted are finite.
LEMMA IdsFinite ==
  ASSUME NEW S \in SUBSET RegIds
  PROVE  IsFiniteSet(S) /\ Cardinality(S) \in Nat
<1>1. IsFiniteSet(RegIds)
  BY MaxRegsAssumption, FS_Interval DEF RegIds
<1> QED
  BY <1>1, FS_Subset, FS_CardinalityType

\* What a transaction counts can be counted.
LEMMA RowsFinite ==
  ASSUME NEW w, NEW e, NEW s
  PROVE  /\ IsFiniteSet(Rows(w, e, s)) /\ Cardinality(Rows(w, e, s)) \in Nat
         /\ IsFiniteSet(Committed(e, s)) /\ Cardinality(Committed(e, s)) \in Nat
<1>1. Rows(w, e, s) \in SUBSET RegIds /\ Committed(e, s) \in SUBSET RegIds
  BY DEF Rows, Committed
<1> QED
  BY <1>1, IdsFinite

\* A step of w moves its program counter and its record, and those alone.
Moves(w, label, new) ==
  /\ label \in Labels /\ new \in Requests
  /\ pc' = [pc EXCEPT ![w] = label]
  /\ req' = [req EXCEPT ![w] = new]
  /\ new.event = req[w].event

\* A statement that only reads.
LEMMA ReadStep ==
  ASSUME IInv, NEW w \in Workers, NEW label, NEW new, Moves(w, label, new),
         UNCHANGED <<rowVars, mail, now>>,
         label \in HoldsEvent <=> pc[w] \in HoldsEvent,
         pc[w] = "sweep" => label = "sweep",
         label = "sweep" => pc[w] \in {"snapshot", "sweep"},
         RequestOK(w)',
         pc[w] \in HoldsEvent => SeatsFit(w, req[w].event)'
  PROVE  IInv'
<1> USE DEF IInv, Structure
<1>1. /\ events' = events /\ edirty' = edirty /\ elock' = elock
      /\ regs' = regs /\ dirty' = dirty /\ rlock' = rlock
  BY DEF rowVars
<1>2. TypeOK'
  BY <1>1 DEF TypeOK, Moves
<1>3. \A v \in Workers : req'[v].event = req[v].event
  BY DEF Moves, TypeOK
<1>4. \A v \in Workers \ {w} : pc'[v] = pc[v] /\ req'[v] = req[v]
  BY DEF Moves, TypeOK
<1>5. pc'[w] = label /\ req'[w] = new
  BY DEF Moves, TypeOK
<1>6. RequestInv'
  <2> SUFFICES ASSUME NEW v \in Workers, v # w PROVE RequestOK(v)'
    BY DEF RequestInv
  <2> QED
    BY <1>1, <1>4 DEF RequestInv, RequestOK, OfEvent, Visible
<1>7. RowInv'
  <2> SUFFICES ASSUME NEW r \in RegIds, rlock[r] # None
      PROVE  /\ pc'[rlock[r]] \in HoldsEvent \cup {"sweep"}
             /\ pc'[rlock[r]] = "sweep" => dirty[r].status = "CANCELLED"
    BY <1>1, <1>3 DEF RowInv, TypeOK
  <2>1. rlock[r] \in Workers
    BY DEF TypeOK
  <2>2. CASE rlock[r] = w
    BY <1>5, <2>2 DEF RowInv, HoldsEvent
  <2> QED
    BY <1>4, <2>1, <2>2 DEF RowInv
<1>8. LockInv'
  BY <1>1, <1>3, <1>4, <1>5 DEF LockInv, TypeOK
<1>9. AbsentInv'
  BY <1>1 DEF AbsentInv
<1>10. SeatInv'
  <2> SUFFICES ASSUME NEW e \in Events, elock[e] # None PROVE SeatsFit(elock[e], e)'
    BY <1>1 DEF SeatInv
  <2>1. elock[e] \in Workers
    BY DEF TypeOK
  <2>2. CASE elock[e] = w
    <3>1. elock'[e] = w /\ req'[w].event = e /\ pc[w] \in HoldsEvent
      BY <1>1, <1>3, <2>2 DEF LockInv
    <3> QED
      BY <3>1
  <2>3. CASE elock[e] # w
    BY <1>1, <1>4, <2>1, <2>3
       DEF SeatInv, SeatsFit, Seats, Rows, Visible, Patched, VisibleEvent
  <2> QED
    BY <2>2, <2>3
<1>11. NoOverbooking'
  BY <1>1 DEF NoOverbooking, Committed
<1> QED
  BY <1>2, <1>6, <1>7, <1>8, <1>9, <1>10, <1>11

\* A statement of a request that holds no lock, before and after it; Publish is
\* the one that also changes an event row.
LEMMA FreeStep ==
  ASSUME IInv, NEW w \in Workers, NEW label \in Labels, NEW new \in Requests,
         pc' = [pc EXCEPT ![w] = label], req' = [req EXCEPT ![w] = new],
         UNCHANGED <<edirty, elock, regs, dirty, rlock, now>>,
         mail' \in [RegIds -> Nat],
         events' \in [Events -> EventRows],
         \A e \in Events : /\ events'[e].capacity = events[e].capacity
                           /\ events'[e].status = "ABSENT" => events[e].status = "ABSENT",
         pc[w] \notin HoldsEvent \cup {"sweep"}, label \notin HoldsEvent \cup {"sweep"},
         RequestOK(w)'
  PROVE  IInv'
<1> USE DEF IInv, Structure
<1>1. TypeOK'
  BY DEF TypeOK
<1>2. \A v \in Workers \ {w} : pc'[v] = pc[v] /\ req'[v] = req[v]
  BY DEF TypeOK
<1>3. pc'[w] = label /\ req'[w] = new
  BY DEF TypeOK
<1>4. RequestInv'
  <2> SUFFICES ASSUME NEW v \in Workers, v # w PROVE RequestOK(v)'
    BY DEF RequestInv
  <2> QED
    BY <1>2 DEF RequestInv, RequestOK, OfEvent, Visible
<1>5. \A r \in RegIds : rlock[r] # w
  BY NoneAssumption DEF RowInv, TypeOK, HoldsEvent
<1>6. \A e \in Events : elock[e] # w
  BY NoneAssumption DEF LockInv
<1>7. RowInv'
  BY <1>2, <1>5 DEF RowInv, TypeOK
<1>8. LockInv'
  <2>1. ASSUME NEW v \in Workers, pc'[v] \in HoldsEvent PROVE elock[req'[v].event] = v
    BY <1>2, <1>3, <2>1 DEF LockInv
  <2>2. ASSUME NEW e \in Events, elock[e] # None
        PROVE  pc'[elock[e]] \in HoldsEvent /\ req'[elock[e]].event = e
    BY <1>2, <1>6, <2>2 DEF LockInv, TypeOK
  <2> QED
    BY <2>1, <2>2 DEF LockInv
<1>9. AbsentInv'
  BY DEF AbsentInv
<1>10. SeatInv'
  <2> SUFFICES ASSUME NEW e \in Events, elock[e] # None PROVE SeatsFit(elock[e], e)'
    BY DEF SeatInv
  <2> DEFINE v == elock[e]
  <2>1. v \in Workers \ {w} /\ req[v].event = e
    BY <1>6 DEF TypeOK, LockInv
  <2>2. pc'[v] = pc[v] /\ req'[v] = req[v]
    BY <1>2, <2>1
  <2>3. Seats(v, e)' = Seats(v, e)
    BY DEF Seats, Rows, Visible
  <2>4. Patched(v)' = Patched(v)
    BY <2>1, <2>2 DEF Patched, VisibleEvent
  <2>5. SeatsFit(v, e)
    BY DEF SeatInv
  <2> QED
    BY <2>2, <2>3, <2>4, <2>5 DEF SeatsFit
<1>11. NoOverbooking'
  BY DEF NoOverbooking, Committed
<1> QED
  BY <1>1, <1>4, <1>7, <1>8, <1>9, <1>10, <1>11

\* A statement that locks and writes one registration of the request's event.
LEMMA WriteStep ==
  ASSUME IInv, NEW w \in Workers, NEW label, NEW new, Moves(w, label, new),
         NEW r \in RegIds, NEW row \in RegRows, WriteRow(w, r, row),
         UNCHANGED <<events, edirty, elock, regs, now>>,
         mail' = mail,
         pc[w] \in HoldsEvent \cup {"sweep"},
         label \in HoldsEvent <=> pc[w] \in HoldsEvent,
         label = "sweep" <=> pc[w] = "sweep",
         pc[w] = "sweep" => row.status = "CANCELLED",
         row.status # "ABSENT", row.event = req[w].event,
         regs[r].status # "ABSENT" => regs[r].event = row.event,
         RequestOK(w)',
         pc[w] \in HoldsEvent => SeatsFit(w, req[w].event)'
  PROVE  IInv'
<1> USE DEF IInv, Structure
<1>1. TypeOK'
  BY DEF TypeOK, Moves, WriteRow
<1>2. \A v \in Workers : req'[v].event = req[v].event
  BY DEF Moves, TypeOK
<1>3. \A v \in Workers \ {w} : pc'[v] = pc[v] /\ req'[v] = req[v]
  BY DEF Moves, TypeOK
<1>4. pc'[w] = label /\ req'[w] = new
  BY DEF Moves, TypeOK
<1>5. /\ rlock[r] \in {None, w} /\ rlock'[r] = w /\ dirty'[r] = row
      /\ \A s \in RegIds \ {r} : rlock'[s] = rlock[s] /\ dirty'[s] = dirty[s]
  BY DEF WriteRow, RowFree, TypeOK
<1>6. w # None
  BY NoneAssumption
<1>7. \A v \in Workers \ {w}, s \in RegIds : Visible(v, s)' = Visible(v, s)
  BY <1>5, <1>6, NoneAssumption DEF Visible
<1>8. RequestInv'
  <2> SUFFICES ASSUME NEW v \in Workers, v # w PROVE RequestOK(v)'
    BY DEF RequestInv
  <2> QED
    BY <1>3, <1>7 DEF RequestInv, RequestOK, OfEvent
<1>9. RowInv'
  <2> SUFFICES ASSUME NEW s \in RegIds, rlock'[s] # None
      PROVE  /\ pc'[rlock'[s]] \in HoldsEvent \cup {"sweep"}
             /\ pc'[rlock'[s]] = "sweep" => dirty'[s].status = "CANCELLED"
             /\ dirty'[s].status # "ABSENT"
             /\ dirty'[s].event = req'[rlock'[s]].event
             /\ regs[s].status # "ABSENT" => regs[s].event = dirty'[s].event
    BY DEF RowInv
  <2>1. CASE s = r
    BY <1>2, <1>4, <1>5, <2>1
  <2>2. CASE s # r /\ rlock[s] = w
    BY <1>2, <1>4, <1>5, <2>2, <1>6 DEF RowInv
  <2>3. CASE s # r /\ rlock[s] # w
    <3>1. rlock[s] \in Workers \ {w} /\ rlock'[s] = rlock[s] /\ dirty'[s] = dirty[s]
      BY <1>5, <2>3 DEF TypeOK
    <3> QED
      BY <1>3, <3>1 DEF RowInv
  <2> QED
    BY <2>1, <2>2, <2>3
<1>10. LockInv'
  BY <1>2, <1>3, <1>4 DEF LockInv, TypeOK
<1>11. AbsentInv'
  BY DEF AbsentInv
<1>12. SeatInv'
  <2> SUFFICES ASSUME NEW e \in Events, elock[e] # None PROVE SeatsFit(elock[e], e)'
    BY DEF SeatInv
  <2>1. CASE elock[e] = w
    <3>1. elock'[e] = w /\ req'[w].event = e /\ pc[w] \in HoldsEvent
      BY <1>2, <2>1, <1>6 DEF LockInv
    <3> QED
      BY <3>1
  <2>2. CASE elock[e] # w
    <3>1. elock[e] \in Workers \ {w}
      BY <2>2 DEF TypeOK
    <3>2. Rows(elock[e], e, "CONFIRMED")' = Rows(elock[e], e, "CONFIRMED")
      BY <1>7, <3>1 DEF Rows
    <3> QED
      BY <1>3, <3>1, <3>2 DEF SeatInv, SeatsFit, Seats, Patched, VisibleEvent
  <2> QED
    BY <2>1, <2>2
<1>13. NoOverbooking'
  BY DEF NoOverbooking, Committed
<1> QED
  BY <1>1, <1>8, <1>9, <1>10, <1>11, <1>12, <1>13

\* A statement that locks, or writes again, the event row of the request.
LEMMA TakeStep ==
  ASSUME IInv, NEW w \in Workers, NEW label, NEW new, Moves(w, label, new),
         req[w].event \in Events, EventFree(w, req[w].event),
         NEW row \in EventRows, row.status # "ABSENT",
         TakeEvent(w, req[w].event, row),
         UNCHANGED <<events, regs, dirty, rlock, mail, now>>,
         label \in HoldsEvent,
         RequestOK(w)',
         SeatsFit(w, req[w].event)'
  PROVE  IInv'
<1> USE DEF IInv, Structure
<1> DEFINE e == req[w].event
<1>1. TypeOK'
  BY DEF TypeOK, Moves, TakeEvent
<1>2. \A v \in Workers : req'[v].event = req[v].event
  BY DEF Moves, TypeOK
<1>3. \A v \in Workers \ {w} : pc'[v] = pc[v] /\ req'[v] = req[v]
  BY DEF Moves, TypeOK
<1>4. pc'[w] = label /\ req'[w] = new
  BY DEF Moves, TypeOK
<1>5. /\ elock[e] \in {None, w} /\ elock'[e] = w /\ edirty'[e] = row
      /\ \A f \in Events \ {e} : elock'[f] = elock[f] /\ edirty'[f] = edirty[f]
  BY DEF TakeEvent, EventFree, TypeOK
<1>6. w # None
  BY NoneAssumption
<1>7. RequestInv'
  <2> SUFFICES ASSUME NEW v \in Workers, v # w PROVE RequestOK(v)'
    BY DEF RequestInv
  <2> QED
    BY <1>3 DEF RequestInv, RequestOK, OfEvent, Visible
<1>8. RowInv'
  <2> SUFFICES ASSUME NEW r \in RegIds, rlock[r] # None
      PROVE  /\ pc'[rlock[r]] \in HoldsEvent \cup {"sweep"}
             /\ pc'[rlock[r]] = "sweep" => dirty[r].status = "CANCELLED"
    BY <1>2 DEF RowInv, TypeOK
  <2>1. CASE rlock[r] = w
    BY <1>4, <2>1 DEF HoldsEvent
  <2>2. CASE rlock[r] # w
    BY <1>3, <2>2 DEF RowInv, TypeOK
  <2> QED
    BY <2>1, <2>2
<1>9. LockInv'
  <2>1. ASSUME NEW v \in Workers, pc'[v] \in HoldsEvent PROVE elock'[req'[v].event] = v
    <3>1. CASE v = w
      BY <1>2, <1>5, <3>1
    <3>2. CASE v # w
      <4>1. req[v].event \in Events /\ elock[req[v].event] = v
        BY <1>3, <2>1, <3>2 DEF LockInv, RequestInv, RequestOK, HoldsEvent
      <4> QED
        BY <1>2, <1>5, <3>2, <4>1, NoneAssumption
    <3> QED
      BY <3>1, <3>2
  <2>2. ASSUME NEW f \in Events, elock'[f] # None
        PROVE  pc'[elock'[f]] \in HoldsEvent /\ req'[elock'[f]].event = f
    <3>1. CASE f = e
      BY <1>2, <1>4, <1>5, <3>1
    <3>2. CASE f # e
      <4>1. elock'[f] = elock[f] /\ elock[f] \in Workers
        BY <1>5, <2>2, <3>2 DEF TypeOK
      <4>2. elock[f] # w
        BY <3>2, <1>6 DEF LockInv
      <4> QED
        BY <1>3, <4>1, <4>2, <2>2 DEF LockInv
    <3> QED
      BY <3>1, <3>2
  <2> QED
    BY <2>1, <2>2 DEF LockInv
<1>10. AbsentInv'
  BY <1>5 DEF AbsentInv
<1>11. SeatInv'
  <2> SUFFICES ASSUME NEW f \in Events, elock'[f] # None PROVE SeatsFit(elock[f], f)'
    BY DEF SeatInv
  <2>1. CASE f = e
    <3>1. elock'[f] = w /\ req'[w].event = f
      BY <1>2, <1>5, <2>1
    <3> QED
      BY <3>1
  <2>2. CASE f # e
    <3> DEFINE v == elock[f]
    <3>1. elock'[f] = v /\ edirty'[f] = edirty[f] /\ v # None
      BY <1>5, <2>2
    <3>2. v \in Workers \ {w} /\ req[v].event = f
      BY <2>2, <3>1, <1>6 DEF TypeOK, LockInv
    <3>3. pc'[v] = pc[v] /\ req'[v] = req[v]
      BY <1>3, <3>2
    <3>4. Seats(v, f)' = Seats(v, f)
      BY <3>1 DEF Seats, Rows, Visible
    <3>5. Patched(v)' = Patched(v)
      BY <3>1, <3>2, <3>3 DEF Patched, VisibleEvent
    <3>6. SeatsFit(v, f)
      BY <3>1 DEF SeatInv
    <3> QED
      BY <3>1, <3>3, <3>4, <3>5, <3>6 DEF SeatsFit
  <2> QED
    BY <2>1, <2>2
<1>12. NoOverbooking'
  BY DEF NoOverbooking, Committed
<1> QED
  BY <1>1, <1>7, <1>8, <1>9, <1>10, <1>11, <1>12

\* The end of a transaction that keeps nothing.
LEMMA RollbackStep ==
  ASSUME IInv, NEW w \in Workers, Rollback(w)
  PROVE  IInv'
<1> USE DEF IInv, Structure
<1>1. TypeOK'
  BY RollbackType
<1>2. /\ pc'[w] = "idle" /\ \A v \in Workers \ {w} : pc'[v] = pc[v] /\ req'[v] = req[v]
      /\ events' = events /\ regs' = regs
  BY DEF Rollback, Goto, Note, TypeOK
<1>3. w # None
  BY NoneAssumption
<1>4. \A r \in RegIds : IF rlock[r] = w THEN rlock'[r] = None
                        ELSE rlock'[r] = rlock[r] /\ dirty'[r] = dirty[r]
  BY DEF Rollback, Release, TypeOK
<1>5. \A e \in Events : IF elock[e] = w THEN elock'[e] = None
                        ELSE elock'[e] = elock[e] /\ edirty'[e] = edirty[e]
  BY DEF Rollback, Release, TypeOK
<1>6. \A v \in Workers \ {w}, r \in RegIds : Visible(v, r)' = Visible(v, r)
  BY <1>2, <1>3, <1>4, NoneAssumption DEF Visible
<1>7. RequestInv'
  <2> SUFFICES ASSUME NEW v \in Workers PROVE RequestOK(v)'
    BY DEF RequestInv
  <2>1. CASE v = w
    BY <1>2, <2>1 DEF RequestOK
  <2>2. CASE v # w
    BY <1>2, <1>6, <2>2 DEF RequestInv, RequestOK, OfEvent
  <2> QED
    BY <2>1, <2>2
<1>8. RowInv'
  <2> SUFFICES ASSUME NEW r \in RegIds, rlock'[r] # None
      PROVE  /\ pc'[rlock'[r]] \in HoldsEvent \cup {"sweep"}
             /\ pc'[rlock'[r]] = "sweep" => dirty'[r].status = "CANCELLED"
             /\ dirty'[r].status # "ABSENT"
             /\ dirty'[r].event = req'[rlock'[r]].event
             /\ regs[r].status # "ABSENT" => regs[r].event = dirty'[r].event
    BY <1>2 DEF RowInv
  <2>1. rlock[r] \in Workers \ {w} /\ rlock'[r] = rlock[r] /\ dirty'[r] = dirty[r]
    BY <1>4 DEF TypeOK
  <2> QED
    BY <1>2, <2>1, NoneAssumption DEF RowInv
<1>9. LockInv'
  <2>1. ASSUME NEW v \in Workers, pc'[v] \in HoldsEvent PROVE elock'[req'[v].event] = v
    <3>1. v # w
      BY <1>2, <2>1 DEF HoldsEvent
    <3>2. req[v].event \in Events /\ elock[req[v].event] = v
      BY <1>2, <2>1, <3>1 DEF LockInv, RequestInv, RequestOK, HoldsEvent
    <3> QED
      BY <1>2, <1>5, <3>1, <3>2
  <2>2. ASSUME NEW e \in Events, elock'[e] # None
        PROVE  pc'[elock'[e]] \in HoldsEvent /\ req'[elock'[e]].event = e
    <3>1. elock[e] \in Workers \ {w} /\ elock'[e] = elock[e]
      BY <1>5, <2>2 DEF TypeOK
    <3> QED
      BY <1>2, <2>2, <3>1 DEF LockInv
  <2> QED
    BY <2>1, <2>2 DEF LockInv
<1>10. AbsentInv'
  BY <1>2, <1>5 DEF AbsentInv
<1>11. SeatInv'
  <2> SUFFICES ASSUME NEW e \in Events, elock'[e] # None PROVE SeatsFit(elock[e], e)'
    BY DEF SeatInv
  <2> DEFINE v == elock[e]
  <2>1. v \in Workers \ {w} /\ elock'[e] = v /\ edirty'[e] = edirty[e]
    BY <1>5 DEF TypeOK
  <2>2. v # None /\ req[v].event = e
    BY <2>1, NoneAssumption DEF LockInv
  <2>3. pc'[v] = pc[v] /\ req'[v] = req[v]
    BY <1>2, <2>1
  <2>4. Seats(v, e)' = Seats(v, e)
    BY <1>6, <2>1 DEF Seats, Rows
  <2>5. Patched(v)' = Patched(v)
    BY <2>1, <2>2, <2>3 DEF Patched, VisibleEvent
  <2>6. SeatsFit(v, e)
    BY <2>2 DEF SeatInv
  <2> QED
    BY <2>1, <2>3, <2>4, <2>5, <2>6 DEF SeatsFit
<1>12. NoOverbooking'
  BY <1>2 DEF NoOverbooking, Committed
<1> QED
  BY <1>1, <1>7, <1>8, <1>9, <1>10, <1>11, <1>12

\* The end of a transaction that keeps everything it wrote.
LEMMA CommitStep ==
  ASSUME IInv, NEW w \in Workers, Commit(w)
  PROVE  IInv'
<1> USE DEF IInv, Structure
<1> DEFINE f == req[w].event
<1>1. f \in Events /\ elock[f] = w /\ pc[w] = "commit" /\ w # None
  BY NoneAssumption DEF Commit, LockInv, RequestInv, RequestOK, HoldsEvent
<1>2. /\ pc'[w] \in {"idle", "announce"} /\ req'[w] \in {req[w], NoRequest}
      /\ pc'[w] = "announce" => req'[w] = req[w]
      /\ \A v \in Workers \ {w} : pc'[v] = pc[v] /\ req'[v] = req[v]
      /\ pc' \in [Workers -> Labels] /\ req' \in [Workers -> Requests]
  BY NoRequestType DEF Commit, Goto, Note, TypeOK, Labels
<1>3. \A r \in RegIds : IF rlock[r] = w THEN rlock'[r] = None /\ regs'[r] = dirty[r]
                        ELSE /\ rlock'[r] = rlock[r] /\ dirty'[r] = dirty[r]
                             /\ regs'[r] = regs[r]
  BY DEF Commit, Release, Visible, TypeOK
<1>4. \A e \in Events : IF elock[e] = w THEN elock'[e] = None /\ events'[e] = edirty[e]
                        ELSE /\ elock'[e] = elock[e] /\ edirty'[e] = edirty[e]
                             /\ events'[e] = events[e]
  BY DEF Commit, Release, VisibleEvent, TypeOK
<1>5. \A e \in Events : elock[e] = w => e = f
  BY <1>1 DEF LockInv
<1>6. \A r \in RegIds : rlock[r] = w =>
        /\ dirty[r].status # "ABSENT" /\ dirty[r].event = f
        /\ regs[r].status # "ABSENT" => regs[r].event = f
  BY <1>1 DEF RowInv
<1>7. TypeOK'
  <2>1. /\ edirty' \in [Events -> EventRows] /\ elock' \in [Events -> Workers \cup {None}]
        /\ dirty' \in [RegIds -> RegRows] /\ rlock' \in [RegIds -> Workers \cup {None}]
    BY ReleaseType DEF Commit
  <2>2. events' \in [Events -> EventRows] /\ regs' \in [RegIds -> RegRows]
    BY VisibleType DEF Commit
  <2> QED
    BY <1>2, <2>1, <2>2 DEF TypeOK, Commit
<1>8. \A v \in Workers \ {w}, r \in RegIds :
        OfEvent(v, r) => OfEvent(v, r)'
  BY <1>1, <1>2, <1>3, <1>6, NoneAssumption DEF OfEvent, Visible
<1>9. RequestInv'
  <2> SUFFICES ASSUME NEW v \in Workers PROVE RequestOK(v)'
    BY DEF RequestInv
  <2>1. CASE v = w
    BY <1>1, <1>2, <2>1 DEF RequestOK
  <2>2. CASE v # w
    <3>1. pc'[v] = pc[v] /\ req'[v] = req[v] /\ RequestOK(v)
      BY <1>2, <2>2 DEF RequestInv
    <3>2. \A r : OfEvent(v, r) => OfEvent(v, r)'
      BY <1>8, <2>2 DEF OfEvent
    <3> QED
      BY <3>1, <3>2 DEF RequestOK
  <2> QED
    BY <2>1, <2>2
<1>10. RowInv'
  <2> SUFFICES ASSUME NEW r \in RegIds
      PROVE  /\ regs'[r].status # "ABSENT" => regs'[r].event \in Events
             /\ rlock'[r] # None =>
                  /\ pc'[rlock'[r]] \in HoldsEvent \cup {"sweep"}
                  /\ pc'[rlock'[r]] = "sweep" => dirty'[r].status = "CANCELLED"
                  /\ dirty'[r].status # "ABSENT"
                  /\ dirty'[r].event = req'[rlock'[r]].event
                  /\ regs'[r].status # "ABSENT" => regs'[r].event = dirty'[r].event
    BY DEF RowInv
  <2>1. CASE rlock[r] = w
    BY <1>1, <1>3, <1>6, <2>1
  <2>2. CASE rlock[r] # w
    <3>1. rlock[r] \in (Workers \ {w}) \cup {None}
      BY <2>2 DEF TypeOK
    <3> QED
      BY <1>2, <1>3, <2>2, <3>1 DEF RowInv
  <2> QED
    BY <2>1, <2>2
<1>11. LockInv'
  <2>1. ASSUME NEW v \in Workers, pc'[v] \in HoldsEvent PROVE elock'[req'[v].event] = v
    <3>1. v # w
      BY <1>2, <2>1 DEF HoldsEvent
    <3>2. req[v].event \in Events /\ elock[req[v].event] = v
      BY <1>2, <2>1, <3>1 DEF LockInv, RequestInv, RequestOK, HoldsEvent
    <3> QED
      BY <1>2, <1>4, <3>1, <3>2
  <2>2. ASSUME NEW e \in Events, elock'[e] # None
        PROVE  pc'[elock'[e]] \in HoldsEvent /\ req'[elock'[e]].event = e
    <3>1. elock[e] \in Workers \ {w} /\ elock'[e] = elock[e]
      BY <1>4, <2>2 DEF TypeOK
    <3> QED
      BY <1>2, <2>2, <3>1 DEF LockInv
  <2> QED
    BY <2>1, <2>2 DEF LockInv
<1>12. AbsentInv'
  BY <1>1, <1>4, <1>5 DEF AbsentInv
<1>13. \A e \in Events \ {f} :
         /\ Committed(e, "CONFIRMED")' = Committed(e, "CONFIRMED")
         /\ \A v \in Workers \ {w} : Rows(v, e, "CONFIRMED")' = Rows(v, e, "CONFIRMED")
  <2> SUFFICES ASSUME NEW e \in Events \ {f}, NEW r \in RegIds
      PROVE  /\ (regs'[r].event = e /\ regs'[r].status = "CONFIRMED")
                  <=> (regs[r].event = e /\ regs[r].status = "CONFIRMED")
             /\ \A v \in Workers \ {w} :
                  (Visible(v, r)'.event = e /\ Visible(v, r)'.status = "CONFIRMED")
                    <=> (Visible(v, r).event = e /\ Visible(v, r).status = "CONFIRMED")
    BY DEF Committed, Rows
  <2>1. CASE rlock[r] = w
    BY <1>1, <1>3, <1>6, <2>1, NoneAssumption DEF Visible
  <2>2. CASE rlock[r] # w
    BY <1>3, <2>2 DEF Visible
  <2> QED
    BY <2>1, <2>2
<1>14. SeatInv'
  <2> SUFFICES ASSUME NEW e \in Events, elock'[e] # None PROVE SeatsFit(elock[e], e)'
    BY DEF SeatInv
  <2> DEFINE v == elock[e]
  <2>1. v \in Workers \ {w} /\ elock'[e] = v /\ edirty'[e] = edirty[e]
    BY <1>4 DEF TypeOK
  <2>2. v # None /\ req[v].event = e /\ e # f
    BY <1>1, <2>1, NoneAssumption DEF LockInv
  <2>3. pc'[v] = pc[v] /\ req'[v] = req[v]
    BY <1>2, <2>1
  <2>4. Seats(v, e)' = Seats(v, e)
    BY <1>13, <2>1, <2>2 DEF Seats
  <2>5. Patched(v)' = Patched(v)
    BY <2>1, <2>2, <2>3 DEF Patched, VisibleEvent
  <2>6. SeatsFit(v, e)
    BY <2>2 DEF SeatInv
  <2> QED
    BY <2>1, <2>3, <2>4, <2>5, <2>6 DEF SeatsFit
<1>15. NoOverbooking'
  <2> SUFFICES ASSUME NEW e \in Events
      PROVE  Cardinality(Committed(e, "CONFIRMED")') <= events'[e].capacity
    BY DEF NoOverbooking
  <2>1. CASE e = f
    <3>1. Committed(e, "CONFIRMED")' = Rows(w, e, "CONFIRMED")
      BY DEF Commit, Committed, Rows
    <3>2. Seats(w, e) <= edirty[e].capacity /\ events'[e] = edirty[e]
      BY <1>1, <1>4, <2>1 DEF SeatInv, SeatsFit
    <3> QED
      BY <3>1, <3>2 DEF Seats
  <2>2. CASE e # f
    BY <1>4, <1>5, <1>13, <2>2 DEF NoOverbooking
  <2> QED
    BY <2>1, <2>2
<1> QED
  BY <1>7, <1>9, <1>10, <1>11, <1>12, <1>14, <1>15

\* A new event has no registrations, and nobody is about to commit it.
LEMMA CreateStep ==
  ASSUME IInv, NEW e \in Events, NEW dto \in NewEvents, Create(e, dto)
  PROVE  IInv'
<1> USE DEF IInv, Structure
<1>1. NewRow(dto) \in EventRows /\ NewRow(dto).status = "DRAFT"
  BY NewEventsAssumption DEF NewRow, AbsentEvent
<1>2. TypeOK'
  BY <1>1 DEF Create, TypeOK
<1>3. RequestInv' /\ RowInv' /\ LockInv'
  BY DEF Create, RequestInv, RequestOK, OfEvent, Visible, RowInv, LockInv
<1>4. AbsentInv'
  BY <1>1 DEF Create, AbsentInv, TypeOK
<1>5. SeatInv'
  <2> SUFFICES ASSUME NEW g \in Events, elock[g] # None PROVE SeatsFit(elock[g], g)'
    BY DEF SeatInv, Create
  <2> DEFINE v == elock[g]
  <2>1. v \in Workers /\ req[v].event = g
    BY DEF TypeOK, LockInv
  <2>2. Patched(v)' = Patched(v)
    BY <2>1 DEF Create, Patched, VisibleEvent
  <2>3. Seats(v, g)' = Seats(v, g)
    BY DEF Create, Seats, Rows, Visible
  <2> QED
    BY <2>2, <2>3 DEF Create, SeatInv, SeatsFit
<1>6. NoOverbooking'
  <2>1. Committed(e, "CONFIRMED")' = Committed(e, "CONFIRMED")
    BY DEF Create, Committed
  <2>2. Cardinality(Committed(e, "CONFIRMED")) <= 0
    BY DEF Create, AbsentInv, NoOverbooking
  <2>3. events'[e].capacity \in Nat
    BY <1>2 DEF TypeOK, EventRows
  <2>4. Cardinality(Committed(e, "CONFIRMED")') <= events'[e].capacity
    BY <2>1, <2>2, <2>3, RowsFinite
  <2> QED
    BY <2>4 DEF Create, NoOverbooking, Committed, TypeOK
<1> QED
  BY <1>2, <1>3, <1>4, <1>5, <1>6

\* The clock, and a step that changes nothing.
LEMMA IdleStep ==
  ASSUME IInv, Tick \/ UNCHANGED vars
  PROVE  IInv'
<1> USE DEF IInv, Structure
<1>1. /\ UNCHANGED <<events, edirty, elock, regs, dirty, rlock, pc, req, mail>>
      /\ now' \in Nat
  BY DEF Tick, vars, rowVars, TypeOK
<1>2. TypeOK'
  BY <1>1 DEF TypeOK
<1>3. RequestInv' /\ RowInv' /\ LockInv' /\ AbsentInv'
  BY <1>1 DEF RequestInv, RequestOK, OfEvent, Visible, RowInv, LockInv, AbsentInv
<1>4. SeatInv' /\ NoOverbooking'
  BY <1>1 DEF SeatInv, SeatsFit, Seats, Rows, Visible, Patched, VisibleEvent,
              NoOverbooking, Committed
<1> QED
  BY <1>2, <1>3, <1>4

-----------------------------------------------------------------------------
(* One lemma per group of actions: the step is one of the frames above.    *)

\* A request that holds no lock yet sees nothing but committed rows.
LEMMA Unlocked ==
  ASSUME Structure, NEW w \in Workers, pc[w] \notin HoldsEvent \cup {"sweep"}
  PROVE  /\ \A r \in RegIds : rlock[r] # w /\ Visible(w, r) = regs[r]
         /\ \A s, e : Rows(w, e, s) = Committed(e, s)
<1>1. \A r \in RegIds : rlock[r] # w
  BY NoneAssumption DEF Structure, RowInv, TypeOK
<1>2. \A r \in RegIds : Visible(w, r) = regs[r]
  BY <1>1 DEF Visible
<1> QED
  BY <1>1, <1>2 DEF Rows, Committed

\* A request that begins holds no lock and carries what its first statement needs.
LEMMA BeginStep ==
  ASSUME IInv, NEW w \in Workers, NEW op \in Operations,
         NEW label \in {"lock", "publish", "snapshot", "delete"},
         NEW request \in Requests, request.event \in Events,
         Begin(w, op, label, request),
         label = "lock" => op \in {"register", "cancelRegistration", "update"},
         op = "update" => request.patch \in Patches,
         op = "cancelRegistration" =>
           /\ request.reg \in RegIds
           /\ regs[request.reg].status # "ABSENT"
           /\ regs[request.reg].event = request.event
  PROVE  IInv'
<1> DEFINE new == [request EXCEPT !.op = op]
<1>1. new \in Requests /\ label \in Labels
  BY DEF Requests, Labels
<1>2. /\ pc' = [pc EXCEPT ![w] = label] /\ req' = [req EXCEPT ![w] = new]
      /\ events' = events /\ mail' = mail /\ pc[w] = "idle"
      /\ UNCHANGED <<edirty, elock, regs, dirty, rlock, now>>
  BY DEF Begin, Goto, Note, rowVars
<1>3. /\ new.op = op /\ new.event = request.event /\ new.reg = request.reg
      /\ new.patch = request.patch
  BY DEF Requests
<1>4. pc[w] \notin HoldsEvent \cup {"sweep"} /\ label \notin HoldsEvent \cup {"sweep"}
  BY <1>2 DEF HoldsEvent
<1>5. pc'[w] = label /\ req'[w] = new
  BY <1>2 DEF IInv, Structure, TypeOK
<1>6. op = "cancelRegistration" => OfEvent(w, request.reg)'
  <2> SUFFICES ASSUME op = "cancelRegistration" PROVE OfEvent(w, request.reg)'
    OBVIOUS
  <2>1. Visible(w, request.reg)' = regs[request.reg]
    BY <1>2, <1>4, Unlocked DEF IInv, Visible
  <2> QED
    BY <1>3, <1>5, <2>1 DEF OfEvent
<1>7. RequestOK(w)'
  BY <1>3, <1>5, <1>6 DEF RequestOK
<1>8. mail' \in [RegIds -> Nat] /\ events' \in [Events -> EventRows]
  BY <1>2 DEF IInv, Structure, TypeOK
<1> QED
  BY <1>1, <1>2, <1>4, <1>7, <1>8, FreeStep

\* Each of the six operations begins that way.
LEMMA StartStep ==
  ASSUME IInv, NEW w \in Workers, Start(w)
  PROVE  IInv'
<1>1. ASSUME NEW e \in Events, NEW a \in Attendees, StartRegister(w, e, a) PROVE IInv'
  <2> DEFINE request == [NoRequest EXCEPT !.event = e, !.attendee = a]
  <2>1. request \in Requests /\ request.event = e
    BY DEF NoRequest, Requests
  <2> QED
    BY <1>1, <2>1, BeginStep DEF StartRegister, Operations
<1>2. ASSUME NEW r \in RegIds, StartCancelRegistration(w, r) PROVE IInv'
  <2> DEFINE request == [NoRequest EXCEPT !.reg = r, !.event = regs[r].event]
  <2>1. regs[r].status # "ABSENT" /\ regs[r].event \in Events
    BY <1>2 DEF StartCancelRegistration, ActiveStatuses, IInv, Structure, RowInv
  <2>2. request \in Requests /\ request.event = regs[r].event /\ request.reg = r
    BY <2>1 DEF NoRequest, Requests
  <2> QED
    BY <1>2, <2>1, <2>2, BeginStep DEF StartCancelRegistration, Operations
<1>3. ASSUME NEW e \in Events, NEW patch \in Patches, StartUpdate(w, e, patch) PROVE IInv'
  <2> DEFINE request == [NoRequest EXCEPT !.event = e, !.patch = patch]
  <2>1. request \in Requests /\ request.event = e /\ request.patch = patch
    BY DEF NoRequest, Requests
  <2> QED
    BY <1>3, <2>1, BeginStep DEF StartUpdate, Operations
<1>4. ASSUME NEW e \in Events,
             StartPublish(w, e) \/ StartCancelEvent(w, e) \/ StartRemove(w, e)
      PROVE  IInv'
  <2> DEFINE request == [NoRequest EXCEPT !.event = e]
  <2>1. request \in Requests /\ request.event = e
    BY DEF NoRequest, Requests
  <2> QED
    BY <1>4, <2>1, BeginStep DEF StartPublish, StartCancelEvent, StartRemove, Operations
<1> QED
  BY <1>1, <1>2, <1>3, <1>4 DEF Start

\* The two statements that commit by themselves, or write no row at all.
LEMMA PublishStep ==
  ASSUME IInv, NEW w \in Workers, Publish(w) \/ Announce(w)
  PROVE  IInv'
<1>1. /\ pc' = [pc EXCEPT ![w] = "idle"] /\ req' = [req EXCEPT ![w] = NoRequest]
      /\ UNCHANGED <<edirty, elock, regs, dirty, rlock, now>>
      /\ pc[w] \in {"publish", "announce"}
  BY DEF Publish, Announce, Goto, Note, rowVars
<1>2. mail' \in [RegIds -> Nat]
  BY DEF Publish, Announce, IInv, Structure, TypeOK
<1>3. /\ events' \in [Events -> EventRows]
      /\ \A e \in Events : /\ events'[e].capacity = events[e].capacity
                           /\ events'[e].status = "ABSENT" => events[e].status = "ABSENT"
  <2>1. CASE Publish(w)
    <3> DEFINE f == req[w].event
    <3>1. f \in Events
      BY <2>1 DEF Publish, IInv, Structure, RequestInv, RequestOK
    <3> DEFINE row == [events[f] EXCEPT !.status = "PUBLISHED"]
    <3>2. events' = [events EXCEPT ![f] = row]
      BY <2>1 DEF Publish
    <3>3. row \in EventRows /\ row.capacity = events[f].capacity /\ row.status = "PUBLISHED"
      <4>1. events[f] \in EventRows
        BY <3>1 DEF IInv, Structure, TypeOK
      <4> QED
        BY <4>1, StatusEdit
    <3> QED
      BY <3>1, <3>2, <3>3 DEF IInv, Structure, TypeOK
  <2>2. CASE Announce(w)
    BY <2>2 DEF Announce, rowVars, IInv, Structure, TypeOK
  <2> QED
    BY <2>1, <2>2
<1>4. pc'[w] = "idle"
  BY <1>1 DEF IInv, Structure, TypeOK
<1>5. RequestOK(w)'
  BY <1>4 DEF RequestOK
<1> QED
  BY <1>1, <1>2, <1>3, <1>5, NoRequestType, FreeStep DEF Labels, HoldsEvent

\* A request past its first lock sees the event row it holds.
LEMMA Holding ==
  ASSUME IInv, NEW w \in Workers, pc[w] \in HoldsEvent
  PROVE  /\ req[w] \in Requests /\ RequestOK(w)
         /\ req[w].event \in Events /\ elock[req[w].event] = w
         /\ VisibleEvent(w, req[w].event) = edirty[req[w].event]
         /\ edirty[req[w].event] \in EventRows
         /\ edirty[req[w].event].capacity \in Nat
         /\ Seats(w, req[w].event) \in Nat
         /\ SeatsFit(w, req[w].event)
<1>1. req[w].event \in Events /\ elock[req[w].event] = w
  BY DEF IInv, Structure, RequestInv, RequestOK, LockInv, HoldsEvent
<1>2. edirty[req[w].event] \in EventRows
  BY <1>1 DEF IInv, Structure, TypeOK
<1>3. SeatsFit(w, req[w].event)
  BY <1>1, NoneAssumption DEF IInv, SeatInv
<1> QED
  BY <1>1, <1>2, <1>3, RowsFinite
     DEF VisibleEvent, EventRows, Seats, IInv, Structure, TypeOK, RequestInv

\* A registration is confirmed only while a seat is free.
LEMMA DecideConfirmed ==
  ASSUME NEW event, NEW time, NEW confirmedCount,
         decideRegistration(event, time, confirmedCount) = "CONFIRMED"
  PROVE  confirmedCount < event.capacity
  BY DEF decideRegistration

\* register: the decision and the ticket are reads of a transaction that holds the
\* event; a CONFIRMED decision means that a seat is free.
LEMMA RegisterReads ==
  ASSUME IInv, NEW w \in Workers, RegisterDecide(w) \/ RegisterPosition(w)
  PROVE  IInv'
<1> DEFINE e == req[w].event
<1> USE DEF HoldsEvent
<1>1. req[w] \in Requests /\ req[w].event \in Events
  BY Holding DEF RegisterDecide, RegisterPosition
<1>2. CASE RegisterDecide(w)
  <2> DEFINE new   == [req[w] EXCEPT !.status = Decision(w)]
             label == IF Decision(w) = "WAITLISTED" THEN "position" ELSE "insert"
  <2>1. pc[w] = "decide" /\ UNCHANGED <<rowVars, mail, now>> /\ Decision(w) \in ActiveStatuses
    BY <1>2 DEF RegisterDecide
  <2>2. /\ Moves(w, label, new) /\ new.status = Decision(w)
        /\ label \in {"position", "insert"}
        /\ label = "position" => Decision(w) = "WAITLISTED"
    BY <1>1, <1>2, <2>1 DEF RegisterDecide, Moves, Goto, Note, Requests, Labels
  <2> HIDE DEF new, label
  <2>3. pc'[w] = label /\ req'[w] = new
    BY <2>2 DEF Moves, IInv, Structure, TypeOK
  <2>4. RequestOK(w)'
    BY <1>1, <2>1, <2>2, <2>3 DEF RequestOK, Moves, ActiveStatuses
  <2>5. Decision(w) = "CONFIRMED" => Seats(w, e) < edirty[e].capacity
    BY <2>1, Holding, DecideConfirmed DEF Decision, Seats
  <2>6. Seats(w, e)' = Seats(w, e) /\ edirty' = edirty /\ req'[w].event = e
    BY <2>1, <2>2, <2>3 DEF Seats, Rows, Visible, rowVars, Moves
  <2>7. Seats(w, e) <= edirty[e].capacity
    BY <2>1, Holding DEF SeatsFit
  <2>8. SeatsFit(w, req[w].event)'
    BY <2>2, <2>3, <2>5, <2>6, <2>7 DEF SeatsFit
  <2> QED
    BY <2>1, <2>2, <2>4, <2>8, ReadStep
<1>3. CASE RegisterPosition(w)
  <2> DEFINE tickets == {Ticket(w)[r] : r \in Rows(w, e, "WAITLISTED")} \ {Null}
  <2>1. /\ pc[w] = "position" /\ UNCHANGED <<rowVars, mail, now>>
        /\ pc' = [pc EXCEPT ![w] = "insert"]
    BY <1>3 DEF RegisterPosition, Goto
  <2>2. PICK next \in nextWaitlistPosition(tickets) :
          req' = [req EXCEPT ![w] = [req[w] EXCEPT !.position = next]]
    BY <1>3 DEF RegisterPosition, WaitingTickets, Note
  <2> DEFINE new == [req[w] EXCEPT !.position = next]
  <2>3. tickets \in SUBSET Nat
    BY VisibleType DEF Ticket, Rows, RegRows, IInv, Structure
  <2>4. next \in Nat
    BY <2>2, <2>3 DEF nextWaitlistPosition
  <2>5. Moves(w, "insert", new) /\ new.status = req[w].status
    BY <1>1, <2>1, <2>2, <2>4 DEF Moves, Requests, Labels
  <2> HIDE DEF new
  <2>6. pc'[w] = "insert" /\ req'[w] = new /\ req[w].status = "WAITLISTED"
    BY <2>1, <2>5 DEF Moves, IInv, Structure, TypeOK, RequestInv, RequestOK
  <2>7. RequestOK(w)'
    BY <1>1, <2>5, <2>6 DEF RequestOK, Moves, ActiveStatuses
  <2>8. Seats(w, e)' = Seats(w, e) /\ edirty' = edirty /\ req'[w].event = e
    BY <2>1, <2>5, <2>6 DEF Seats, Rows, Visible, rowVars, Moves
  <2>9. Seats(w, e) <= edirty[e].capacity
    BY <2>1, Holding DEF SeatsFit
  <2>10. SeatsFit(w, req[w].event)'
    BY <2>5, <2>6, <2>8, <2>9 DEF SeatsFit
  <2> QED
    BY <2>1, <2>5, <2>7, <2>10, ReadStep
<1> QED
  BY <1>2, <1>3

\* What selectForPromotion returns: part of the queue, no larger than the seats.
LEMMA SelectionFits ==
  ASSUME NEW queue, NEW ticket, NEW seats, NEW chosen \in selectForPromotion(queue, ticket, seats)
  PROVE  chosen \in SUBSET queue /\ Cardinality(chosen) <= seats
  BY DEF selectForPromotion

\* cancel: the re-read under the lock changes nothing but the request.
LEMMA RereadStep ==
  ASSUME IInv, NEW w \in Workers, Reread(w)
  PROVE  IInv'
<1> USE DEF HoldsEvent
<1> DEFINE e   == req[w].event
           new == [req[w] EXCEPT !.status = Visible(w, req[w].reg).status]
<1>1. /\ pc[w] = "reread" /\ UNCHANGED <<rowVars, mail, now>>
      /\ Visible(w, req[w].reg).status \in ActiveStatuses
  BY DEF Reread
<1>2. req[w] \in Requests /\ RequestOK(w)
  BY <1>1, Holding
<1>3. Moves(w, "cancelRow", new) /\ new.reg = req[w].reg
  BY <1>1, <1>2 DEF Reread, Moves, Goto, Note, Requests, Labels
<1> HIDE DEF new
<1>4. pc'[w] = "cancelRow" /\ req'[w] = new
  BY <1>3 DEF Moves, IInv, Structure, TypeOK
<1>5. RequestOK(w)'
  BY <1>1, <1>2, <1>3, <1>4 DEF RequestOK, Moves, OfEvent, Visible, rowVars
<1>6. Seats(w, e)' = Seats(w, e) /\ edirty' = edirty /\ req'[w].event = e
  BY <1>1, <1>3, <1>4 DEF Seats, Rows, Visible, rowVars, Moves
<1>7. Seats(w, e) <= edirty[e].capacity
  BY <1>1, Holding DEF SeatsFit
<1>8. SeatsFit(w, req[w].event)'
  BY <1>3, <1>4, <1>6, <1>7 DEF SeatsFit
<1> QED
  BY <1>1, <1>3, <1>5, <1>8, ReadStep

\* promote: no more rows are chosen than seats are free.
LEMMA PromoteStep ==
  ASSUME IInv, NEW w \in Workers, Promote(w)
  PROVE  IInv'
<1> USE DEF HoldsEvent
<1> DEFINE e     == req[w].event
           seats == seatsAvailable(VisibleEvent(w, e).capacity, Seats(w, e))
           queue == Rows(w, e, "WAITLISTED")
<1>1. pc[w] = "promote" /\ UNCHANGED <<rowVars, mail, now>>
  BY DEF Promote
<1>2. req[w] \in Requests /\ e \in Events
  BY <1>1, Holding
<1>3. PICK chosen \in selectForPromotion(queue, Ticket(w), seats) :
        /\ req' = [req EXCEPT ![w] = [req[w] EXCEPT !.todo = chosen, !.promoted = chosen]]
        /\ pc' = [pc EXCEPT ![w] = IF chosen = {} THEN "commit" ELSE "promoteRow"]
  BY DEF Promote, Note, Goto, Seats
<1>4. chosen \in SUBSET queue /\ queue \in SUBSET RegIds /\ Cardinality(chosen) <= seats
  BY SelectionFits DEF Rows
<1> DEFINE new   == [req[w] EXCEPT !.todo = chosen, !.promoted = chosen]
           label == IF chosen = {} THEN "commit" ELSE "promoteRow"
<1>5. Moves(w, label, new) /\ new.todo = chosen /\ label \in {"commit", "promoteRow"}
  BY <1>2, <1>3, <1>4 DEF Moves, Requests, Labels
<1> HIDE DEF new, label
<1>6. pc'[w] = label /\ req'[w] = new
  BY <1>5 DEF Moves, IInv, Structure, TypeOK
<1>7. \A r \in chosen : OfEvent(w, r)'
  BY <1>1, <1>4, <1>5, <1>6 DEF OfEvent, Rows, Visible, rowVars, Moves
<1>8. RequestOK(w)'
  BY <1>2, <1>5, <1>6, <1>7 DEF RequestOK, Moves
<1>9. Seats(w, e)' = Seats(w, e) /\ edirty' = edirty /\ req'[w].event = e
  BY <1>1, <1>5, <1>6 DEF Seats, Rows, Visible, rowVars, Moves
<1>10. /\ Seats(w, e) <= edirty[e].capacity
       /\ Seats(w, e) \in Nat /\ edirty[e].capacity \in Nat
       /\ VisibleEvent(w, e) = edirty[e]
  BY <1>1, Holding DEF SeatsFit
<1>11. Cardinality(chosen) \in Nat
  BY <1>4, IdsFinite
<1>12. Seats(w, e) + Cardinality(chosen) <= edirty[e].capacity
  BY <1>4, <1>10, <1>11 DEF seatsAvailable
<1>13. SeatsFit(w, req[w].event)'
  BY <1>5, <1>6, <1>9, <1>10, <1>12 DEF SeatsFit
<1> QED
  BY <1>1, <1>5, <1>8, <1>13, ReadStep

\* update: the new capacity covers the seats that are taken.
LEMMA UpdateCheckStep ==
  ASSUME IInv, NEW w \in Workers, UpdateCheck(w)
  PROVE  IInv'
<1> USE DEF HoldsEvent
<1> DEFINE e == req[w].event
<1>1. /\ pc[w] = "check" /\ UNCHANGED <<rowVars, req, mail, now>>
      /\ CapacityCovers(w) /\ pc' = [pc EXCEPT ![w] = "write"]
  BY DEF UpdateCheck, UpdateAllowed, Goto
<1>2. req[w] \in Requests /\ RequestOK(w) /\ e \in Events
  BY <1>1, Holding
<1>3. Moves(w, "write", req[w])
  BY <1>1, <1>2 DEF Moves, Labels, IInv, Structure, TypeOK
<1>4. pc'[w] = "write" /\ req' = req
  BY <1>1 DEF IInv, Structure, TypeOK
<1>5. RequestOK(w)'
  BY <1>1, <1>2, <1>4 DEF RequestOK
<1>6. /\ Seats(w, e) <= edirty[e].capacity
      /\ Seats(w, e) \in Nat /\ edirty[e].capacity \in Nat
      /\ edirty[e] \in EventRows /\ VisibleEvent(w, e) = edirty[e]
  BY <1>1, Holding DEF SeatsFit
<1>7. Patched(w).capacity \in Nat
  BY <1>1, <1>2, <1>6, MergeType DEF Patched, RequestOK, EventRows
<1>8. Seats(w, e) <= Patched(w).capacity
  <2>1. CASE "capacity" \in Nulls(req[w].patch)
    BY <2>1, <1>6 DEF Patched, Merge, Kept
  <2>2. CASE "capacity" \notin Nulls(req[w].patch)
    BY <2>2, <1>1, <1>6, <1>7 DEF CapacityCovers, AskedCapacity, Seats
  <2> QED
    BY <2>1, <2>2
<1>9. /\ Seats(w, e)' = Seats(w, e) /\ edirty' = edirty
      /\ Patched(w)' = Patched(w)
  BY <1>1 DEF Seats, Rows, Visible, rowVars, Patched, VisibleEvent
<1>10. SeatsFit(w, req[w].event)'
  BY <1>4, <1>6, <1>8, <1>9 DEF SeatsFit
<1> QED
  BY <1>1, <1>3, <1>5, <1>10, ReadStep

\* The statements that only keep the list of rows still to be written.
LEMMA ListStep ==
  ASSUME IInv, NEW w \in Workers, Snapshot(w) \/ SkipRow(w)
  PROVE  IInv'
<1> DEFINE e == req[w].event
<1>1. req[w] \in Requests
  BY DEF IInv, Structure, TypeOK
<1>2. /\ pc[w] \in {"snapshot", "sweep"} /\ UNCHANGED <<rowVars, mail, now>>
      /\ e \in Events
  BY DEF Snapshot, SkipRow, IInv, Structure, RequestInv, RequestOK
<1>3. PICK rows \in SUBSET RegIds :
        /\ req' = [req EXCEPT ![w] = [req[w] EXCEPT !.todo = rows]]
        /\ pc' = [pc EXCEPT ![w] = "sweep"]
        /\ \A r \in rows : OfEvent(w, r)
  <2>1. CASE Snapshot(w)
    <3> DEFINE rows == UNION {Rows(w, e, s) : s \in ActiveStatuses}
    <3>1. \A r \in rows : OfEvent(w, r)
      BY DEF Rows, OfEvent, ActiveStatuses
    <3> QED
      BY <2>1, <3>1 DEF Snapshot, Note, Goto, OfEvent
  <2>2. CASE SkipRow(w)
    <3>1. pc[w] = "sweep" /\ pc' = [pc EXCEPT ![w] = "sweep"] /\ RequestOK(w)
      BY <2>2 DEF SkipRow, IInv, Structure, TypeOK, RequestInv
    <3>2. PICK r \in req[w].todo : req' = [req EXCEPT ![w] = [req[w] EXCEPT !.todo = @ \ {r}]]
      BY <2>2 DEF SkipRow, Note
    <3>3. req[w].todo \in SUBSET RegIds
      BY <1>1 DEF Requests
    <3> QED
      BY <3>1, <3>2, <3>3 DEF RequestOK
  <2> QED
    BY <2>1, <2>2
<1> DEFINE new == [req[w] EXCEPT !.todo = rows]
<1>4. Moves(w, "sweep", new) /\ new.todo = rows
  BY <1>1, <1>3 DEF Moves, Requests, Labels
<1> HIDE DEF new
<1>5. pc'[w] = "sweep" /\ req'[w] = new
  BY <1>4 DEF Moves, IInv, Structure, TypeOK
<1>6. RequestOK(w)'
  BY <1>2, <1>3, <1>4, <1>5 DEF RequestOK, OfEvent, Visible, rowVars, Moves
<1> QED
  BY <1>2, <1>4, <1>6, ReadStep DEF HoldsEvent

\* remove: the cascade ends with the event still held.
LEMMA CascadeDoneStep ==
  ASSUME IInv, NEW w \in Workers, CascadeDone(w)
  PROVE  IInv'
<1> USE DEF HoldsEvent
<1> DEFINE e == req[w].event
<1>1. /\ pc[w] = "cascade" /\ UNCHANGED <<rowVars, req, mail, now>>
      /\ pc' = [pc EXCEPT ![w] = "commit"]
  BY DEF CascadeDone, Goto
<1>2. req[w] \in Requests /\ e \in Events /\ Seats(w, e) <= edirty[e].capacity
  BY <1>1, Holding DEF SeatsFit
<1>3. Moves(w, "commit", req[w])
  BY <1>1, <1>2 DEF Moves, Labels, IInv, Structure, TypeOK
<1>4. pc'[w] = "commit" /\ req' = req
  BY <1>1 DEF IInv, Structure, TypeOK
<1>5. RequestOK(w)'
  BY <1>2, <1>4 DEF RequestOK
<1>6. Seats(w, e)' = Seats(w, e) /\ edirty' = edirty
  BY <1>1 DEF Seats, Rows, Visible, rowVars
<1>7. SeatsFit(w, req[w].event)'
  BY <1>2, <1>4, <1>6 DEF SeatsFit
<1> QED
  BY <1>1, <1>3, <1>5, <1>7, ReadStep

\* What a transaction sees after it has written one registration.
LEMMA AfterWrite ==
  ASSUME TypeOK, NEW w \in Workers, NEW r \in RegIds, NEW row \in RegRows,
         WriteRow(w, r, row), UNCHANGED regs, NEW e
  PROVE  /\ Visible(w, r)' = row
         /\ \A s \in RegIds \ {r} : Visible(w, s)' = Visible(w, s)
         /\ Seats(w, e)' \in Nat /\ Seats(w, e)' <= Seats(w, e) + 1
         /\ row.status # "CONFIRMED" => Seats(w, e)' <= Seats(w, e)
<1>1. Visible(w, r)' = row
  BY DEF TypeOK, WriteRow, Visible
<1>2. \A s \in RegIds \ {r} : Visible(w, s)' = Visible(w, s)
  BY DEF TypeOK, WriteRow, Visible
<1> DEFINE before == Rows(w, e, "CONFIRMED")
           after  == Rows(w, e, "CONFIRMED")'
<1>3. /\ after \in SUBSET (before \cup {r})
      /\ row.status # "CONFIRMED" => after \in SUBSET before
  BY <1>1, <1>2 DEF Rows
<1>4. IsFiniteSet(before) /\ Cardinality(before) \in Nat
  BY RowsFinite
<1>5. /\ IsFiniteSet(before \cup {r})
      /\ Cardinality(before \cup {r}) \in Nat
      /\ Cardinality(before \cup {r}) <= Cardinality(before) + 1
  <2> HIDE DEF before
  <2>1. /\ IsFiniteSet(before \cup {r})
        /\ Cardinality(before \cup {r}) =
             IF r \in before THEN Cardinality(before) ELSE Cardinality(before) + 1
    BY <1>4, FS_AddElement
  <2> QED
    BY <1>4, <2>1
<1>6. Cardinality(after) <= Cardinality(before \cup {r}) /\ Cardinality(after) \in Nat
  BY <1>3, <1>5, FS_Subset, FS_CardinalityType
<1>7. row.status # "CONFIRMED" => Cardinality(after) <= Cardinality(before)
  BY <1>3, <1>4, FS_Subset
<1> QED
  BY <1>1, <1>2, <1>4, <1>5, <1>6, <1>7 DEF Seats

\* A registration of the event keeps its event under the hands of its transaction.
LEMMA OwnRow ==
  ASSUME IInv, NEW w \in Workers, NEW r, OfEvent(w, r)
  PROVE  /\ r \in RegIds /\ Visible(w, r) \in RegRows
         /\ Visible(w, r).event = req[w].event
         /\ regs[r].status # "ABSENT" => regs[r].event = req[w].event
<1>1. r \in RegIds /\ Visible(w, r).event = req[w].event
  BY DEF OfEvent
<1>2. CASE rlock[r] = w
  BY <1>1, <1>2, VisibleType, NoneAssumption DEF IInv, Structure, RowInv, Visible
<1>3. CASE rlock[r] # w
  BY <1>1, <1>3, VisibleType DEF IInv, Structure, Visible
<1> QED
  BY <1>1, <1>2, <1>3

\* An edit of a registration: another status, perhaps no ticket, the same event.
LEMMA EditType ==
  ASSUME NEW row \in RegRows
  PROVE  /\ Vacated(row) \in RegRows /\ Vacated(row).status = "CANCELLED"
         /\ Vacated(row).event = row.event
         /\ Seated(row) \in RegRows /\ Seated(row).status = "CONFIRMED"
         /\ Seated(row).event = row.event
         /\ LET gone == [row EXCEPT !.status = "DELETED"]
            IN  gone \in RegRows /\ gone.status = "DELETED" /\ gone.event = row.event
  BY DEF Vacated, Seated, RegRows, ActiveStatuses

\* register: the inserted row takes a seat only if the decision found one.
LEMMA InsertStep ==
  ASSUME IInv, NEW w \in Workers, RegisterInsert(w)
  PROVE  IInv'
<1> USE DEF HoldsEvent
<1> DEFINE e   == req[w].event
           row == [status |-> req[w].status, event |-> req[w].event,
                   attendee |-> req[w].attendee, position |-> req[w].position]
<1>1. /\ pc[w] = "insert" /\ pc' = [pc EXCEPT ![w] = "commit"]
      /\ UNCHANGED <<events, edirty, elock, regs, req, mail, now>>
  BY DEF RegisterInsert, Goto
<1>2. PICK r \in Fresh : WriteRow(w, r, row)
  BY DEF RegisterInsert
<1>3. r \in RegIds /\ regs[r].status = "ABSENT"
  BY DEF Fresh
<1>4. /\ req[w] \in Requests /\ RequestOK(w) /\ e \in Events
      /\ SeatsFit(w, e) /\ Seats(w, e) \in Nat /\ edirty[e].capacity \in Nat
  BY <1>1, Holding
<1>5. row \in RegRows /\ row.status # "ABSENT" /\ row.event = e
      /\ row.status = req[w].status
  BY <1>1, <1>4 DEF RequestOK, Requests, RegRows, ActiveStatuses
<1> HIDE DEF row
<1>6. Moves(w, "commit", req[w])
  BY <1>1, <1>4 DEF Moves, Labels, IInv, Structure, TypeOK
<1>7. pc'[w] = "commit"
  BY <1>1 DEF IInv, Structure, TypeOK
<1>8. RequestOK(w)'
  BY <1>1, <1>4, <1>7 DEF RequestOK
<1>9. /\ Seats(w, e)' <= Seats(w, e) + 1 /\ Seats(w, e)' \in Nat
      /\ row.status # "CONFIRMED" => Seats(w, e)' <= Seats(w, e)
  BY <1>1, <1>2, <1>3, <1>5, AfterWrite DEF IInv, Structure
<1>10. Seats(w, e)' <= edirty[e].capacity
  BY <1>1, <1>4, <1>5, <1>9 DEF SeatsFit, RequestOK, ActiveStatuses
<1>11. SeatsFit(w, req[w].event)'
  BY <1>1, <1>7, <1>10 DEF SeatsFit
<1> QED
  BY <1>1, <1>2, <1>3, <1>5, <1>6, <1>8, <1>11, WriteStep

\* cancel: a cancellation takes no seat.
LEMMA CancelRowStep ==
  ASSUME IInv, NEW w \in Workers, CancelRow(w)
  PROVE  IInv'
<1> USE DEF HoldsEvent
<1> DEFINE e     == req[w].event
           r     == req[w].reg
           row   == Vacated(Visible(w, r))
           label == IF FreesSeat(req[w].status) THEN "promote" ELSE "commit"
<1>1. /\ pc[w] = "cancelRow" /\ pc' = [pc EXCEPT ![w] = label]
      /\ WriteRow(w, r, row)
      /\ UNCHANGED <<events, edirty, elock, regs, req, mail, now>>
      /\ label \in {"promote", "commit"}
  BY DEF CancelRow, Goto
<1> HIDE DEF label
<1>2. /\ req[w] \in Requests /\ OfEvent(w, r) /\ e \in Events
      /\ Seats(w, e) <= edirty[e].capacity
      /\ Seats(w, e) \in Nat /\ edirty[e].capacity \in Nat
  BY <1>1, Holding DEF RequestOK, SeatsFit
<1>3. /\ r \in RegIds /\ row \in RegRows /\ row.status = "CANCELLED" /\ row.event = e
      /\ regs[r].status # "ABSENT" => regs[r].event = e
  <2>1. Visible(w, r) \in RegRows
    BY <1>2, OwnRow
  <2>2. row \in RegRows /\ row.event = Visible(w, r).event /\ row.status = "CANCELLED"
    BY <2>1, EditType
  <2> HIDE DEF row
  <2> QED
    BY <1>2, <2>2, OwnRow
<1> HIDE DEF row
<1>4. Moves(w, label, req[w])
  BY <1>1, <1>2 DEF Moves, Labels, IInv, Structure, TypeOK
<1>5. pc'[w] = label
  BY <1>1 DEF IInv, Structure, TypeOK
<1>6. RequestOK(w)'
  BY <1>1, <1>2, <1>5 DEF RequestOK
<1>7. Seats(w, e)' \in Nat /\ Seats(w, e)' <= Seats(w, e)
  BY <1>1, <1>3, AfterWrite DEF IInv, Structure
<1>8. SeatsFit(w, req[w].event)'
  BY <1>1, <1>2, <1>5, <1>7 DEF SeatsFit
<1> QED
  BY <1>1, <1>3, <1>4, <1>6, <1>8, WriteStep

\* The rows of a list, once one of them is written and struck off.
LEMMA StrikeOff ==
  ASSUME IInv, NEW w \in Workers, NEW r \in req[w].todo, NEW row \in RegRows,
         \A s \in req[w].todo : OfEvent(w, s),
         WriteRow(w, r, row), UNCHANGED regs,
         req' = [req EXCEPT ![w] = [req[w] EXCEPT !.todo = @ \ {r}]]
  PROVE  LET new == [req[w] EXCEPT !.todo = @ \ {r}]
         IN  /\ req[w] \in Requests /\ new \in Requests /\ req'[w] = new
             /\ new.event = req[w].event /\ new.todo = req[w].todo \ {r}
             /\ \A s \in req[w].todo \ {r} : OfEvent(w, s)'
             /\ Cardinality(req[w].todo) \in Nat
             /\ Cardinality(new.todo) = Cardinality(req[w].todo) - 1
<1> DEFINE new == [req[w] EXCEPT !.todo = @ \ {r}]
<1>1. req[w] \in Requests /\ req[w].todo \in SUBSET RegIds
  BY DEF IInv, Structure, TypeOK, Requests
<1>2. /\ new \in Requests /\ req'[w] = new
      /\ new.event = req[w].event /\ new.todo = req[w].todo \ {r}
  BY <1>1 DEF IInv, Structure, TypeOK, Requests
<1>3. \A s \in req[w].todo \ {r} : OfEvent(w, s)'
  <2> SUFFICES ASSUME NEW s \in req[w].todo \ {r} PROVE OfEvent(w, s)'
    OBVIOUS
  <2>1. Visible(w, s)' = Visible(w, s) /\ OfEvent(w, s) /\ s \in RegIds
    BY <1>1, AfterWrite DEF IInv, Structure
  <2> QED
    BY <1>2, <2>1 DEF OfEvent
<1>4. IsFiniteSet(req[w].todo)
  BY <1>1, IdsFinite
<1>5. Cardinality(req[w].todo) \in Nat
  BY <1>1, IdsFinite
<1>6. Cardinality(req[w].todo \ {r}) = Cardinality(req[w].todo) - 1
  BY <1>4, FS_RemoveElement
<1> QED
  BY <1>1, <1>2, <1>3, <1>5, <1>6

\* promote: each update takes one of the seats set aside for it.
LEMMA PromoteRowStep ==
  ASSUME IInv, NEW w \in Workers, PromoteRow(w)
  PROVE  IInv'
<1> USE DEF HoldsEvent
<1>0. PICK e \in Events : e = req[w].event
  BY Holding DEF PromoteRow
<1>1. PICK r \in NextPromoted(w) :
        /\ WriteRow(w, r, Seated(Visible(w, r)))
        /\ req' = [req EXCEPT ![w] = [req[w] EXCEPT !.todo = @ \ {r}]]
        /\ pc' = [pc EXCEPT ![w] = IF req[w].todo = {r} THEN "commit" ELSE "promoteRow"]
  BY DEF PromoteRow, Note, Goto
<1>2. pc[w] = "promoteRow" /\ UNCHANGED <<events, edirty, elock, regs, mail, now>>
  BY DEF PromoteRow
<1>3. /\ r \in req[w].todo /\ OfEvent(w, r) /\ \A s \in req[w].todo : OfEvent(w, s)
      /\ Seats(w, e) + Cardinality(req[w].todo) <= edirty[e].capacity
      /\ Seats(w, e) \in Nat /\ edirty[e].capacity \in Nat 
  BY <1>0, <1>1, <1>2, Holding DEF RequestOK, SeatsFit, NextPromoted
<1> DEFINE new   == [req[w] EXCEPT !.todo = @ \ {r}]
           label == IF req[w].todo = {r} THEN "commit" ELSE "promoteRow"
           row   == Seated(Visible(w, r))
<1>4. /\ r \in RegIds /\ row \in RegRows /\ row.status = "CONFIRMED" /\ row.event = e
      /\ regs[r].status # "ABSENT" => regs[r].event = e
  <2>1. Visible(w, r) \in RegRows
    BY <1>3, OwnRow
  <2>2. row \in RegRows /\ row.event = Visible(w, r).event /\ row.status = "CONFIRMED"
    BY <2>1, EditType
  <2> HIDE DEF row
  <2> QED
    BY <1>0, <1>3, <2>2, OwnRow
<1>5. /\ req[w] \in Requests /\ new \in Requests /\ req'[w] = new
      /\ new.event = req[w].event /\ new.todo = req[w].todo \ {r}
      /\ \A s \in req[w].todo \ {r} : OfEvent(w, s)'
      /\ Cardinality(req[w].todo) \in Nat
      /\ Cardinality(new.todo) = Cardinality(req[w].todo) - 1
  BY <1>1, <1>2, <1>3, <1>4, StrikeOff
<1>6. label \in {"commit", "promoteRow"} /\ pc'[w] = label
  BY <1>1 DEF IInv, Structure, TypeOK
<1>7. Moves(w, label, new)
  BY <1>1, <1>5, <1>6 DEF Moves, Labels
<1> HIDE DEF new, label, row
<1>8. RequestOK(w)'
  BY <1>0, <1>3, <1>5, <1>6 DEF RequestOK
<1>9. Seats(w, e)' \in Nat /\ Seats(w, e)' <= Seats(w, e) + 1
  <2>1. WriteRow(w, r, row)
    BY <1>1 DEF row
  <2> QED
    BY <1>2, <1>4, <2>1, AfterWrite DEF IInv, Structure
<1>10. SeatsFit(w, req[w].event)'
  <2>1. Cardinality(req'[w].todo) = Cardinality(req[w].todo) - 1
    BY <1>5
  <2>2. Cardinality(req'[w].todo) \in Nat
    <3>1. req'[w].todo \in SUBSET RegIds
      BY <1>5 DEF Requests
    <3> QED
      BY <3>1, IdsFinite
  <2>3. /\ Seats(w, e)' <= edirty[e].capacity
        /\ Seats(w, e)' + Cardinality(req'[w].todo) <= edirty[e].capacity
    BY <1>3, <1>5, <1>9, <2>1, <2>2
  <2> QED
    BY <1>0, <1>2, <1>5, <1>6, <2>3 DEF SeatsFit
<1> QED
  BY <1>1, <1>2, <1>4, <1>6, <1>7, <1>8, <1>10, <1>0, WriteStep DEF row

\* runAction: a swept row takes no seat, whoever holds the event.
LEMMA SweepRowStep ==
  ASSUME IInv, NEW w \in Workers, SweepRow(w)
  PROVE  IInv'
<1> USE DEF HoldsEvent
<1> DEFINE e == req[w].event
<1>1. PICK r \in req[w].todo :
        /\ WriteRow(w, r, Vacated(regs[r]))
        /\ req' = [req EXCEPT ![w] = [req[w] EXCEPT !.todo = @ \ {r}]]
        /\ regs[r].status \in ActiveStatuses
  BY DEF SweepRow, Note
<1>2. /\ pc[w] = "sweep" /\ UNCHANGED <<events, edirty, elock, regs, pc, mail, now>>
      /\ pc' = [pc EXCEPT ![w] = "sweep"]
  BY DEF SweepRow, IInv, Structure, TypeOK
<1>3. /\ e \in Events /\ OfEvent(w, r) /\ \A s \in req[w].todo : OfEvent(w, s)
  BY <1>2 DEF IInv, Structure, RequestInv, RequestOK
<1> DEFINE new == [req[w] EXCEPT !.todo = @ \ {r}]
           row == Vacated(regs[r])
<1>4. /\ r \in RegIds /\ regs[r] \in RegRows /\ regs[r].event = e
  BY <1>1, <1>3, OwnRow DEF ActiveStatuses, IInv, Structure, TypeOK
<1>5. row \in RegRows /\ row.status = "CANCELLED" /\ row.event = e
  BY <1>4, EditType
<1>6. /\ req[w] \in Requests /\ new \in Requests /\ req'[w] = new
      /\ new.event = req[w].event /\ new.todo = req[w].todo \ {r}
      /\ \A s \in req[w].todo \ {r} : OfEvent(w, s)'
  BY <1>1, <1>2, <1>3, <1>5, StrikeOff
<1>7. Moves(w, "sweep", new)
  BY <1>1, <1>2, <1>6 DEF Moves, Labels
<1> HIDE DEF new, row
<1>8. RequestOK(w)'
  BY <1>2, <1>3, <1>6 DEF RequestOK
<1> QED
  BY <1>1, <1>2, <1>4, <1>5, <1>7, <1>8, WriteStep DEF row

\* remove: a deleted row takes no seat.
LEMMA CascadeRowStep ==
  ASSUME IInv, NEW w \in Workers, CascadeRow(w)
  PROVE  IInv'
<1> USE DEF HoldsEvent
<1>0. PICK e \in Events : e = req[w].event
  BY Holding DEF CascadeRow
<1>1. PICK r \in req[w].todo :
        /\ WriteRow(w, r, [Visible(w, r) EXCEPT !.status = "DELETED"])
        /\ req' = [req EXCEPT ![w] = [req[w] EXCEPT !.todo = @ \ {r}]]
  BY DEF CascadeRow, Note
<1>2. /\ pc[w] = "cascade" /\ UNCHANGED <<events, edirty, elock, regs, pc, mail, now>>
      /\ pc' = [pc EXCEPT ![w] = "cascade"]
  BY DEF CascadeRow, IInv, Structure, TypeOK
<1>3. /\ OfEvent(w, r) /\ \A s \in req[w].todo : OfEvent(w, s)
      /\ Seats(w, e) <= edirty[e].capacity
      /\ Seats(w, e) \in Nat /\ edirty[e].capacity \in Nat
  BY <1>0, <1>2, Holding DEF RequestOK, SeatsFit
<1> DEFINE new == [req[w] EXCEPT !.todo = @ \ {r}]
           row == [Visible(w, r) EXCEPT !.status = "DELETED"]
<1>4. /\ r \in RegIds /\ row \in RegRows /\ row.status = "DELETED" /\ row.event = e
      /\ regs[r].status # "ABSENT" => regs[r].event = e
  <2>1. Visible(w, r) \in RegRows
    BY <1>3, OwnRow
  <2>2. row \in RegRows /\ row.event = Visible(w, r).event /\ row.status = "DELETED"
    BY <2>1, EditType
  <2> HIDE DEF row
  <2> QED
    BY <1>0, <1>3, <2>2, OwnRow
<1>5. /\ req[w] \in Requests /\ new \in Requests /\ req'[w] = new
      /\ new.event = req[w].event /\ new.todo = req[w].todo \ {r}
      /\ \A s \in req[w].todo \ {r} : OfEvent(w, s)'
  BY <1>1, <1>2, <1>3, <1>4, StrikeOff
<1>6. Moves(w, "cascade", new)
  BY <1>1, <1>2, <1>5 DEF Moves, Labels
<1> HIDE DEF new, row
<1>7. RequestOK(w)'
  BY <1>0, <1>2, <1>3, <1>5 DEF RequestOK
<1>8. Seats(w, e)' \in Nat /\ Seats(w, e)' <= Seats(w, e)
  <2>1. WriteRow(w, r, row)
    BY <1>1 DEF row
  <2> QED
    BY <1>2, <1>4, <2>1, AfterWrite DEF IInv, Structure
<1>9. SeatsFit(w, req[w].event)'
  BY <1>0, <1>2, <1>3, <1>5, <1>8 DEF SeatsFit
<1> QED
  BY <1>1, <1>2, <1>4, <1>6, <1>7, <1>9, <1>0, WriteStep DEF row

\* Whoever is granted an event row sees as many seats taken as are committed.
LEMMA LockEventStep ==
  ASSUME IInv, NEW w \in Workers, LockEvent(w)
  PROVE  IInv'
<1> USE DEF HoldsEvent
<1>0. PICK e \in Events : e = req[w].event
  BY DEF LockEvent, IInv, Structure, RequestInv, RequestOK
<1> DEFINE label == AfterLock(req[w].op)
<1>1. /\ pc[w] = "lock" /\ EventFree(w, e) /\ Exists(e)
      /\ TakeEvent(w, e, events[e])
      /\ pc' = [pc EXCEPT ![w] = label]
      /\ UNCHANGED <<events, regs, dirty, rlock, req, mail, now>>
  BY <1>0 DEF LockEvent, Goto
<1>2. req[w] \in Requests /\ RequestOK(w) /\ events[e] \in EventRows
  BY DEF IInv, Structure, TypeOK, RequestInv
<1>3. /\ label \in {"decide", "reread", "check"}
      /\ label = "reread" => OfEvent(w, req[w].reg)
      /\ label = "check" => req[w].patch \in Patches
  BY <1>1, <1>2 DEF RequestOK, AfterLock
<1> HIDE DEF label
<1>4. Moves(w, label, req[w]) /\ pc'[w] = label
  BY <1>1, <1>2, <1>3 DEF Moves, Labels, IInv, Structure, TypeOK
<1>5. RequestOK(w)'
  BY <1>0, <1>1, <1>3, <1>4 DEF RequestOK, OfEvent, Visible
<1>6. events[e].status # "ABSENT"
  BY <1>1 DEF Exists, EventStatuses
<1>7. Seats(w, e)' <= events[e].capacity
  <2>1. Seats(w, e)' = Seats(w, e)
    BY <1>1 DEF Seats, Rows, Visible
  <2>2. Rows(w, e, "CONFIRMED") = Committed(e, "CONFIRMED")
    BY <1>1, Unlocked DEF IInv
  <2> QED
    BY <2>1, <2>2 DEF IInv, NoOverbooking, Seats
<1>8. edirty'[e] = events[e]
  BY <1>1 DEF TakeEvent, IInv, Structure, TypeOK
<1>9. SeatsFit(w, req[w].event)'
  BY <1>0, <1>1, <1>3, <1>4, <1>7, <1>8 DEF SeatsFit
<1> QED
  BY <1>0, <1>1, <1>2, <1>3, <1>4, <1>5, <1>6, <1>9, TakeStep

\* update: the row is written with a capacity that was checked.
LEMMA UpdateWriteStep ==
  ASSUME IInv, NEW w \in Workers, UpdateWrite(w)
  PROVE  IInv'
<1> USE DEF HoldsEvent
<1>0. PICK e \in Events : e = req[w].event
  BY Holding DEF UpdateWrite
<1> DEFINE label == IF GrewCapacity(w) THEN "promote" ELSE "commit"
<1>1. /\ pc[w] = "write" /\ TakeEvent(w, e, Patched(w))
      /\ pc' = [pc EXCEPT ![w] = label]
      /\ UNCHANGED <<events, regs, dirty, rlock, req, mail, now>>
      /\ label \in {"promote", "commit"}
  BY <1>0 DEF UpdateWrite, Goto
<1> HIDE DEF label
<1>2. /\ req[w] \in Requests /\ RequestOK(w) /\ elock[e] = w
      /\ edirty[e] \in EventRows /\ VisibleEvent(w, e) = edirty[e]
      /\ Seats(w, e) <= Patched(w).capacity
  BY <1>0, <1>1, Holding DEF SeatsFit
<1>3. Patched(w) \in EventRows
  BY <1>0, <1>1, <1>2, MergeType DEF Patched, RequestOK
<1>4. Patched(w).status # "ABSENT"
  BY <1>0, <1>2, NoneAssumption DEF Patched, Merge, IInv, AbsentInv
<1>5. Moves(w, label, req[w]) /\ pc'[w] = label
  BY <1>1, <1>2 DEF Moves, Labels, IInv, Structure, TypeOK
<1>6. RequestOK(w)'
  BY <1>0, <1>1, <1>5 DEF RequestOK
<1>7. Seats(w, e)' = Seats(w, e)
  BY <1>1 DEF Seats, Rows, Visible
<1>8. edirty'[e] = Patched(w)
  BY <1>1 DEF TakeEvent, IInv, Structure, TypeOK
<1>9. SeatsFit(w, req[w].event)'
  BY <1>0, <1>1, <1>2, <1>5, <1>7, <1>8 DEF SeatsFit
<1>10. EventFree(w, e)
  BY <1>2 DEF EventFree
<1> QED
  BY <1>0, <1>1, <1>3, <1>4, <1>5, <1>6, <1>9, <1>10, TakeStep

\* Nothing a sweep has written holds a seat, and the capacity stays.
LEMMA CancelEventStep ==
  ASSUME IInv, NEW w \in Workers, CancelEvent(w)
  PROVE  IInv'
<1> USE DEF HoldsEvent
<1>0. PICK e \in Events : e = req[w].event
  BY DEF CancelEvent, IInv, Structure, RequestInv, RequestOK
<1> DEFINE row == [events[e] EXCEPT !.status = "CANCELLED"]
<1>1. /\ pc[w] = "sweep" /\ EventFree(w, e) /\ TakeEvent(w, e, row)
      /\ pc' = [pc EXCEPT ![w] = "commit"]
      /\ UNCHANGED <<events, regs, dirty, rlock, req, mail, now>>
  BY <1>0 DEF CancelEvent, Goto
<1>2. req[w] \in Requests /\ events[e] \in EventRows
  BY DEF IInv, Structure, TypeOK
<1>3. row \in EventRows /\ row.status = "CANCELLED" /\ row.capacity = events[e].capacity
  BY <1>2, StatusEdit
<1> HIDE DEF row
<1>4. Moves(w, "commit", req[w]) /\ pc'[w] = "commit"
  BY <1>1, <1>2 DEF Moves, Labels, IInv, Structure, TypeOK
<1>5. RequestOK(w)'
  BY <1>0, <1>1, <1>4 DEF RequestOK
<1>6. Rows(w, e, "CONFIRMED") \in SUBSET Committed(e, "CONFIRMED")
  BY <1>1, NoneAssumption DEF Rows, Committed, Visible, IInv, Structure, RowInv
<1>7. Seats(w, e) <= events[e].capacity
  <2>1. Seats(w, e) <= Cardinality(Committed(e, "CONFIRMED"))
    BY <1>6, RowsFinite, FS_Subset DEF Seats
  <2>2. /\ Cardinality(Committed(e, "CONFIRMED")) <= events[e].capacity
        /\ Seats(w, e) \in Nat /\ Cardinality(Committed(e, "CONFIRMED")) \in Nat
        /\ events[e].capacity \in Nat
    BY <1>2, RowsFinite DEF Seats, IInv, NoOverbooking, EventRows
  <2> QED
    BY <2>1, <2>2
<1>8. Seats(w, e)' = Seats(w, e) /\ edirty'[e] = row
  BY <1>1 DEF Seats, Rows, Visible, TakeEvent, IInv, Structure, TypeOK
<1>9. SeatsFit(w, req[w].event)'
  BY <1>0, <1>1, <1>3, <1>4, <1>7, <1>8 DEF SeatsFit
<1> QED
  BY <1>0, <1>1, <1>3, <1>4, <1>5, <1>9, TakeStep

\* remove: the event row is taken as any other lock is.
LEMMA DeleteEventStep ==
  ASSUME IInv, NEW w \in Workers, DeleteEvent(w)
  PROVE  IInv'
<1> USE DEF HoldsEvent
<1>0. PICK e \in Events : e = req[w].event
  BY DEF DeleteEvent, IInv, Structure, RequestInv, RequestOK
<1> DEFINE row == [events[e] EXCEPT !.status = "DELETED"]
           all == UNION {Rows(w, e, s) : s \in ActiveStatuses \cup {"CANCELLED"}}
           new == [req[w] EXCEPT !.todo = all]
<1>1. /\ pc[w] = "delete" /\ EventFree(w, e) /\ TakeEvent(w, e, row)
      /\ pc' = [pc EXCEPT ![w] = "cascade"]
      /\ req' = [req EXCEPT ![w] = new]
      /\ UNCHANGED <<events, regs, dirty, rlock, mail, now>>
  BY <1>0 DEF DeleteEvent, Goto, Note
<1>2. req[w] \in Requests /\ events[e] \in EventRows
  BY DEF IInv, Structure, TypeOK
<1>3. row \in EventRows /\ row.status = "DELETED" /\ row.capacity = events[e].capacity
  BY <1>2, StatusEdit
<1>4. all \in SUBSET RegIds /\ \A r \in all : OfEvent(w, r)
  BY <1>0 DEF Rows, OfEvent, ActiveStatuses
<1>5. new \in Requests /\ new.event = e /\ new.todo = all
  BY <1>0, <1>2, <1>4 DEF Requests
<1> HIDE DEF row, new, all
<1>6. Moves(w, "cascade", new) /\ pc'[w] = "cascade" /\ req'[w] = new
  BY <1>0, <1>1, <1>5 DEF Moves, Labels, IInv, Structure, TypeOK
<1>7. RequestOK(w)'
  BY <1>0, <1>1, <1>4, <1>5, <1>6 DEF RequestOK, OfEvent, Visible
<1>8. Seats(w, e)' <= events[e].capacity
  <2>1. Seats(w, e)' = Seats(w, e)
    BY <1>1 DEF Seats, Rows, Visible
  <2>2. Rows(w, e, "CONFIRMED") = Committed(e, "CONFIRMED")
    BY <1>1, Unlocked DEF IInv
  <2> QED
    BY <2>1, <2>2 DEF IInv, NoOverbooking, Seats
<1>9. edirty'[e] = row
  BY <1>1 DEF TakeEvent, IInv, Structure, TypeOK
<1>10. SeatsFit(w, req[w].event)'
  BY <1>3, <1>5, <1>6, <1>8, <1>9 DEF SeatsFit
<1> QED
  BY <1>0, <1>1, <1>3, <1>6, <1>7, <1>10, TakeStep

-----------------------------------------------------------------------------
(* The invariant holds, and what follows from it.                          *)

\* The empty database satisfies the invariant.
LEMMA InitInv == Init => IInv
<1> SUFFICES ASSUME Init PROVE IInv
  OBVIOUS
<1>1. AbsentEvent \in EventRows /\ AbsentReg \in RegRows
  BY DEF AbsentEvent, AbsentReg, EventRows, RegRows, Null
<1>2. TypeOK
  BY <1>1, NoRequestType DEF Init, TypeOK, Labels
<1>3. RequestInv /\ RowInv /\ LockInv
  BY DEF Init, RequestInv, RequestOK, RowInv, LockInv, AbsentReg, HoldsEvent
<1>4. AbsentInv /\ SeatInv
  BY DEF Init, AbsentInv, SeatInv, AbsentEvent
<1>5. \A e \in Events : Committed(e, "CONFIRMED") = {}
  BY DEF Init, Committed, AbsentReg
<1>6. NoOverbooking
  <2> SUFFICES ASSUME NEW e \in Events
      PROVE  Cardinality(Committed(e, "CONFIRMED")) <= events[e].capacity
    BY DEF NoOverbooking
  <2>1. Cardinality(Committed(e, "CONFIRMED")) = 0
    BY <1>5, FS_EmptySet
  <2>2. events[e].capacity = 0
    BY DEF Init, AbsentEvent
  <2> QED
    BY <2>1, <2>2
<1> QED
  BY <1>2, <1>3, <1>4, <1>6 DEF IInv, Structure

\* Every statement that may wait keeps the invariant.
LEMMA LockingStep ==
  ASSUME IInv, NEW w \in Workers, Locking(w)
  PROVE  IInv'
<1>1. CASE LockEvent(w)
  BY <1>1, LockEventStep
<1>2. CASE EventGone(w) \/ RegisterDuplicate(w)
  BY <1>2, RollbackStep DEF EventGone, RegisterDuplicate
<1>3. CASE RegisterInsert(w)
  BY <1>3, InsertStep
<1>4. CASE CancelRow(w)
  BY <1>4, CancelRowStep
<1>5. CASE PromoteRow(w)
  BY <1>5, PromoteRowStep
<1>6. CASE Publish(w)
  BY <1>6, PublishStep
<1>7. CASE SweepRow(w)
  BY <1>7, SweepRowStep
<1>8. CASE SkipRow(w)
  BY <1>8, ListStep
<1>9. CASE CancelEvent(w)
  BY <1>9, CancelEventStep
<1>10. CASE DeleteEvent(w)
  BY <1>10, DeleteEventStep
<1>11. CASE CascadeRow(w)
  BY <1>11, CascadeRowStep
<1> QED
  BY <1>1, <1>2, <1>3, <1>4, <1>5, <1>6, <1>7, <1>8, <1>9, <1>10, <1>11 DEF Locking

\* Every statement that never waits keeps the invariant.
LEMMA LocalStep ==
  ASSUME IInv, NEW w \in Workers, Local(w)
  PROVE  IInv'
<1>1. CASE RegisterDecide(w) \/ RegisterPosition(w)
  BY <1>1, RegisterReads
<1>2. CASE \/ RegisterRefused(w) \/ AlreadyCancelled(w)
            \/ UpdateRefused(w) \/ UpdateRejected(w)
  BY <1>2, RollbackStep DEF RegisterRefused, AlreadyCancelled, UpdateRefused, UpdateRejected
<1>3. CASE Reread(w)
  BY <1>3, RereadStep
<1>4. CASE Promote(w)
  BY <1>4, PromoteStep
<1>5. CASE UpdateCheck(w)
  BY <1>5, UpdateCheckStep
<1>6. CASE UpdateWrite(w)
  BY <1>6, UpdateWriteStep
<1>7. CASE Snapshot(w)
  BY <1>7, ListStep
<1>8. CASE CascadeDone(w)
  BY <1>8, CascadeDoneStep
<1>9. CASE Commit(w)
  BY <1>9, CommitStep
<1>10. CASE Announce(w)
  BY <1>10, PublishStep
<1> QED
  BY <1>1, <1>2, <1>3, <1>4, <1>5, <1>6, <1>7, <1>8, <1>9, <1>10 DEF Local

\* Every step keeps the invariant.
LEMMA NextInv == IInv /\ [Next]_vars => IInv'
<1> SUFFICES ASSUME IInv, [Next]_vars PROVE IInv'
  OBVIOUS
<1>1. ASSUME NEW e \in Events, NEW dto \in NewEvents, Create(e, dto) PROVE IInv'
  BY <1>1, CreateStep
<1>2. ASSUME NEW w \in Workers, Start(w) PROVE IInv'
  BY <1>2, StartStep
<1>3. ASSUME NEW w \in Workers, Locking(w) PROVE IInv'
  BY <1>3, LockingStep
<1>4. ASSUME NEW w \in Workers, Local(w) PROVE IInv'
  BY <1>4, LocalStep
<1>5. ASSUME NEW w \in Workers, Fail(w) PROVE IInv'
  BY <1>5, RollbackStep DEF Fail
<1>6. CASE Tick \/ UNCHANGED vars
  BY <1>6, IdleStep
<1> QED
  BY <1>1, <1>2, <1>3, <1>4, <1>5, <1>6 DEF Next

\* The inductive invariant holds in every reachable state: rows, locks and the
\* reads that requests carry with them agree, and the seats that are taken and the
\* seats that transactions are about to give fit into the capacity.
THEOREM Invariance == Spec => []IInv
  BY InitInv, NextInv, PTL DEF Spec

\* Every variable keeps its type: no statement leaves a row, a request or a lock
\* of a shape the service does not know.
THEOREM TypeCorrect == Spec => []TypeOK
<1>1. IInv => TypeOK
  BY DEF IInv, Structure
<1> QED
  BY <1>1, Invariance, PTL

\* register, cancel, promote and update together never give out more seats than
\* an event has, however many of them run at once and wherever they are cut off.
THEOREM NeverOverbooked == Spec => []NoOverbooking
<1>1. IInv => NoOverbooking
  BY DEF IInv
<1> QED
  BY <1>1, Invariance, PTL

-----------------------------------------------------------------------------
(* Two disciplines of locking that the same invariant gives.               *)

\* No statement but a commit changes a committed registration.
LEMMA OnlyCommitWrites ==
  ASSUME [Next]_vars
  PROVE  regs' = regs \/ \E w \in Workers : Commit(w)
<1>1. ASSUME NEW w \in Workers, Start(w) PROVE regs' = regs
  BY <1>1 DEF Start, StartRegister, StartCancelRegistration, StartUpdate, StartPublish,
              StartCancelEvent, StartRemove, Begin, rowVars
<1>2. ASSUME NEW w \in Workers, Locking(w) PROVE regs' = regs
  BY <1>2 DEF Locking, LockEvent, EventGone, RegisterInsert, RegisterDuplicate, CancelRow,
              PromoteRow, Publish, SweepRow, SkipRow, CancelEvent, DeleteEvent,
              CascadeRow, Rollback, rowVars
<1>3. ASSUME NEW w \in Workers, Local(w) PROVE regs' = regs \/ Commit(w)
  BY <1>3 DEF Local, RegisterDecide, RegisterRefused, RegisterPosition, Reread,
              AlreadyCancelled, Promote, UpdateCheck, UpdateRefused, UpdateRejected,
              UpdateWrite, Snapshot, CascadeDone, Announce, Rollback, rowVars
<1>4. ASSUME NEW w \in Workers, Fail(w) PROVE regs' = regs
  BY <1>4 DEF Fail, Rollback
<1>5. ASSUME NEW e \in Events, NEW dto \in NewEvents, Create(e, dto) PROVE regs' = regs
  BY <1>5 DEF Create
<1>6. CASE Tick \/ UNCHANGED vars
  BY <1>6 DEF Tick, vars, rowVars
<1> QED
  BY <1>1, <1>2, <1>3, <1>4, <1>5, <1>6 DEF Next

\* A registration changes only in the commit of the very transaction that holds the row of
\* its event, so what that transaction has counted is still true when it writes.
THEOREM ReadsStayTrue == Spec => WritesUnderLock
<1> DEFINE Locked == \A r \in RegIds : regs'[r] # regs[r] =>
                       \E w \in Workers : CommitsRow(w, r) /\ elock[regs'[r].event] = w
<1>1. ASSUME IInv, [Next]_vars PROVE Locked
  <2> SUFFICES ASSUME NEW v \in Workers, Commit(v), NEW r \in RegIds, regs'[r] # regs[r]
      PROVE  CommitsRow(v, r) /\ elock[regs'[r].event] = v
    BY <1>1, OnlyCommitWrites
  <2>1. rlock[r] = v /\ regs'[r] = dirty[r]
    BY DEF Commit, Visible
  <2>2. dirty[r].event = req[v].event
    BY <1>1, <2>1, NoneAssumption DEF IInv, Structure, RowInv
  <2>3. pc[v] \in HoldsEvent
    BY DEF Commit, HoldsEvent
  <2>4. pc[v] = "commit" /\ pc'[v] \in {"idle", "announce"}
    BY <1>1 DEF Commit, Goto, IInv, Structure, TypeOK
  <2> QED
    BY <1>1, <2>1, <2>2, <2>3, <2>4, Holding DEF CommitsRow
<1>2. IInv /\ [Next]_vars => [Locked]_vars
  BY <1>1
<1> QED
  BY <1>2, Invariance, PTL DEF Spec, WritesUnderLock

\* No request is sweeping the registrations of an event it is calling off.
NoSweep == \A w \in Workers : pc[w] \notin {"snapshot", "sweep"}

\* A request that sweeps has been asked to call an event off.
LEMMA NoSweepNext ==
  ASSUME "cancelEvent" \notin Menu
  PROVE  IInv /\ NoSweep /\ [Next]_vars => NoSweep'
<1> SUFFICES ASSUME IInv, NoSweep, [Next]_vars PROVE NoSweep'
  OBVIOUS
<1> USE DEF NoSweep, Goto, IInv, Structure, TypeOK
<1>1. ASSUME NEW w \in Workers, Rollback(w) PROVE NoSweep'
  BY <1>1 DEF Rollback
<1>2. ASSUME NEW w \in Workers, Start(w) PROVE NoSweep'
  BY <1>2 DEF Start, StartRegister, StartCancelRegistration, StartUpdate, StartPublish,
              StartCancelEvent, StartRemove, Begin
<1>3. ASSUME NEW w \in Workers, Locking(w) PROVE NoSweep'
  <2>1. CASE LockEvent(w)
    <3>1. pc[w] = "lock" /\ RequestOK(w) /\ pc' = [pc EXCEPT ![w] = AfterLock(req[w].op)]
      BY <2>1 DEF LockEvent, RequestInv
    <3>2. AfterLock(req[w].op) \in {"decide", "reread", "check"}
      BY <3>1 DEF AfterLock, RequestOK
    <3> QED
      BY <3>1, <3>2
  <2>2. CASE RegisterInsert(w) \/ CancelRow(w) \/ PromoteRow(w) \/ Publish(w)
             \/ DeleteEvent(w) \/ CascadeRow(w)
    BY <2>2 DEF RegisterInsert, CancelRow, PromoteRow, Publish, DeleteEvent, CascadeRow
  <2>3. CASE EventGone(w) \/ RegisterDuplicate(w)
    BY <1>1, <2>3 DEF EventGone, RegisterDuplicate
  <2>4. ~(SweepRow(w) \/ SkipRow(w) \/ CancelEvent(w))
    BY DEF SweepRow, SkipRow, CancelEvent
  <2> QED
    BY <1>3, <2>1, <2>2, <2>3, <2>4 DEF Locking
<1>4. ASSUME NEW w \in Workers, Local(w) PROVE NoSweep'
  <2>1. CASE \/ RegisterRefused(w) \/ AlreadyCancelled(w)
             \/ UpdateRefused(w) \/ UpdateRejected(w)
    BY <1>1, <2>1 DEF RegisterRefused, AlreadyCancelled, UpdateRefused, UpdateRejected
  <2>2. CASE Promote(w)
    BY <2>2 DEF Promote
  <2>3. CASE RegisterDecide(w) \/ RegisterPosition(w) \/ Reread(w) \/ UpdateCheck(w)
             \/ UpdateWrite(w) \/ CascadeDone(w) \/ Commit(w) \/ Announce(w)
    BY <2>3 DEF RegisterDecide, RegisterPosition, Reread, UpdateCheck, UpdateWrite,
                CascadeDone, Commit, Announce
  <2>4. ~Snapshot(w)
    BY DEF Snapshot
  <2> QED
    BY <1>4, <2>1, <2>2, <2>3, <2>4 DEF Local
<1>5. ASSUME NEW w \in Workers, Fail(w) PROVE NoSweep'
  BY <1>1, <1>5 DEF Fail
<1>6. CASE \/ \E e \in Events, dto \in NewEvents : Create(e, dto)
           \/ Tick
           \/ UNCHANGED vars
  BY <1>6 DEF Create, Tick, vars
<1> QED
  BY <1>2, <1>3, <1>4, <1>5, <1>6 DEF Next

\* While no event is called off, nobody sweeps.
LEMMA NoSweepInvariance ==
  ASSUME "cancelEvent" \notin Menu
  PROVE  Spec => [](IInv /\ NoSweep)
<1>1. Init => NoSweep
  BY DEF Init, NoSweep
<1> QED
  BY <1>1, NoSweepNext, Invariance, PTL DEF Spec

\* While no event is called off, no request holds a registration without holding
\* its event: rows are locked in one order, which is what keeps a circle of
\* waiting requests from forming.
THEOREM LockOrder ==
  ASSUME "cancelEvent" \notin Menu
  PROVE  Spec => []EventLockedFirst
<1>1. IInv /\ NoSweep => EventLockedFirst
  <2> SUFFICES ASSUME IInv, NoSweep, NEW r \in RegIds, rlock[r] # None
      PROVE  elock[dirty[r].event] = rlock[r]
    BY DEF EventLockedFirst
  <2>1. rlock[r] \in Workers /\ pc[rlock[r]] \in HoldsEvent
        /\ dirty[r].event = req[rlock[r]].event
    BY DEF IInv, Structure, TypeOK, RowInv, NoSweep
  <2> QED
    BY <2>1, Holding
<1> QED
  BY <1>1, NoSweepInvariance, PTL

-----------------------------------------------------------------------------
(* What a statement of a request does.                                     *)

StepOf(w) == Start(w) \/ Locking(w) \/ Local(w) \/ Fail(w)

\* A step is a step of a request, a new event, or a tick of the clock.
LEMMA NextCases ==
  ASSUME [Next]_vars
  PROVE  \/ \E w \in Workers : StepOf(w)
         \/ \E e \in Events, dto \in NewEvents : Create(e, dto)
         \/ Tick
         \/ UNCHANGED vars
  BY DEF Next, StepOf

-----------------------------------------------------------------------------
(* The shapes a statement may have.                                        *)

\* A statement reads rows, writes one registration, locks or writes the row of its
\* event, ends its transaction, or is the UPDATE of publish.
Reads(w)  == UNCHANGED rowVars
Writes(w) == /\ \E r \in RegIds : \E row : WriteRow(w, r, row)
             /\ UNCHANGED <<events, edirty, elock, regs>>
Takes(w)  == /\ EventFree(w, req[w].event)
             /\ \E row : TakeEvent(w, req[w].event, row)
             /\ UNCHANGED <<events, regs, dirty, rlock>>
Ends(w)   == Release(w) /\ UNCHANGED <<events, regs>>

\* Four statements take an event row and five write a registration; the others have
\* one of the other shapes.
LEMMA Kinds ==
  ASSUME NEW w \in Workers, StepOf(w)
  PROVE  \/ Reads(w) \/ Ends(w) \/ Commit(w) \/ Publish(w)
         \/ LockEvent(w) \/ CancelEvent(w) \/ DeleteEvent(w) \/ UpdateWrite(w)
         \/ RegisterInsert(w) \/ CancelRow(w) \/ PromoteRow(w) \/ SweepRow(w) \/ CascadeRow(w)
<1>1. CASE Start(w)
  BY <1>1 DEF Start, StartRegister, StartCancelRegistration, StartUpdate, StartPublish,
              StartCancelEvent, StartRemove, Begin, Reads
<1>2. CASE \/ RegisterDecide(w) \/ RegisterPosition(w) \/ Reread(w) \/ Promote(w)
           \/ UpdateCheck(w) \/ Snapshot(w) \/ CascadeDone(w) \/ Announce(w) \/ SkipRow(w)
  BY <1>2 DEF RegisterDecide, RegisterPosition, Reread, Promote, UpdateCheck, Snapshot,
              CascadeDone, Announce, SkipRow, Reads
<1>3. CASE \/ RegisterRefused(w) \/ AlreadyCancelled(w) \/ UpdateRefused(w)
           \/ UpdateRejected(w) \/ EventGone(w) \/ RegisterDuplicate(w) \/ Fail(w)
  BY <1>3 DEF RegisterRefused, AlreadyCancelled, UpdateRefused, UpdateRejected, EventGone,
              RegisterDuplicate, Fail, Rollback, Ends
<1> QED
  BY <1>1, <1>2, <1>3 DEF StepOf, Locking, Local

\* Those five write a registration the request knows of.
LEMMA TakesAre ==
  ASSUME IInv, NEW w \in Workers, StepOf(w)
  PROVE  \/ Reads(w) \/ Writes(w) \/ Ends(w) \/ Commit(w) \/ Publish(w)
         \/ LockEvent(w) \/ CancelEvent(w) \/ DeleteEvent(w) \/ UpdateWrite(w)
<1>1. CASE RegisterInsert(w)
  BY <1>1 DEF RegisterInsert, Fresh, Writes
<1>2. CASE CancelRow(w)
  <2>1. req[w].reg \in RegIds
    BY <1>2 DEF CancelRow, IInv, Structure, RequestInv, RequestOK, OfEvent
  <2> QED
    BY <1>2, <2>1 DEF CancelRow, Writes
<1>3. CASE PromoteRow(w) \/ SweepRow(w) \/ CascadeRow(w)
  <2>1. req[w].todo \in SUBSET RegIds
    BY DEF IInv, Structure, TypeOK, Requests
  <2> QED
    BY <1>3, <2>1 DEF PromoteRow, NextPromoted, SweepRow, CascadeRow, Writes
<1> QED
  BY <1>1, <1>2, <1>3, Kinds

\* Those four take the row of the request's event.
LEMMA Shapes ==
  ASSUME IInv, NEW w \in Workers, StepOf(w)
  PROVE  Reads(w) \/ Writes(w) \/ Takes(w) \/ Ends(w) \/ Commit(w) \/ Publish(w)
<1>1. CASE LockEvent(w) \/ CancelEvent(w) \/ DeleteEvent(w)
  BY <1>1 DEF LockEvent, CancelEvent, DeleteEvent, Takes
<1>2. CASE UpdateWrite(w)
  <2>1. elock[req[w].event] = w
    BY <1>2, Holding DEF UpdateWrite, HoldsEvent
  <2> QED
    BY <1>2, <2>1 DEF UpdateWrite, Takes, EventFree
<1> QED
  BY <1>1, <1>2, TakesAre

\* Only Announce touches what was announced.
LEMMA MailShape ==
  ASSUME NEW w \in Workers, StepOf(w)
  PROVE  Announce(w) \/ mail' = mail
<1>1. CASE Start(w)
  BY <1>1 DEF Start, StartRegister, StartCancelRegistration, StartUpdate, StartPublish,
              StartCancelEvent, StartRemove, Begin
<1>2. CASE Locking(w)
  BY <1>2 DEF Locking, LockEvent, EventGone, RegisterInsert, RegisterDuplicate, CancelRow,
              PromoteRow, Publish, SweepRow, SkipRow, CancelEvent, DeleteEvent,
              CascadeRow, Rollback
<1>3. CASE Local(w)
  BY <1>3 DEF Local, RegisterDecide, RegisterRefused, RegisterPosition, Reread,
              AlreadyCancelled, Promote, UpdateCheck, UpdateRefused, UpdateRejected,
              UpdateWrite, Snapshot, CascadeDone, Commit, Rollback
<1>4. CASE Fail(w)
  BY <1>4 DEF Fail, Rollback
<1> QED
  BY <1>1, <1>2, <1>3, <1>4 DEF StepOf

\* A statement moves the program counter and the record of its own request alone.
LEMMA OthersStay ==
  ASSUME TypeOK, NEW w \in Workers, StepOf(w)
  PROVE  \A v \in Workers \ {w} : pc'[v] = pc[v] /\ req'[v] = req[v]
<1> USE DEF Goto, Note, TypeOK
<1>1. CASE Start(w)
  BY <1>1 DEF Start, StartRegister, StartCancelRegistration, StartUpdate, StartPublish,
              StartCancelEvent, StartRemove, Begin
<1>2. CASE Locking(w)
  BY <1>2 DEF Locking, LockEvent, EventGone, RegisterInsert, RegisterDuplicate, CancelRow,
              PromoteRow, Publish, SweepRow, SkipRow, CancelEvent, DeleteEvent,
              CascadeRow, Rollback
<1>3. CASE Local(w)
  BY <1>3 DEF Local, RegisterDecide, RegisterRefused, RegisterPosition, Reread,
              AlreadyCancelled, Promote, UpdateCheck, UpdateRefused, UpdateRejected,
              UpdateWrite, Snapshot, CascadeDone, Announce, Commit, Rollback
<1>4. CASE Fail(w)
  BY <1>4 DEF Fail, Rollback
<1> QED
  BY <1>1, <1>2, <1>3, <1>4 DEF StepOf

\* A lock is taken only where it is free, and given back only by its holder; a row
\* that somebody else holds keeps its uncommitted version, and its committed one.
LEMMA OthersKeep ==
  ASSUME IInv, NEW w \in Workers, StepOf(w)
  PROVE  /\ \A r \in RegIds :
              \/ rlock'[r] = rlock[r] /\ dirty'[r] = dirty[r] /\ regs'[r] = regs[r]
              \/ rlock[r] \in {None, w} /\ rlock'[r] = w /\ regs'[r] = regs[r]
              \/ rlock[r] = w /\ rlock'[r] = None /\ regs'[r] = regs[r]
              \/ Commit(w) /\ rlock[r] = w /\ rlock'[r] = None /\ regs'[r] = dirty[r]
         /\ \A e \in Events :
              \/ elock'[e] = elock[e] /\ edirty'[e] = edirty[e] /\ events'[e] = events[e]
              \/ /\ elock[e] \in {None, w} /\ elock'[e] = w /\ events'[e] = events[e]
                 /\ e = req[w].event
              \/ elock[e] = w /\ elock'[e] = None /\ events'[e] = events[e]
              \/ Commit(w) /\ elock[e] = w /\ elock'[e] = None /\ events'[e] = edirty[e]
              \/ /\ Publish(w) /\ e = req[w].event /\ EventFree(w, e) /\ Exists(e)
                 /\ elock'[e] = elock[e] /\ edirty'[e] = edirty[e]
                 /\ events'[e] = [events[e] EXCEPT !.status = "PUBLISHED"]
<1> USE DEF IInv, Structure, TypeOK
<1>1. CASE Reads(w)
  BY <1>1 DEF Reads, rowVars
<1>2. CASE Writes(w)
  BY <1>2 DEF Writes, WriteRow, RowFree
<1>3. CASE Takes(w)
  BY <1>3 DEF Takes, TakeEvent, EventFree
<1>4. CASE Ends(w)
  BY <1>4 DEF Ends, Release
<1>5. CASE Commit(w)
  BY <1>5 DEF Commit, Release, Visible, VisibleEvent
<1>6. CASE Publish(w)
  BY <1>6 DEF Publish
<1> QED
  BY <1>1, <1>2, <1>3, <1>4, <1>5, <1>6, Shapes

\* What another request holds stays as it is.
LEMMA OthersHeld ==
  ASSUME IInv, NEW w \in Workers, StepOf(w), NEW v \in Workers \ {w}
  PROVE  /\ \A e \in Events : elock[e] = v => elock'[e] = v /\ edirty'[e] = edirty[e]
         /\ \A r \in RegIds :
              rlock[r] = v => rlock'[r] = v /\ dirty'[r] = dirty[r] /\ regs'[r] = regs[r]
<1>1. v # w /\ v # None
  BY NoneAssumption
<1>2. ASSUME NEW e \in Events, elock[e] = v
      PROVE  elock'[e] = v /\ edirty'[e] = edirty[e]
  BY <1>1, <1>2, OthersKeep
<1>3. ASSUME NEW r \in RegIds, rlock[r] = v
      PROVE  rlock'[r] = v /\ dirty'[r] = dirty[r] /\ regs'[r] = regs[r]
  BY <1>1, <1>3, OthersKeep
<1> QED
  BY <1>2, <1>3

\* What another request sees of the registrations of its event stays as it is.
LEMMA OthersSee ==
  ASSUME IInv, NEW w \in Workers, StepOf(w), NEW v \in Workers \ {w},
         NEW e \in Events, elock[e] = v, NEW r \in RegIds,
         \/ Visible(v, r)'.event = e
         \/ Visible(v, r).event = e /\ Visible(v, r).status # "ABSENT"
  PROVE  Visible(v, r)' = Visible(v, r)
<1>1. v # w /\ v # None
  BY NoneAssumption
<1>2. CASE rlock[r] = v
  BY <1>2, OthersHeld DEF Visible
<1>3. CASE rlock[r] # v /\ regs'[r] = regs[r]
  BY <1>1, <1>3, OthersKeep DEF Visible
<1>4. CASE rlock[r] # v /\ regs'[r] # regs[r]
  <2>1. Commit(w) /\ rlock[r] = w /\ rlock'[r] = None /\ regs'[r] = dirty[r]
    BY <1>4, OthersKeep
  <2>2. elock[req[w].event] = w
    BY <2>1, Holding DEF Commit, HoldsEvent
  <2>3. dirty[r].event # e /\ regs[r].status # "ABSENT" => regs[r].event # e
    BY <1>1, <2>1, <2>2, NoneAssumption DEF IInv, Structure, RowInv
  <2>4. dirty[r].event # e
    BY <1>1, <2>1, <2>2, NoneAssumption DEF IInv, Structure, RowInv
  <2> QED
    BY <1>1, <2>1, <2>3, <2>4 DEF Visible
<1> QED
  BY <1>2, <1>3, <1>4

\* Of the statements of a request, only the commit changes committed registrations.
LEMMA OnlyCommitOf ==
  ASSUME IInv, NEW w \in Workers, StepOf(w)
  PROVE  regs' = regs \/ Commit(w)
  BY Shapes DEF Reads, Writes, Takes, Ends, Publish, rowVars

-----------------------------------------------------------------------------
(* The course of a request.                                                *)

\* The statements of each operation, and the commit or the announcement after them.
Course(op) ==
  CASE op = "none" -> {"idle"}
    [] op = "register" -> {"lock", "decide", "position", "insert", "commit"}
    [] op = "cancelRegistration" ->
         {"lock", "reread", "cancelRow", "promote", "promoteRow", "commit", "announce"}
    [] op = "update" ->
         {"lock", "check", "write", "promote", "promoteRow", "commit", "announce"}
    [] op = "publish" -> {"publish"}
    [] op = "cancelEvent" -> {"snapshot", "sweep", "commit"}
    [] op = "remove" -> {"delete", "cascade", "commit"}

\* A request is in the middle of its own operation; who promotes has somebody left to
\* promote, and nobody else promotes.
CourseOK(w) ==
  /\ pc[w] \in Course(req[w].op)
  /\ req[w].op \notin {"cancelRegistration", "update"} => req[w].promoted = {}
  /\ pc[w] = "promoteRow" => req[w].todo # {}

CourseInv == \A w \in Workers : CourseOK(w)

\* What a request at one of its statements has been asked.
LEMMA CourseOf ==
  ASSUME IInv, CourseInv, NEW w \in Workers
  PROVE  /\ pc[w] \in {"decide", "position", "insert"} => req[w].op = "register"
         /\ pc[w] \in {"reread", "cancelRow"} => req[w].op = "cancelRegistration"
         /\ pc[w] \in {"check", "write"} => req[w].op = "update"
         /\ pc[w] = "publish" => req[w].op = "publish"
         /\ pc[w] \in {"snapshot", "sweep"} => req[w].op = "cancelEvent"
         /\ pc[w] \in {"delete", "cascade"} => req[w].op = "remove"
         /\ req[w].op = "register" =>
              /\ pc[w] \in {"lock", "decide", "position", "insert", "commit"}
              /\ req[w].promoted = {}
<1>1. req[w].op \in Operations \cup {"none"} /\ CourseOK(w)
  BY DEF Requests, CourseInv, IInv, Structure, TypeOK
<1> QED
  BY <1>1 DEF CourseOK, Course, Operations

\* A request begins at its first statement, with nobody promoted.
LEMMA BeginCourse ==
  ASSUME TypeOK, NEW w \in Workers, NEW op, NEW label \in Course(op), NEW request \in Requests,
         Begin(w, op, label, request), request.promoted = {},
         label \in {"lock", "publish", "snapshot", "delete"}
  PROVE  /\ CourseOK(w)' /\ req'[w].op = op /\ regs' = regs
<1>1. pc'[w] = label /\ req'[w] = [request EXCEPT !.op = op] /\ regs' = regs
  BY DEF Begin, Goto, Note, TypeOK, rowVars
<1>2. [request EXCEPT !.op = op].op = op /\ [request EXCEPT !.op = op].promoted = {}
  BY DEF Requests
<1> QED
  BY <1>1, <1>2 DEF CourseOK

\* So does each of the six operations; a registration is asked for only while a row is
\* left for it.
LEMMA StartCourse ==
  ASSUME IInv, NEW w \in Workers, Start(w)
  PROVE  CourseOK(w)' /\ regs' = regs /\ (req'[w].op = "register" => RoomForRow)
<1> USE DEF IInv, Structure
<1>1. ASSUME NEW e \in Events, NEW a \in Attendees, StartRegister(w, e, a)
      PROVE  CourseOK(w)' /\ regs' = regs /\ RoomForRow
  <2> DEFINE request == [NoRequest EXCEPT !.event = e, !.attendee = a]
  <2>1. request \in Requests /\ request.promoted = {}
    BY DEF NoRequest, Requests
  <2>2. Begin(w, "register", "lock", request) /\ RoomForRow
    BY <1>1 DEF StartRegister
  <2>3. "lock" \in Course("register")
    BY DEF Course
  <2> HIDE DEF request
  <2> QED
    BY <2>1, <2>2, <2>3, BeginCourse
<1>2. ASSUME NEW r \in RegIds, StartCancelRegistration(w, r)
      PROVE  CourseOK(w)' /\ regs' = regs /\ req'[w].op # "register"
  <2> DEFINE request == [NoRequest EXCEPT !.reg = r, !.event = regs[r].event]
  <2>1. request \in Requests /\ request.promoted = {}
    BY <1>2 DEF NoRequest, Requests, StartCancelRegistration, ActiveStatuses, RowInv
  <2>2. Begin(w, "cancelRegistration", "lock", request)
    BY <1>2 DEF StartCancelRegistration
  <2>3. "lock" \in Course("cancelRegistration")
    BY DEF Course
  <2> HIDE DEF request
  <2> QED
    BY <2>1, <2>2, <2>3, BeginCourse
<1>3. ASSUME NEW e \in Events, NEW patch \in Patches, StartUpdate(w, e, patch)
      PROVE  CourseOK(w)' /\ regs' = regs /\ req'[w].op # "register"
  <2> DEFINE request == [NoRequest EXCEPT !.event = e, !.patch = patch]
  <2>1. request \in Requests /\ request.promoted = {}
    BY DEF NoRequest, Requests
  <2>2. Begin(w, "update", "lock", request)
    BY <1>3 DEF StartUpdate
  <2>3. "lock" \in Course("update")
    BY DEF Course
  <2> HIDE DEF request
  <2> QED
    BY <2>1, <2>2, <2>3, BeginCourse
<1>4. ASSUME NEW e \in Events, StartPublish(w, e) \/ StartCancelEvent(w, e) \/ StartRemove(w, e)
      PROVE  CourseOK(w)' /\ regs' = regs /\ req'[w].op # "register"
  <2> DEFINE request == [NoRequest EXCEPT !.event = e]
  <2>1. request \in Requests /\ request.promoted = {}
    BY DEF NoRequest, Requests
  <2>2. \/ Begin(w, "publish", "publish", request)
        \/ Begin(w, "cancelEvent", "snapshot", request)
        \/ Begin(w, "remove", "delete", request)
    BY <1>4 DEF StartPublish, StartCancelEvent, StartRemove
  <2>3. /\ "publish" \in Course("publish") /\ "snapshot" \in Course("cancelEvent")
        /\ "delete" \in Course("remove")
    BY DEF Course
  <2> HIDE DEF request
  <2> QED
    BY <2>1, <2>2, <2>3, BeginCourse
<1> QED
  BY <1>1, <1>2, <1>3, <1>4 DEF Start

\* A request keeps its operation until it ends, and chooses whom to promote once.
LEMMA OperationKept ==
  ASSUME IInv, NEW w \in Workers, StepOf(w)
  PROVE  \/ Start(w)
         \/ pc'[w] = "idle" /\ req'[w] = NoRequest
         \/ /\ req'[w].op = req[w].op
            /\ Promote(w) \/ req'[w].promoted = req[w].promoted
<1> USE DEF Goto, Note, IInv, Structure, TypeOK
<1>1. CASE Rollback(w) \/ Publish(w) \/ Announce(w)
  BY <1>1 DEF Rollback, Publish, Announce
<1>2. CASE Commit(w)
  BY <1>2 DEF Commit
<1>3. ASSUME NEW x PROVE /\ [req[w] EXCEPT !.status = x].op = req[w].op
                         /\ [req[w] EXCEPT !.status = x].promoted = req[w].promoted
                         /\ [req[w] EXCEPT !.position = x].op = req[w].op
                         /\ [req[w] EXCEPT !.position = x].promoted = req[w].promoted
                         /\ [req[w] EXCEPT !.todo = x].op = req[w].op
                         /\ [req[w] EXCEPT !.todo = x].promoted = req[w].promoted
                         /\ [req[w] EXCEPT !.todo = x, !.promoted = x].op = req[w].op
  BY DEF Requests
<1>4. CASE RegisterDecide(w) \/ RegisterPosition(w) \/ Reread(w)
  <2>1. PICK x : \/ req'[w] = [req[w] EXCEPT !.status = x]
                 \/ req'[w] = [req[w] EXCEPT !.position = x]
    BY <1>4 DEF RegisterDecide, RegisterPosition, Reread
  <2> QED
    BY <1>3, <2>1
<1>5. CASE SweepRow(w) \/ SkipRow(w) \/ CascadeRow(w) \/ Snapshot(w) \/ DeleteEvent(w)
           \/ PromoteRow(w)
  <2>1. PICK x : req'[w] = [req[w] EXCEPT !.todo = x]
    BY <1>5 DEF SweepRow, SkipRow, CascadeRow, Snapshot, DeleteEvent, PromoteRow
  <2> QED
    BY <1>3, <2>1
<1>6. CASE Promote(w)
  <2>1. PICK x : req'[w] = [req[w] EXCEPT !.todo = x, !.promoted = x]
    BY <1>6 DEF Promote
  <2> QED
    BY <1>3, <1>6, <2>1
<1>7. CASE RegisterInsert(w) \/ CancelRow(w) \/ UpdateCheck(w) \/ UpdateWrite(w)
           \/ CancelEvent(w) \/ CascadeDone(w) \/ LockEvent(w)
  BY <1>7 DEF RegisterInsert, CancelRow, UpdateCheck, UpdateWrite, CancelEvent, CascadeDone,
              LockEvent
<1> QED
  BY <1>1, <1>2, <1>4, <1>5, <1>6, <1>7
     DEF StepOf, Locking, Local, Fail, EventGone, RegisterDuplicate, RegisterRefused,
         AlreadyCancelled, UpdateRefused, UpdateRejected

\* And so it goes on, statement by statement.
LEMMA CourseStep ==
  ASSUME IInv, NEW w \in Workers, CourseOK(w), StepOf(w)
  PROVE  CourseOK(w)'
<1> USE DEF Goto, Note, IInv, Structure, TypeOK, CourseOK, Course
<1>0. req[w].op \in Operations \cup {"none"}
  BY DEF Requests
<1>1. CASE pc'[w] = "idle" /\ req'[w] = NoRequest
  BY <1>1 DEF NoRequest
<1>2. CASE Promote(w)
  <2>1. PICK chosen :
          /\ req' = [req EXCEPT ![w] = [req[w] EXCEPT !.todo = chosen, !.promoted = chosen]]
          /\ pc' = [pc EXCEPT ![w] = IF chosen = {} THEN "commit" ELSE "promoteRow"]
          /\ pc[w] = "promote"
    BY <1>2 DEF Promote
  <2>2. req'[w].op = req[w].op /\ req'[w].todo = chosen
    BY <2>1 DEF Requests
  <2>3. pc'[w] = "commit" \/ (pc'[w] = "promoteRow" /\ req'[w].todo # {})
    BY <2>1, <2>2
  <2> QED
    BY <1>0, <2>1, <2>2, <2>3 DEF Operations
<1>3. CASE req'[w].op = req[w].op /\ req'[w].promoted = req[w].promoted
  <2>1. CASE Commit(w)
    <3>1. /\ pc[w] = "commit"
          /\ \/ req[w].promoted = {} /\ pc'[w] = "idle" /\ req'[w] = NoRequest
             \/ req[w].promoted # {} /\ pc'[w] = "announce"
      BY <2>1 DEF Commit
    <3>2. CASE req[w].promoted # {} /\ pc'[w] = "announce"
      BY <1>0, <1>3, <3>2 DEF Operations
    <3> QED
      BY <1>1, <3>1, <3>2
  <2>2. CASE LockEvent(w)
    <3>1. pc[w] = "lock" /\ pc'[w] = AfterLock(req[w].op)
          /\ req[w].op \in {"register", "cancelRegistration", "update"}
      BY <2>2 DEF LockEvent, RequestInv, RequestOK
    <3> QED
      BY <1>3, <3>1 DEF AfterLock
  <2>3. CASE RegisterDecide(w) \/ RegisterPosition(w) \/ RegisterInsert(w)
    <3>1. /\ pc[w] \in {"decide", "position", "insert"}
          /\ pc'[w] \in {"position", "insert", "commit"}
      BY <2>3 DEF RegisterDecide, RegisterPosition, RegisterInsert
    <3> QED
      BY <1>0, <1>3, <3>1 DEF Operations
  <2>4. CASE Reread(w) \/ CancelRow(w) \/ UpdateCheck(w) \/ UpdateWrite(w)
    <3>1. \/ pc[w] = "reread" /\ pc'[w] = "cancelRow"
          \/ pc[w] = "cancelRow" /\ pc'[w] \in {"promote", "commit"}
          \/ pc[w] = "check" /\ pc'[w] = "write"
          \/ pc[w] = "write" /\ pc'[w] \in {"promote", "commit"}
      BY <2>4 DEF Reread, CancelRow, UpdateCheck, UpdateWrite
    <3> QED
      BY <1>0, <1>3, <3>1 DEF Operations
  <2>5. CASE CancelEvent(w) \/ CascadeDone(w) \/ SweepRow(w) \/ SkipRow(w) \/ CascadeRow(w)
             \/ Snapshot(w) \/ DeleteEvent(w)
    <3>1. \/ pc[w] \in {"snapshot", "sweep"} /\ pc'[w] \in {"sweep", "commit"}
          \/ pc[w] \in {"delete", "cascade"} /\ pc'[w] \in {"cascade", "commit"}
      BY <2>5 DEF CancelEvent, CascadeDone, SweepRow, SkipRow, CascadeRow, Snapshot, DeleteEvent
    <3> QED
      BY <1>0, <1>3, <3>1 DEF Operations
  <2>6. CASE PromoteRow(w)
    <3>1. PICK r \in req[w].todo :
                 /\ req' = [req EXCEPT ![w] = [req[w] EXCEPT !.todo = @ \ {r}]]
                 /\ pc' = [pc EXCEPT ![w] = IF req[w].todo = {r} THEN "commit" ELSE "promoteRow"]
                 /\ pc[w] = "promoteRow"
      BY <2>6 DEF PromoteRow, NextPromoted
    <3>2. req'[w].todo = req[w].todo \ {r}
      BY <3>1 DEF Requests
    <3>3. pc'[w] = "commit" \/ (pc'[w] = "promoteRow" /\ req'[w].todo # {})
      BY <3>1, <3>2
    <3> QED
      BY <1>0, <1>3, <3>1, <3>3 DEF Operations
  <2>7. CASE Rollback(w) \/ Publish(w) \/ Announce(w)
    BY <1>1, <2>7 DEF Rollback, Publish, Announce
  <2> QED
    BY <2>1, <2>2, <2>3, <2>4, <2>5, <2>6, <2>7, <1>2, StartCourse
       DEF StepOf, Locking, Local, Fail, EventGone, RegisterDuplicate, RegisterRefused,
           AlreadyCancelled, UpdateRefused, UpdateRejected
<1> QED
  BY <1>1, <1>2, <1>3, OperationKept, StartCourse

\* CourseInv is inductive on the states of IInv.
LEMMA CourseInvariance == Spec => [](IInv /\ CourseInv)
<1>1. Init => CourseInv
  BY DEF Init, CourseInv, CourseOK, Course, NoRequest
<1>2. IInv /\ CourseInv /\ [Next]_vars => CourseInv'
  <2> SUFFICES ASSUME IInv, CourseInv, [Next]_vars, NEW v \in Workers PROVE CourseOK(v)'
    BY DEF CourseInv
  <2>1. ASSUME NEW w \in Workers, StepOf(w) PROVE CourseOK(v)'
    <3>1. CASE v = w
      BY <2>1, <3>1, CourseStep DEF CourseInv
    <3>2. CASE v # w
      BY <2>1, <3>2, OthersStay DEF CourseInv, CourseOK, IInv, Structure
    <3> QED
      BY <3>1, <3>2
  <2>2. CASE UNCHANGED <<pc, req>>
    BY <2>2 DEF CourseInv, CourseOK
  <2> QED
    BY <2>1, <2>2, NextCases DEF Create, Tick, vars
<1> QED
  BY <1>1, <1>2, Invariance, PTL DEF Spec
=============================================================================
