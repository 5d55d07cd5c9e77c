---------------------------- MODULE LedgerProofs ----------------------------
(***************************************************************************)
(* Proofs about the promise Booking keeps:                                 *)
(*   LedgerImplemented   Spec => ImplementsLedger, if no event is ever     *)
(*                       called off                                        *)
(* The mapping is that of BookingLedger.  Every commit is one step of the  *)
(* ledger, which the rows its transaction has written decide (ShapeInv),   *)
(* and every other step leaves the committed rows the mapping reads alone. *)
(***************************************************************************)
EXTENDS BookingLedger, RowProofs

-----------------------------------------------------------------------------
(* The line of an event is the list of its queue.                          *)

\* The tickets of a queue rank it.
LEMMA TicketsRank ==
  ASSUME NEW rows \in [RegIds -> RegRows], NEW S \in SUBSET RegIds,
         \A r, s \in S : /\ rows[r].position # Null
                         /\ rows[r].position = rows[s].position => r = s
  PROVE  Ranked(S, [q \in RegIds |-> rows[q].position])
<1>1. IsFiniteSet(S)
  BY IdsFinite
<1>2. \A r \in S : rows[r].position \in Int
  BY DEF RegRows
<1> QED
  BY <1>1, <1>2 DEF Ranked

\* So the line of an event is the list of its queue, and its only one.
LEMMA LineIsList ==
  ASSUME NEW rows, NEW S \in SUBSET RegIds, Ranked(S, [q \in RegIds |-> rows[q].position]),
         NEW q
  PROVE  LET line == CHOOSE l \in [1..Cardinality(S) -> S] :
                       \A i, j \in 1..Cardinality(S) :
                         i < j => rows[l[i]].position < rows[l[j]].position
             pos == [r \in RegIds |-> rows[r].position]
         IN  Lists(line, S, pos) /\ (Lists(q, S, pos) => q = line)
<1> DEFINE n == Cardinality(S)
           Sorted(l) == \A i, j \in 1..n : i < j => rows[l[i]].position < rows[l[j]].position
           line == CHOOSE l \in [1..n -> S] : Sorted(l)
           pos == [r \in RegIds |-> rows[r].position]
<1> HIDE DEF n
<1>1. \A l \in [1..n -> S] : \A i \in 1..n : pos[l[i]] = rows[l[i]].position
  OBVIOUS
<1>2. \A l : Lists(l, S, pos) <=> l \in [1..n -> S] /\ Sorted(l)
  <2> SUFFICES ASSUME NEW l PROVE Lists(l, S, pos) <=> l \in [1..n -> S] /\ Sorted(l)
    OBVIOUS
  <2> HIDE DEF pos
  <2>1. CASE l \in [1..n -> S]
    BY <1>1, <2>1 DEF Lists, n
  <2>2. CASE l \notin [1..n -> S]
    BY <2>2 DEF Lists, n
  <2> QED
    BY <2>1, <2>2
<1> HIDE DEF pos, Sorted
<1>3. \E l : Lists(l, S, pos)
  BY ListExists DEF pos
<1>4. line \in [1..n -> S] /\ Sorted(line)
  BY <1>2, <1>3
<1>5. Lists(line, S, pos)
  BY <1>2, <1>4
<1> HIDE DEF line
<1>6. Lists(q, S, pos) => q = line
  BY <1>5, ListUnique DEF pos
<1> QED
  BY <1>5, <1>6 DEF line, pos, Sorted, n

-----------------------------------------------------------------------------
(* What a transaction has written by the time it commits.                  *)

Written(w) == {r \in RegIds : rlock[r] = w}

\* Before its first write: the event row it holds is the committed one.
Untouched(w, e) == Written(w) = {} /\ edirty[e] = events[e]

\* register: one new row, and if it waits, it waits behind everybody.
Joining(w, e) ==
  /\ edirty[e] = events[e] /\ req[w].promoted = {}
  /\ \E r \in RegIds :
       /\ Written(w) = {r}
       /\ regs[r].status = "ABSENT" /\ dirty[r].status \in ActiveStatuses
       /\ dirty[r].status = "WAITLISTED" =>
            \A s \in Committed(e, "WAITLISTED") : regs[s].position < dirty[r].position

\* cancel: one row given up, and whoever was chosen for its seat.
Leaving(w, e) ==
  /\ edirty[e] = events[e]
  /\ \E r \in Written(w) :
       /\ regs[r].status \in ActiveStatuses /\ dirty[r].status = "CANCELLED"
       /\ Written(w) \subseteq {r} \cup req[w].promoted
       /\ regs[r].status = "WAITLISTED" => pc[w] = "commit" /\ req[w].promoted = {}

\* update: whoever was chosen for the seats it adds.
Resizing(w, e) ==
  /\ edirty[e].status # "DELETED"
  /\ Written(w) \subseteq req[w].promoted
  /\ \/ edirty[e].capacity \in Capacities
     \/ /\ pc[w] = "commit" /\ req[w].promoted = {}
        /\ edirty[e].capacity = events[e].capacity

\* remove: nothing but deletions.
Closing(w, e) ==
  /\ edirty[e].status = "DELETED"
  /\ \A r \in Written(w) : regs[r].status # "ABSENT" /\ dirty[r].status = "DELETED"

ShapeOK(w, e) ==
  /\ pc[w] \in {"decide", "position", "insert", "reread", "cancelRow", "check", "write"} =>
       Untouched(w, e)
  /\ pc[w] = "cancelRow" => req[w].status \in ActiveStatuses
  /\ pc[w] \in {"promote", "promoteRow"} => Leaving(w, e) \/ Resizing(w, e)
  /\ pc[w] = "cascade" => Closing(w, e)
  /\ pc[w] = "commit" =>
       Joining(w, e) \/ Leaving(w, e) \/ Resizing(w, e) \/ Closing(w, e)

ShapeInv == \A e \in Events : elock[e] # None => ShapeOK(elock[e], e)

\* An event that exists has a seat, and an update leaves it one.
RoomInv ==
  \A e \in Events :
    /\ Exists(e) => events[e].capacity > 0
    /\ elock[e] # None => edirty[e].capacity > 0

\* Initially nothing exists and nothing is locked.
LEMMA ShapeInit == Init => ShapeInv /\ RoomInv
  BY DEF Init, ShapeInv, RoomInv, Exists, AbsentEvent, EventStatuses

\* A write adds its row to those the transaction has written.
LEMMA WrittenAfter ==
  ASSUME TypeOK, NEW w \in Workers, NEW r \in RegIds, NEW row, WriteRow(w, r, row)
  PROVE  /\ Written(w)' = Written(w) \cup {r} /\ dirty'[r] = row
         /\ \A s \in RegIds \ {r} : dirty'[s] = dirty[s]
  BY DEF Written, WriteRow, TypeOK

\* Who has just locked the event, or is about to, has written nothing.
LEMMA NothingWritten ==
  ASSUME IInv, NEW w \in Workers, pc[w] \notin HoldsEvent \cup {"sweep"}
  PROVE  Written(w) = {}
  BY NoneAssumption DEF Written, IInv, Structure, RowInv

\* LockEvent.
LEMMA ShapeLock ==
  ASSUME IInv, NEW w \in Workers, LockEvent(w), NEW e \in Events, e = req[w].event
  PROVE  ShapeOK(w, e)'
<1>1. /\ pc[w] = "lock" /\ pc' = [pc EXCEPT ![w] = AfterLock(req[w].op)]
      /\ TakeEvent(w, e, events[e])
      /\ UNCHANGED <<events, regs, dirty, rlock, req, mail, now>>
  BY DEF LockEvent, Goto
<1>2. pc'[w] \in {"decide", "reread", "check"} /\ edirty'[e] = events[e]
  BY <1>1 DEF AfterLock, TakeEvent, IInv, Structure, TypeOK, RequestInv, RequestOK
<1>3. Written(w)' = {}
  <2>1. Written(w) = {}
    BY <1>1, NothingWritten DEF HoldsEvent
  <2> QED
    BY <1>1, <2>1 DEF Written
<1> QED
  BY <1>1, <1>2, <1>3 DEF ShapeOK, Untouched

\* The statements that read before the first write.
LEMMA ShapeReads ==
  ASSUME IInv, ShapeInv, NEW w \in Workers, NEW e \in Events, elock[e] = w, e = req[w].event,
         RegisterDecide(w) \/ RegisterPosition(w) \/ Reread(w) \/ UpdateCheck(w)
  PROVE  ShapeOK(w, e)'
<1>0. ShapeOK(w, e) /\ req[w] \in Requests /\ w \in DOMAIN pc /\ w \in DOMAIN req
  BY NoneAssumption DEF ShapeInv, IInv, Structure, TypeOK
<1>1. UNCHANGED rowVars /\ pc[w] \in {"decide", "position", "reread", "check"}
  BY DEF RegisterDecide, RegisterPosition, Reread, UpdateCheck
<1>2. Untouched(w, e)'
  BY <1>0, <1>1 DEF ShapeOK, Untouched, Written, rowVars
<1>3. CASE RegisterDecide(w) \/ RegisterPosition(w) \/ UpdateCheck(w)
  <2>1. pc'[w] \in {"position", "insert", "write"}
    BY <1>0, <1>3 DEF RegisterDecide, RegisterPosition, UpdateCheck, Goto
  <2> QED
    BY <1>2, <2>1 DEF ShapeOK
<1>4. CASE Reread(w)
  <2>1. /\ pc'[w] = "cancelRow" /\ Visible(w, req[w].reg).status \in ActiveStatuses
        /\ req'[w] = [req[w] EXCEPT !.status = Visible(w, req[w].reg).status]
    BY <1>0, <1>4 DEF Reread, Goto, Note
  <2>2. req'[w].status = Visible(w, req[w].reg).status
    BY <1>0, <2>1 DEF Requests
  <2> QED
    BY <1>2, <2>1, <2>2 DEF ShapeOK
<1> QED
  BY <1>3, <1>4

\* RegisterInsert: the row and nothing else is written, and its ticket is new.
LEMMA ShapeInsert ==
  ASSUME IInv, PInv, TicketInv, ShapeInv, NEW w \in Workers, NEW e \in Events,
         elock[e] = w, e = req[w].event, RegisterInsert(w)
  PROVE  ShapeOK(w, e)'
<1> DEFINE row == [status |-> req[w].status, event |-> req[w].event,
                   attendee |-> req[w].attendee, position |-> req[w].position]
<1>0. /\ ShapeOK(w, e) /\ WorkerOK(w) /\ NewTicket(w) /\ w \in DOMAIN pc
      /\ pc[w] = "insert" /\ pc'[w] = "commit"
      /\ UNCHANGED <<events, edirty, elock, regs, req, mail, now>>
  BY NoneAssumption DEF ShapeInv, PInv, Workerwise, TicketInv, IInv, Structure, TypeOK,
                        RegisterInsert, Goto
<1>1. Untouched(w, e) /\ req[w].promoted = {} /\ req[w].status \in ActiveStatuses
  BY <1>0 DEF ShapeOK, WorkerOK, IInv, Structure, RequestInv, RequestOK
<1>2. PICK r \in RegIds : regs[r].status = "ABSENT" /\ WriteRow(w, r, row)
  BY DEF RegisterInsert, Fresh
<1>3. Written(w)' = {r} /\ dirty'[r] = row
  <2> HIDE DEF row
  <2> QED
    BY <1>1, <1>2, WrittenAfter DEF Untouched, IInv, Structure
<1>4. ASSUME req[w].status = "WAITLISTED", NEW s \in Committed(e, "WAITLISTED")
      PROVE  regs[s].position < req[w].position
  <2>1. s \in RegIds /\ rlock[s] # w
    BY <1>1 DEF Committed, Untouched, Written
  <2>2. s \in InLine(w, e) /\ Visible(w, s) = regs[s]
    BY <2>1 DEF Committed, InLine, Rows, Visible
  <2> QED
    BY <1>0, <1>4, <2>2 DEF NewTicket
<1>5. /\ row.status = req[w].status /\ row.position = req[w].position
  OBVIOUS
<1> HIDE DEF row
<1>6. Committed(e, "WAITLISTED")' = Committed(e, "WAITLISTED")
  BY <1>0 DEF Committed
<1>7. Joining(w, e)'
  BY <1>0, <1>1, <1>2, <1>3, <1>4, <1>5, <1>6 DEF Joining, Untouched
<1> QED
  BY <1>0, <1>7 DEF ShapeOK

\* CancelRow: the first write of its transaction.
LEMMA ShapeCancel ==
  ASSUME IInv, PInv, FillInv, ShapeInv, NEW w \in Workers, NEW e \in Events,
         elock[e] = w, e = req[w].event, CancelRow(w)
  PROVE  ShapeOK(w, e)'
<1> DEFINE r == req[w].reg
<1>0. /\ ShapeOK(w, e) /\ FillOK(w, e) /\ WorkerOK(w) /\ OfEvent(w, r) /\ w \in DOMAIN pc
      /\ pc[w] = "cancelRow"
  BY NoneAssumption DEF ShapeInv, FillInv, PInv, Workerwise, IInv, Structure, TypeOK,
                        CancelRow, RequestInv, RequestOK
<1>1. /\ WriteRow(w, r, Vacated(Visible(w, r)))
      /\ pc'[w] = IF req[w].status = "CONFIRMED" THEN "promote" ELSE "commit"
      /\ UNCHANGED <<events, edirty, elock, regs, req, mail, now>>
  BY <1>0 DEF CancelRow, Goto, FreesSeat
<1>2. /\ Untouched(w, e) /\ req[w].promoted = {} /\ req[w].status \in ActiveStatuses
      /\ req[w].status = Visible(w, r).status
  BY <1>0 DEF ShapeOK, WorkerOK, FillOK
<1>3. r \in RegIds /\ Vacated(Visible(w, r)).status = "CANCELLED"
  BY <1>0, OwnRow, EditType
<1>4. regs[r].status = req[w].status
  BY <1>2, <1>3 DEF Untouched, Written, Visible
<1>5. Written(w)' = {r} /\ dirty'[r].status = "CANCELLED"
  BY <1>1, <1>2, <1>3, WrittenAfter DEF Untouched, IInv, Structure
<1>6. Leaving(w, e)'
  BY <1>1, <1>2, <1>4, <1>5 DEF Leaving, Untouched, ActiveStatuses
<1> QED
  BY <1>1, <1>6 DEF ShapeOK

\* Promote only reads, and may go straight to the commit.
LEMMA ShapePromote ==
  ASSUME IInv, PInv, ShapeInv, NEW w \in Workers, NEW e \in Events,
         elock[e] = w, e = req[w].event, Promote(w)
  PROVE  ShapeOK(w, e)'
<1>0. ShapeOK(w, e) /\ WorkerOK(w) /\ w \in DOMAIN pc /\ pc[w] = "promote"
  BY NoneAssumption DEF ShapeInv, PInv, Workerwise, IInv, Structure, TypeOK, Promote
<1>1. UNCHANGED rowVars /\ pc'[w] \in {"promoteRow", "commit"}
  BY <1>0 DEF Promote, Goto
<1>2. req[w].promoted = {} /\ Written(w)' = Written(w)
  BY <1>0, <1>1 DEF WorkerOK, Written, rowVars
<1>3. CASE Leaving(w, e)
  <2>1. Leaving(w, e)'
    BY <1>0, <1>1, <1>2, <1>3 DEF Leaving, rowVars
  <2> QED
    BY <1>1, <2>1 DEF ShapeOK
<1>4. CASE Resizing(w, e)
  <2>1. Resizing(w, e)'
    BY <1>0, <1>1, <1>2, <1>4 DEF Resizing, rowVars
  <2> QED
    BY <1>1, <2>1 DEF ShapeOK
<1> QED
  BY <1>0, <1>3, <1>4 DEF ShapeOK

\* PromoteRow writes one of those who were chosen.
LEMMA ShapePromoteRow ==
  ASSUME IInv, PInv, ShapeInv, NEW w \in Workers, NEW e \in Events,
         elock[e] = w, e = req[w].event, PromoteRow(w)
  PROVE  ShapeOK(w, e)'
<1>0. ShapeOK(w, e) /\ WorkerOK(w) /\ w \in DOMAIN pc /\ pc[w] = "promoteRow"
  BY NoneAssumption DEF ShapeInv, PInv, Workerwise, IInv, Structure, TypeOK, PromoteRow
<1>1. PICK r \in req[w].todo :
        /\ WriteRow(w, r, Seated(Visible(w, r)))
        /\ pc'[w] = IF req[w].todo = {r} THEN "commit" ELSE "promoteRow"
  BY PromoteRowKeeps
<1>2. req'[w].promoted = req[w].promoted /\ UNCHANGED <<events, edirty, elock, regs>>
  BY PromoteRowKeeps
<1>3. r \in RegIds /\ r \in req[w].promoted /\ Visible(w, r).status = "WAITLISTED"
  BY <1>0 DEF WorkerOK, IInv, Structure, TypeOK, Requests
<1>4. /\ Written(w)' = Written(w) \cup {r}
      /\ \A s \in RegIds \ {r} : dirty'[s] = dirty[s]
  BY <1>1, <1>3, WrittenAfter DEF IInv, Structure
<1>5. CASE Leaving(w, e)
  <2>1. PICK s \in Written(w) :
          /\ regs[s].status \in ActiveStatuses /\ dirty[s].status = "CANCELLED"
          /\ Written(w) \subseteq {s} \cup req[w].promoted
          /\ regs[s].status = "WAITLISTED" => pc[w] = "commit" /\ req[w].promoted = {}
    BY <1>5 DEF Leaving
  <2>2. s # r /\ s \in RegIds
    BY <1>3, <2>1 DEF Written, Visible
  <2>3. Leaving(w, e)'
    BY <1>0, <1>2, <1>3, <1>4, <1>5, <2>1, <2>2 DEF Leaving
  <2> QED
    BY <1>1, <2>3 DEF ShapeOK
<1>6. CASE Resizing(w, e)
  <2>1. Resizing(w, e)'
    BY <1>0, <1>2, <1>3, <1>4, <1>6 DEF Resizing
  <2> QED
    BY <1>1, <2>1 DEF ShapeOK
<1> QED
  BY <1>0, <1>5, <1>6 DEF ShapeOK

\* UpdateWrite: the capacity is the one of the PATCH, or stays.
LEMMA ShapeUpdate ==
  ASSUME IInv, PInv, OrphanInv, ShapeInv, NEW w \in Workers, NEW e \in Events,
         elock[e] = w, e = req[w].event, UpdateWrite(w)
  PROVE  ShapeOK(w, e)'
<1>0. /\ ShapeOK(w, e) /\ WorkerOK(w) /\ pc[w] = "write" /\ VisibleEvent(w, e) = edirty[e]
      /\ req[w].patch \in Patches /\ Nulls(req[w].patch) = {}
  BY Holding, NoneAssumption DEF ShapeInv, PInv, Workerwise, UpdateWrite, HoldsEvent, RequestOK
<1>1. /\ pc'[w] = IF GrewCapacity(w) THEN "promote" ELSE "commit"
      /\ edirty'[e] = Patched(w)
      /\ UNCHANGED <<events, regs, dirty, rlock, req, mail, now>>
  BY DEF UpdateWrite, Goto, TakeEvent, IInv, Structure, TypeOK
<1>2. Untouched(w, e) /\ req[w].promoted = {}
  BY <1>0 DEF ShapeOK, WorkerOK
<1>3. /\ Patched(w).status = events[e].status
      /\ Patched(w).capacity = Kept(req[w].patch, "capacity", events[e].capacity)
  BY <1>0, <1>2 DEF Patched, Merge, Untouched
<1>4. \/ Patched(w).capacity \in Capacities
      \/ Patched(w).capacity = events[e].capacity
  <2>1. CASE "capacity" \in DOMAIN req[w].patch
    <3>1. req[w].patch["capacity"] # Null
      BY <1>0, <2>1 DEF Nulls, NotNull
    <3>2. req[w].patch.capacity \in Capacities
      BY <1>0, <2>1, <3>1 DEF Capacities
    <3> QED
      BY <1>0, <1>3, <2>1, <3>2 DEF Kept, Given
  <2>2. CASE "capacity" \notin DOMAIN req[w].patch
    BY <1>0, <1>3, <2>2 DEF Kept, Given
  <2> QED
    BY <2>1, <2>2
<1>5. events[e].status # "DELETED"
  BY NoneAssumption DEF OrphanInv, LockedExists, Exists, EventStatuses
<1>6. GrewCapacity(w) => Patched(w).capacity # events[e].capacity
  <2>1. events[e].capacity \in Nat
    BY DEF IInv, Structure, TypeOK, EventRows
  <2> QED
    BY <1>0, <1>2, <2>1 DEF GrewCapacity, Untouched
<1>7. Resizing(w, e)'
  BY <1>1, <1>2, <1>3, <1>4, <1>5, <1>6 DEF Resizing, Untouched, Written
<1> QED
  BY <1>1, <1>7 DEF ShapeOK

\* remove: the DELETE and its cascade.
LEMMA ShapeCascade ==
  ASSUME IInv, ShapeInv, NEW w \in Workers, NEW e \in Events, e = req[w].event,
         \/ DeleteEvent(w)
         \/ elock[e] = w /\ (CascadeRow(w) \/ CascadeDone(w))
  PROVE  ShapeOK(w, e)'
<1>1. CASE DeleteEvent(w)
  <2>1. /\ pc[w] = "delete" /\ pc'[w] = "cascade"
        /\ edirty'[e] = [events[e] EXCEPT !.status = "DELETED"]
        /\ UNCHANGED <<events, regs, dirty, rlock>>
    BY <1>1 DEF DeleteEvent, Goto, TakeEvent, IInv, Structure, TypeOK
  <2>2. events[e] \in EventRows
    BY DEF IInv, Structure, TypeOK
  <2>3. Written(w)' = {}
    <3>1. Written(w) = {}
      BY <2>1, NothingWritten DEF HoldsEvent
    <3> QED
      BY <2>1, <3>1 DEF Written
  <2> QED
    BY <2>1, <2>2, <2>3, StatusEdit DEF ShapeOK, Closing
<1>2. CASE elock[e] = w /\ CascadeRow(w)
  <2>1. ShapeOK(w, e) /\ pc[w] = "cascade" /\ UNCHANGED <<events, edirty, elock, regs, pc>>
    BY <1>2, NoneAssumption DEF ShapeInv, CascadeRow
  <2>2. PICK r \in req[w].todo : WriteRow(w, r, [Visible(w, r) EXCEPT !.status = "DELETED"])
    BY <1>2 DEF CascadeRow
  <2> DEFINE gone == [Visible(w, r) EXCEPT !.status = "DELETED"]
  <2>3. OfEvent(w, r)
    BY <2>1 DEF IInv, Structure, RequestInv, RequestOK
  <2>4. r \in RegIds /\ gone.status = "DELETED" /\ WriteRow(w, r, gone)
    BY <2>2, <2>3, OwnRow, EditType
  <2> HIDE DEF gone
  <2>5. /\ Written(w)' = Written(w) \cup {r} /\ dirty'[r].status = "DELETED"
        /\ \A s \in RegIds \ {r} : dirty'[s] = dirty[s]
    BY <2>4, WrittenAfter DEF IInv, Structure
  <2>6. Closing(w, e)
    BY <2>1 DEF ShapeOK
  <2>7. regs[r].status # "ABSENT"
    BY <2>3, <2>6 DEF OfEvent, Visible, Closing, Written
  <2>8. Written(w) \subseteq RegIds
    BY DEF Written
  <2>9. Closing(w, e)'
    BY <2>1, <2>5, <2>6, <2>7, <2>8 DEF Closing
  <2> QED
    BY <2>1, <2>9 DEF ShapeOK
<1>3. CASE elock[e] = w /\ CascadeDone(w)
  <2>1. ShapeOK(w, e) /\ pc[w] = "cascade" /\ pc'[w] = "commit" /\ UNCHANGED rowVars
    BY <1>3, NoneAssumption DEF ShapeInv, CascadeDone, Goto, IInv, Structure, TypeOK
  <2>2. Closing(w, e)'
    BY <2>1 DEF ShapeOK, Closing, Written, rowVars
  <2> QED
    BY <2>1, <2>2 DEF ShapeOK
<1> QED
  BY <1>1, <1>2, <1>3

\* The request that steps.
LEMMA ShapeOwn ==
  ASSUME IInv, PInv, OrphanInv, TicketInv, NoSweep, FillInv, ShapeInv,
         NEW w \in Workers, StepOf(w), NEW e \in Events, elock'[e] = w
  PROVE  ShapeOK(w, e)'
  BY HolderSteps, ShapeLock, ShapeReads, ShapeInsert, ShapeCancel, ShapePromote,
     ShapePromoteRow, ShapeUpdate, ShapeCascade

\* The event row that another request holds is not published under it, and its committed
\* registrations stay.
LEMMA OthersCommitted ==
  ASSUME IInv, PInv, NEW w \in Workers, StepOf(w), NEW v \in Workers \ {w},
         NEW e \in Events, elock[e] = v
  PROVE  /\ events'[e] = events[e]
         /\ Committed(e, "WAITLISTED")' = Committed(e, "WAITLISTED")
         /\ \A r \in Committed(e, "WAITLISTED") : regs'[r] = regs[r]
<1>0. v # w /\ v # None
  BY NoneAssumption
<1>1. events'[e] = events[e]
  BY <1>0, OthersKeep DEF EventFree
<1>2. \A r \in RegIds : regs'[r].event = e \/ (regs[r].event = e /\ regs[r].status # "ABSENT")
        => regs'[r] = regs[r]
  BY <1>0, RegsStep
<1> QED
  BY <1>1, <1>2 DEF Committed

\* What another request has written stays as it is.
LEMMA ShapeOthers ==
  ASSUME IInv, PInv, ShapeInv, NEW w \in Workers, StepOf(w), NEW v \in Workers \ {w},
         NEW e \in Events, elock[e] = v
  PROVE  ShapeOK(v, e)'
<1>0. v # w /\ v # None /\ ShapeOK(v, e)
  BY NoneAssumption DEF ShapeInv
<1>1. pc'[v] = pc[v] /\ req'[v] = req[v] /\ edirty'[e] = edirty[e]
  BY OthersStay, OthersHeld DEF IInv, Structure
<1>2. /\ Written(v)' = Written(v)
      /\ \A r \in Written(v) : dirty'[r] = dirty[r] /\ regs'[r] = regs[r]
  <2>1. \A r \in RegIds : rlock'[r] = v => rlock[r] = v
    BY <1>0, OthersKeep
  <2>2. \A r \in RegIds : rlock[r] = v => rlock'[r] = v /\ dirty'[r] = dirty[r] /\ regs'[r] = regs[r]
    BY OthersHeld
  <2> QED
    BY <2>1, <2>2 DEF Written
<1>3. /\ events'[e] = events[e]
      /\ Committed(e, "WAITLISTED")' = Committed(e, "WAITLISTED")
      /\ \A r \in Committed(e, "WAITLISTED") : regs'[r] = regs[r]
  BY OthersCommitted
<1>4. Untouched(v, e) => Untouched(v, e)'
  BY <1>1, <1>2, <1>3 DEF Untouched
<1>5. Joining(v, e) => Joining(v, e)'
  BY <1>1, <1>2, <1>3 DEF Joining
<1>6. Leaving(v, e) => Leaving(v, e)'
  BY <1>1, <1>2, <1>3 DEF Leaving
<1>7. Resizing(v, e) => Resizing(v, e)'
  BY <1>1, <1>2, <1>3 DEF Resizing
<1>8. Closing(v, e) => Closing(v, e)'
  BY <1>1, <1>2 DEF Closing
<1> QED
  BY <1>0, <1>1, <1>4, <1>5, <1>6, <1>7, <1>8 DEF ShapeOK

\* A capacity is at least one when the event is created and when it is edited.
LEMMA RoomStep ==
  ASSUME IInv, RoomInv, NEW w \in Workers, StepOf(w)
  PROVE  RoomInv'
<1>0. \A e \in Events : events[e] \in EventRows /\ edirty[e] \in EventRows
  BY DEF IInv, Structure, TypeOK
<1>1. ASSUME NEW e \in Events, Exists(e)' PROVE events'[e].capacity > 0
  <2>1. CASE events'[e] = events[e]
    BY <1>1, <2>1 DEF RoomInv, Exists
  <2>2. CASE elock[e] = w /\ events'[e] = edirty[e]
    BY <2>2, NoneAssumption DEF RoomInv
  <2>3. CASE Exists(e) /\ events'[e] = [events[e] EXCEPT !.status = "PUBLISHED"]
    BY <2>3, <1>0, StatusEdit DEF RoomInv
  <2> QED
    BY <2>1, <2>2, <2>3, OthersKeep
<1>2. ASSUME NEW e \in Events, elock'[e] # None PROVE edirty'[e].capacity > 0
  <2>1. CASE elock'[e] = elock[e] /\ edirty'[e] = edirty[e]
    BY <1>2, <2>1 DEF RoomInv
  <2>2. CASE Exists(e) /\ edirty'[e] = events[e]
    BY <2>2 DEF RoomInv
  <2>3. CASE Exists(e) /\ \E status : edirty'[e] = [events[e] EXCEPT !.status = status]
    <3>1. edirty'[e].capacity = events[e].capacity
      BY <2>3, <1>0 DEF EventRows
    <3> QED
      BY <2>3, <3>1 DEF RoomInv
  <2>4. CASE pc[w] = "write" /\ edirty'[e] = Patched(w)
    <3>1. /\ req[w].patch \in Patches /\ elock[req[w].event] = w /\ req[w].event \in Events
          /\ VisibleEvent(w, req[w].event) = edirty[req[w].event]
      BY <2>4, Holding DEF HoldsEvent, RequestOK
    <3>2. edirty[req[w].event].capacity \in Nat /\ edirty[req[w].event].capacity > 0
      BY <3>1, <1>0, NoneAssumption DEF RoomInv, EventRows
    <3>3. Patched(w).capacity = Kept(req[w].patch, "capacity", edirty[req[w].event].capacity)
      BY <3>1 DEF Patched, Merge
    <3>4. Kept(req[w].patch, "capacity", edirty[req[w].event].capacity) > 0
      BY <3>1, <3>2, PatchesAssumption DEF Kept, Nulls, NotNull, Given
    <3> QED
      BY <2>4, <3>3, <3>4
  <2> QED
    BY <1>2, <2>1, <2>2, <2>3, <2>4, EventVersions
<1> QED
  BY <1>1, <1>2 DEF RoomInv

\* ShapeInv and RoomInv are inductive on the states of the other invariants, while no
\* event is called off.
LEMMA ShapeNext ==
  IInv /\ PInv /\ OrphanInv /\ TicketInv /\ NoSweep /\ FillInv /\ ShapeInv /\ RoomInv
    /\ [Next]_vars => ShapeInv' /\ RoomInv'
<1> SUFFICES ASSUME IInv, PInv, OrphanInv, TicketInv, NoSweep, FillInv, ShapeInv, RoomInv,
                    [Next]_vars
             PROVE  ShapeInv' /\ RoomInv'
  OBVIOUS
<1>1. ASSUME NEW w \in Workers, StepOf(w) PROVE ShapeInv'
  <2>1. ASSUME NEW e \in Events, NEW v \in Workers, elock'[e] = v PROVE ShapeOK(v, e)'
    <3>1. CASE v = w
      BY <1>1, <2>1, <3>1, ShapeOwn
    <3>2. CASE v # w
      <4>1. elock[e] = v
        BY <1>1, <2>1, <3>2, OthersKeep, NoneAssumption DEF IInv, Structure, TypeOK
      <4> QED
        BY <1>1, <3>2, <4>1, ShapeOthers
    <3> QED
      BY <3>1, <3>2
  <2>2. \A e \in Events : elock'[e] \in Workers \cup {None}
    BY NextInv DEF IInv, Structure, TypeOK
  <2> QED
    BY <1>1, <2>1, <2>2 DEF ShapeInv
<1>2. ASSUME NEW f \in Events, NEW dto \in NewEvents, Create(f, dto) PROVE ShapeInv' /\ RoomInv'
  <2>1. /\ events' = [events EXCEPT ![f] = NewRow(dto)] /\ ~Exists(f)
        /\ UNCHANGED <<edirty, elock, regs, dirty, rlock, pc, req, mail, now>>
    BY <1>2 DEF Create, Exists, EventStatuses
  <2>2. \A e \in Events : elock[e] # None => events'[e] = events[e]
    BY <2>1 DEF OrphanInv, LockedExists, IInv, Structure, TypeOK
  <2>3. ASSUME NEW e \in Events, elock[e] # None PROVE ShapeOK(elock[e], e)'
    <3>1. ShapeOK(elock[e], e) /\ events'[e] = events[e]
      BY <2>2, <2>3 DEF ShapeInv
    <3> QED
      BY <2>1, <3>1 DEF ShapeOK, Untouched, Joining, Leaving, Resizing, Closing, Written,
                        Committed
  <2>4. NewRow(dto).capacity > 0
    BY NewEventsAssumption DEF NewRow, AbsentEvent
  <2>5. \A e \in Events : events'[e] = IF e = f THEN NewRow(dto) ELSE events[e]
    BY <2>1 DEF IInv, Structure, TypeOK
  <2> QED
    BY <2>1, <2>3, <2>4, <2>5 DEF ShapeInv, RoomInv, Exists
<1>3. CASE Tick \/ UNCHANGED vars
  <2>1. UNCHANGED <<events, edirty, elock, regs, dirty, rlock, pc, req>>
    BY <1>3 DEF Tick, vars, rowVars
  <2>2. RoomInv'
    BY <2>1 DEF RoomInv, Exists
  <2>3. ASSUME NEW e \in Events, elock[e] # None PROVE ShapeOK(elock[e], e)'
    <3>1. ShapeOK(elock[e], e)
      BY <2>3 DEF ShapeInv
    <3> QED
      BY <2>1, <3>1 DEF ShapeOK, Untouched, Joining, Leaving, Resizing, Closing, Written,
                        Committed
  <2> QED
    BY <2>1, <2>2, <2>3 DEF ShapeInv
<1> QED
  BY <1>1, <1>2, <1>3, NextCases, RoomStep

-----------------------------------------------------------------------------
(* The mapping.                                                            *)

\* The seats of an event as the ledger has them, and who has left.
Room(e) == IF events[e].status = "DELETED" THEN -1 ELSE events[e].capacity
Gone    == {r \in RegIds : regs[r].status \in {"CANCELLED", "DELETED"}}

LInv ==
  /\ IInv /\ PInv /\ Orderly /\ TicketInv /\ OrphanInv
  /\ NoSweep /\ FillInv /\ ShapeInv /\ RoomInv

\* The line of an event is the list of its queue, before a step and after it.
LEMMA LineNow ==
  ASSUME TypeOK, TicketInv, NEW e \in Events, NEW q
  PROVE  /\ Ranked(Committed(e, "WAITLISTED"), Positions)
         /\ Lists(Line(e), Committed(e, "WAITLISTED"), Positions)
         /\ Lists(q, Committed(e, "WAITLISTED"), Positions) => q = Line(e)
<1>1. Committed(e, "WAITLISTED") \in SUBSET RegIds
  BY DEF Committed
<1>2. Ranked(Committed(e, "WAITLISTED"), [r \in RegIds |-> regs[r].position])
  BY <1>1, TicketsRank DEF TypeOK, TicketInv, DistinctTickets
<1> QED
  BY <1>1, <1>2, LineIsList DEF Line, Positions

\* And afterwards.
LEMMA LineNext ==
  ASSUME TypeOK', TicketInv', NEW e \in Events, NEW q
  PROVE  /\ Ranked(Committed(e, "WAITLISTED")', Positions')
         /\ Lists(Line(e)', Committed(e, "WAITLISTED")', Positions')
         /\ Lists(q, Committed(e, "WAITLISTED")', Positions') => q = Line(e)'
<1>1. Committed(e, "WAITLISTED")' \in SUBSET RegIds
  BY DEF Committed
<1>2. Ranked(Committed(e, "WAITLISTED")', [r \in RegIds |-> regs'[r].position])
  BY <1>1, TicketsRank DEF TypeOK, TicketInv, DistinctTickets
<1> QED
  BY <1>1, <1>2, LineIsList DEF Line, Positions

\* A queue whose rows stay keeps its line.
LEMMA LineStays ==
  ASSUME TypeOK, TicketInv, TypeOK', TicketInv', NEW e \in Events,
         Committed(e, "WAITLISTED")' = Committed(e, "WAITLISTED"),
         \A r \in Committed(e, "WAITLISTED") : regs'[r] = regs[r]
  PROVE  Line(e)' = Line(e)
<1> DEFINE queue == Committed(e, "WAITLISTED")
<1>1. \A r \in queue : Positions[r] = Positions'[r]
  BY DEF Positions, Committed
<1>2. Lists(Line(e), queue, Positions)
  BY LineNow
<1> HIDE DEF queue
<1>3. Lists(Line(e), queue, Positions')
  BY <1>1, <1>2, ListAgrees
<1> QED
  BY <1>3, LineNext DEF queue

\* Who waits, by the ledger.
LEMMA WaitingIs ==
  ASSUME TypeOK, TicketInv, NEW e \in Events
  PROVE  /\ Len(Line(e)) = Cardinality(Committed(e, "WAITLISTED"))
         /\ Ledger!Waiting(e) = Committed(e, "WAITLISTED")
<1> DEFINE queue == Committed(e, "WAITLISTED")
           n == Cardinality(queue)
<1>1. Ranked(queue, Positions) /\ Lists(Line(e), queue, Positions)
  BY LineNow
<1> HIDE DEF queue
<1>2. Line(e) \in [1..n -> queue]
  BY <1>1 DEF Lists
<1>3. n \in Nat /\ \A s \in queue : \E i \in 1..n : Line(e)[i] = s
  BY <1>1, ListBijective
<1> HIDE DEF n
<1>4. Len(Line(e)) = n
  BY <1>2, <1>3, LenProperties, IsASeq
<1>5. Ledger!Waiting(e) = {Line(e)[i] : i \in 1..n}
  BY <1>4 DEF Ledger!Waiting
<1>6. {Line(e)[i] : i \in 1..n} = queue
  BY <1>2, <1>3
<1> QED
  BY <1>4, <1>5, <1>6 DEF queue, n

\* The operators of the standard modules that the ledger uses.
LEMMA LedgerCounts ==
  /\ \A S : Ledger!Cardinality(S) = Cardinality(S)
  /\ \A a, b \in Nat : Ledger!Min({a, b}) = IF a < b THEN a ELSE b
<1>1. \A S : Ledger!Cardinality(S) = Cardinality(S)
  BY DEF Cardinality, Ledger!Cardinality
<1>2. ASSUME NEW a \in Nat, NEW b \in Nat
      PROVE  Ledger!Min({a, b}) = IF a < b THEN a ELSE b
  BY DEF Ledger!Min
<1> QED
  BY <1>1, <1>2

\* Serving a queue: those in front who find a free seat take it, the others are the
\* line that is left.
LEMMA ServeStep ==
  ASSUME TypeOK', TicketInv', NEW e \in Events, NEW seats \in Nat,
         NEW sitting, Cardinality(sitting) \in Nat, NEW W, NEW pos, Ranked(W, pos),
         NEW queue, Lists(queue, W, pos),
         NEW P \in SUBSET W, \A a \in P, b \in W \ P : pos[a] < pos[b],
         Cardinality(sitting) + Cardinality(P) <= seats,
         P = W \/ Cardinality(sitting) + Cardinality(P) = seats,
         Committed(e, "CONFIRMED")' = sitting \cup P,
         Committed(e, "WAITLISTED")' = W \ P,
         \A r \in W \ P : Positions'[r] = pos[r],
         \A f \in Events \ {e} : /\ Committed(f, "CONFIRMED")' = Committed(f, "CONFIRMED")
                                 /\ Line(f)' = Line(f)
  PROVE  Ledger!Serve(e, seats, sitting, queue)
<1> DEFINE m == Cardinality(P)
           rest == SubSeq(queue, m + 1, Len(queue))
<1>1. /\ m \in 0..Cardinality(W) /\ Len(queue) = Cardinality(W)
      /\ P = {queue[i] : i \in 1..m} /\ Lists(rest, W \ P, pos)
  BY ListServe
<1>2. Cardinality(W) \in Nat /\ (P = W => m = Cardinality(W))
  BY ListBijective
<1> HIDE DEF rest
<1>3. Lists(rest, W \ P, Positions')
  BY <1>1, ListAgrees
<1>4. Line(e)' = rest
  BY <1>3, LineNext
<1>5. Ledger!Min({seats - Ledger!Cardinality(sitting), Len(queue)}) = m
  <2> DEFINE free == seats - Cardinality(sitting)
  <2>1. free \in Nat /\ m <= free /\ (P = W \/ m = free)
    BY <1>1, <1>2
  <2> HIDE DEF free, m
  <2>2. Ledger!Min({free, Len(queue)}) = m
    BY <1>1, <1>2, <2>1, LedgerCounts
  <2> QED
    BY <2>2, LedgerCounts DEF free
<1> HIDE DEF m
<1>6. [f \in Events |-> Committed(f, "CONFIRMED")]' =
        [[f \in Events |-> Committed(f, "CONFIRMED")] EXCEPT
           ![e] = sitting \cup {queue[i] : i \in 1..m}]
  BY <1>1
<1>7. [f \in Events |-> Line(f)]' = [[f \in Events |-> Line(f)] EXCEPT ![e] = rest]
  BY <1>4
<1> QED
  BY <1>5, <1>6, <1>7 DEF Ledger!Serve, rest

\* What a commit does to the event it is about, and what it leaves of the others.
LEMMA CommitFacts ==
  ASSUME IInv, PInv, NEW w \in Workers, Commit(w), NEW e, e = req[w].event
  PROVE  /\ e \in Events /\ elock[e] = w /\ pc[w] = "commit"
         /\ events'[e] = edirty[e] /\ \A f \in Events \ {e} : events'[f] = events[f]
         /\ \A r \in RegIds : regs'[r] = IF r \in Written(w) THEN dirty[r] ELSE regs[r]
         /\ \A r \in Written(w) :
              /\ r \in RegIds /\ dirty[r].event = e /\ dirty[r].status # "ABSENT"
              /\ regs[r].status # "ABSENT" => regs[r].event = e
         /\ \A status : Committed(e, status)' = Rows(w, e, status)
<1>1. e \in Events /\ elock[e] = w /\ pc[w] = "commit" /\ w # None
  BY Holding, NoneAssumption DEF Commit, HoldsEvent
<1>2. /\ \A f \in Events : events'[f] = VisibleEvent(w, f)
      /\ \A r \in RegIds : regs'[r] = Visible(w, r)
  BY DEF Commit
<1>3. \A f \in Events \ {e} : elock[f] # w
  BY <1>1 DEF IInv, Structure, LockInv
<1>4. \A r \in RegIds : regs'[r] = IF r \in Written(w) THEN dirty[r] ELSE regs[r]
  BY <1>2 DEF Visible, Written
<1>5. \A r \in Written(w) :
        /\ r \in RegIds /\ dirty[r].event = e /\ dirty[r].status # "ABSENT"
        /\ regs[r].status # "ABSENT" => regs[r].event = e
  BY <1>1 DEF Written, IInv, Structure, RowInv
<1>6. \A status : Committed(e, status)' = Rows(w, e, status)
  BY <1>2 DEF Committed, Rows
<1> QED
  BY <1>1, <1>2, <1>3, <1>4, <1>5, <1>6 DEF VisibleEvent

\* The seats and the line of every other event stay.
LEMMA CommitElsewhere ==
  ASSUME LInv, LInv', NEW w \in Workers, Commit(w), NEW e, e = req[w].event
  PROVE  \A f \in Events \ {e} :
           /\ Committed(f, "CONFIRMED")' = Committed(f, "CONFIRMED")
           /\ Line(f)' = Line(f) /\ Room(f)' = Room(f)
<1> SUFFICES ASSUME NEW f \in Events \ {e}
             PROVE  /\ Committed(f, "CONFIRMED")' = Committed(f, "CONFIRMED")
                    /\ Line(f)' = Line(f) /\ Room(f)' = Room(f)
  OBVIOUS
<1>1. \A r \in RegIds : regs'[r].event = f \/ (regs[r].event = f /\ regs[r].status # "ABSENT")
        => regs'[r] = regs[r]
  BY CommitFacts DEF LInv
<1>2. \A status \in ActiveStatuses : Committed(f, status)' = Committed(f, status)
  BY <1>1 DEF Committed, ActiveStatuses
<1>3. \A r \in Committed(f, "WAITLISTED") : regs'[r] = regs[r]
  BY <1>1 DEF Committed
<1>4. Line(f)' = Line(f)
  BY <1>2, <1>3, LineStays DEF LInv, IInv, Structure, ActiveStatuses
<1>5. Room(f)' = Room(f)
  BY CommitFacts DEF LInv, Room
<1> QED
  BY <1>2, <1>4, <1>5 DEF ActiveStatuses

\* The event that commits has seats, unless it is deleted.
LEMMA CommitRoom ==
  ASSUME LInv, NEW w \in Workers, Commit(w), NEW e, e = req[w].event
  PROVE  /\ Room(e) > 0 /\ Room(e) \in Nat /\ Room(e) = events[e].capacity
         /\ edirty[e].status # "DELETED" => Room(e)' = edirty[e].capacity
         /\ edirty[e].status = "DELETED" => Room(e)' = -1
         /\ edirty[e].capacity \in Nat
         /\ Cardinality(Committed(e, "CONFIRMED")') <= edirty[e].capacity
         /\ \/ Committed(e, "WAITLISTED")' = {}
            \/ Cardinality(Committed(e, "CONFIRMED")') >= edirty[e].capacity
<1>1. /\ e \in Events /\ elock[e] = w /\ pc[w] = "commit" /\ w # None
      /\ events'[e] = edirty[e]
      /\ \A status : Committed(e, status)' = Rows(w, e, status)
  BY CommitFacts, NoneAssumption DEF LInv
<1>2. Exists(e) /\ events[e].capacity > 0 /\ events[e].status # "DELETED"
  BY <1>1 DEF LInv, OrphanInv, LockedExists, RoomInv, Exists, EventStatuses
<1>3. events[e].capacity \in Nat /\ edirty[e].capacity \in Nat
  BY <1>1 DEF LInv, IInv, Structure, TypeOK, EventRows
<1>4. Served(w, e) /\ SeatsFit(w, e)
  BY <1>1 DEF LInv, FillInv, FillOK, IInv, SeatInv
<1> QED
  BY <1>1, <1>2, <1>3, <1>4 DEF Room, Served, Full, SeatsFit, Seats, InLine

\* The rows of the event after the commit, by what was written.
LEMMA CommitRows ==
  ASSUME LInv, NEW w \in Workers, Commit(w), NEW e, e = req[w].event
  PROVE  /\ req[w].promoted \subseteq Written(w)
         /\ \A r \in req[w].promoted :
              /\ regs[r].status = "WAITLISTED" /\ regs[r].event = e
              /\ dirty[r].status = "CONFIRMED"
         /\ \A status \in ActiveStatuses :
              Committed(e, status)' =
                (Committed(e, status) \ Written(w))
                  \cup {r \in Written(w) : dirty[r].status = status}
<1>1. pc[w] = "commit" /\ WorkerOK(w) /\ req[w] \in Requests
  BY DEF Commit, LInv, PInv, Workerwise, IInv, Structure, TypeOK
<1>2. \A r \in req[w].promoted : r \in RegIds /\ ChosenOK(w, r)
  BY <1>1 DEF WorkerOK, Requests
<1>3. \A status : Committed(e, status)' =
                (Committed(e, status) \ Written(w))
                  \cup {r \in Written(w) : dirty[r].status = status}
  BY CommitFacts DEF LInv, Committed
<1> QED
  BY <1>1, <1>2, <1>3 DEF ChosenOK, Written

\* Steps that leave what the mapping reads are stutters.
LEMMA LedgerStutter ==
  ASSUME \A e \in Events : /\ Room(e)' = Room(e) /\ Line(e)' = Line(e)
                           /\ Committed(e, "CONFIRMED")' = Committed(e, "CONFIRMED"),
         Gone' = Gone
  PROVE  UNCHANGED Ledger!vars
  BY DEF Ledger!vars, Room, Gone

\* register is Join.
LEMMA JoinStep ==
  ASSUME LInv, LInv', NEW w \in Workers, Commit(w), NEW e \in Events, e = req[w].event,
         Joining(w, e)
  PROVE  \E r \in RegIds : Ledger!Join(e, r)
<1> DEFINE sitting == Committed(e, "CONFIRMED")
           queue == Committed(e, "WAITLISTED")
<1>1. PICK r \in RegIds :
        /\ Written(w) = {r}
        /\ regs[r].status = "ABSENT" /\ dirty[r].status \in ActiveStatuses
        /\ dirty[r].status = "WAITLISTED" =>
             \A s \in queue : regs[s].position < dirty[r].position
  BY DEF Joining
<1>2. /\ edirty[e] = events[e]
      /\ regs'[r] = dirty[r] /\ \A s \in RegIds \ {r} : regs'[s] = regs[s]
  BY <1>1, CommitFacts DEF LInv, Joining
<1>3. /\ r \notin sitting /\ r \notin queue
      /\ sitting' = sitting \cup {s \in {r} : dirty[s].status = "CONFIRMED"}
      /\ queue' = queue \cup {s \in {r} : dirty[s].status = "WAITLISTED"}
  BY <1>1, CommitRows DEF Committed, ActiveStatuses
<1>4. /\ Room(e) > 0 /\ Room(e) \in Nat /\ Room(e) = edirty[e].capacity
      /\ Cardinality(sitting') <= Room(e)
      /\ queue' = {} \/ Cardinality(sitting') >= Room(e)
  BY <1>2, CommitRoom
<1>5. Room(e)' = Room(e)
  BY <1>2, CommitFacts DEF LInv, Room
<1>6. Gone' = Gone
  BY <1>1, <1>2 DEF Gone, ActiveStatuses
<1>7. r \in Ledger!Newcomers
  <2>1. \A f \in Events : Ledger!Waiting(f) = Committed(f, "WAITLISTED")
    BY WaitingIs DEF LInv, IInv, Structure
  <2>2. r \notin Gone /\ \A f \in Events : r \notin Committed(f, "CONFIRMED") \cup Ledger!Waiting(f)
    BY <1>1, <2>1 DEF Gone, Committed
  <2> QED
    BY <2>2 DEF Ledger!Newcomers, Gone
<1>8. /\ IsFiniteSet(sitting) /\ Cardinality(sitting) \in Nat
      /\ IsFiniteSet(queue) /\ Cardinality(queue) \in Nat
  BY RowsFinite
<1>9. Ranked(queue, Positions) /\ Lists(Line(e), queue, Positions)
  BY LineNow DEF LInv, IInv, Structure
<1>10. Ranked(queue', Positions')
  BY LineNext DEF LInv, IInv, Structure
<1>11. \A f \in Events \ {e} : /\ Committed(f, "CONFIRMED")' = Committed(f, "CONFIRMED")
                               /\ Line(f)' = Line(f) /\ Room(f)' = Room(f)
  BY CommitElsewhere
<1>12. TypeOK' /\ TicketInv'
  BY DEF LInv, IInv, Structure
<1>13. \A s \in queue : Positions'[s] = Positions[s]
  BY <1>2, <1>3 DEF Positions, Committed
<1>14. CASE dirty[r].status = "WAITLISTED"
  <2>1. queue' = queue \cup {r} /\ sitting' = sitting
    BY <1>3, <1>14
  <2>2. Cardinality(sitting) = Room(e)
    BY <1>4, <1>8, <2>1
  <2>3. Lists(Line(e), queue, Positions')
    BY <1>9, <1>13, ListAgrees
  <2>4. \A s \in queue : Positions'[s] < Positions'[r]
    <3>1. Positions'[r] = dirty[r].position
      BY <1>2 DEF Positions
    <3>2. \A s \in queue : Positions'[s] = regs[s].position
      BY <1>13 DEF Positions, Committed
    <3> QED
      BY <1>1, <1>14, <3>1, <3>2
  <2> HIDE DEF sitting, queue
  <2>5. Lists(Append(Line(e), r), queue \cup {r}, Positions')
    BY <1>3, <1>10, <2>1, <2>3, <2>4, ListAppend
  <2>6. Cardinality({}) = 0
    BY FS_EmptySet
  <2>7. Ledger!Serve(e, Room(e), sitting, Append(Line(e), r))
    <3> DEFINE W == queue \cup {r}
               P == {}
    <3>1. P \in SUBSET W /\ W \ P = W /\ sitting \cup P = sitting
      OBVIOUS
    <3> HIDE DEF W, P
    <3>2. Cardinality(P) = 0 /\ \A a \in P, b \in W \ P : Positions'[a] < Positions'[b]
      BY <2>6 DEF P
    <3>3. /\ Ranked(W, Positions') /\ Lists(Append(Line(e), r), W, Positions')
          /\ Committed(e, "WAITLISTED")' = W \ P
          /\ Committed(e, "CONFIRMED")' = sitting \cup P
      BY <1>10, <2>1, <2>5, <3>1 DEF W, queue, sitting
    <3> QED
      BY <1>4, <1>8, <1>11, <1>12, <2>2, <3>1, <3>2, <3>3, ServeStep
  <2> QED
    BY <1>4, <1>5, <1>6, <1>7, <1>11, <2>7 DEF Ledger!Join, Room, Gone, sitting
<1>15. CASE dirty[r].status = "CONFIRMED"
  <2>1. queue' = queue /\ sitting' = sitting \cup {r}
    BY <1>3, <1>15
  <2>2. Cardinality(sitting \cup {r}) = Cardinality(sitting) + 1
    BY <1>3, <1>8, FS_AddElement
  <2>3. Cardinality(sitting) + 1 <= Room(e)
    BY <1>4, <2>1, <2>2
  <2>4. queue = {}
    <3>1. queue = {} \/ Cardinality(sitting) >= events[e].capacity
      BY DEF LInv, FillInv, QueueServed
    <3> QED
      BY <1>2, <1>4, <1>8, <2>3, <3>1
  <2> DEFINE pos == [s \in {r} |-> 0]
  <2>5. Ranked({r}, pos) /\ Cardinality({r}) = 1
    <3>1. IsFiniteSet({r}) /\ Cardinality({r}) = 1
      BY FS_Singleton
    <3>2. \A s \in {r} : pos[s] = 0
      OBVIOUS
    <3> HIDE DEF pos
    <3> QED
      BY <3>1, <3>2 DEF Ranked
  <2>6. Lists(Append(Line(e), r), {r}, pos)
    <3>1. Lists(Line(e), {}, pos)
      BY <1>9, <2>4 DEF Lists
    <3> HIDE DEF pos, queue, sitting
    <3>2. Ranked({} \cup {r}, pos) /\ {} \cup {r} = {r}
      BY <2>5
    <3> QED
      BY <3>1, <3>2, ListAppend
  <2>7. Ledger!Serve(e, Room(e), sitting, Append(Line(e), r))
    <3> DEFINE P == {r}
    <3>1. P \in SUBSET {r} /\ {r} \ P = {}
      OBVIOUS
    <3> HIDE DEF P, pos
    <3>2. /\ P = {r} /\ Cardinality(P) = 1
          /\ Committed(e, "WAITLISTED")' = {r} \ P
          /\ Committed(e, "CONFIRMED")' = sitting \cup P
      BY <2>1, <2>4, <2>5, <3>1 DEF P
    <3> HIDE DEF sitting
    <3> QED
      BY <1>4, <1>8, <1>11, <1>12, <2>3, <2>5, <2>6, <3>1, <3>2, ServeStep
  <2> QED
    BY <1>4, <1>5, <1>6, <1>7, <1>11, <2>7 DEF Ledger!Join, Room, Gone
<1> QED
  BY <1>1, <1>14, <1>15 DEF ActiveStatuses

\* A commit that promotes: whoever was chosen is the front of the line, and they are as
\* many as find a free seat.
LEMMA PromotionServes ==
  ASSUME LInv, LInv', NEW w \in Workers, Commit(w), NEW e \in Events, e = req[w].event,
         NEW sitting \in SUBSET Committed(e, "CONFIRMED"),
         Committed(e, "CONFIRMED")' = sitting \cup req[w].promoted,
         Committed(e, "WAITLISTED")' = Committed(e, "WAITLISTED") \ req[w].promoted,
         \A r \in Committed(e, "WAITLISTED") \ req[w].promoted : r \notin Written(w)
  PROVE  /\ Ledger!Serve(e, edirty[e].capacity, sitting, Line(e))
         /\ Cardinality(sitting) <= edirty[e].capacity
<1> DEFINE queue == Committed(e, "WAITLISTED")
           P == req[w].promoted
<1>1. /\ P \in SUBSET queue
      /\ \A r \in P : regs[r].status = "WAITLISTED"
  <2>1. Written(w) \subseteq RegIds
    BY DEF Written
  <2> QED
    BY <2>1, CommitRows DEF Committed
<1>2. Ranked(queue, Positions) /\ Lists(Line(e), queue, Positions)
  BY LineNow DEF LInv, IInv, Structure
<1>3. ASSUME NEW a \in P, NEW b \in queue \ P PROVE Positions[a] < Positions[b]
  <2>1. Visible(w, b) = regs[b] /\ b \in RegIds \ P
    BY <1>3 DEF Visible, Written, Committed
  <2>2. regs[b].status = "WAITLISTED" /\ regs[b].event = e
    BY DEF Committed
  <2>3. Before(Positions, a, b)
    BY <2>1, <2>2 DEF LInv, Orderly, OrderOK, Commit
  <2>4. a \in queue /\ b \in queue /\ a # b
    BY <1>1
  <2>5. /\ Positions[a] # Null /\ Positions[b] # Null
        /\ Positions[a] \in Int /\ Positions[b] \in Int /\ Positions[a] # Positions[b]
    <3>1. Positions[a] = regs[a].position /\ Positions[b] = regs[b].position
      BY <2>4 DEF Positions, Committed
    <3>2. regs[a].position # Null /\ regs[b].position # Null
      BY <2>4 DEF LInv, TicketInv, DistinctTickets
    <3> QED
      BY <1>2, <2>4, <3>1, <3>2 DEF Ranked
  <2> QED
    BY <2>3, <2>5 DEF Before
<1>4. IsFiniteSet(sitting) /\ Cardinality(sitting) \in Nat
  BY RowsFinite, FS_Subset, FS_CardinalityType
<1>5. IsFiniteSet(P) /\ Cardinality(P) \in Nat
  <2>1. IsFiniteSet(queue)
    BY RowsFinite
  <2> QED
    BY <1>1, <2>1, FS_Subset, FS_CardinalityType
<1>6. Cardinality(sitting \cup P) = Cardinality(sitting) + Cardinality(P)
  <2>1. sitting \cap P = {}
    BY <1>1 DEF Committed
  <2> HIDE DEF P
  <2>2. Cardinality(sitting \cup P) = Cardinality(sitting) + Cardinality(P) - Cardinality({})
    BY <1>4, <1>5, <2>1, FS_Union
  <2>3. Cardinality({}) = 0
    BY FS_EmptySet
  <2> QED
    BY <1>4, <1>5, <2>2, <2>3
<1>7. /\ edirty[e].capacity \in Nat
      /\ Cardinality(sitting) + Cardinality(P) <= edirty[e].capacity
      /\ P = queue \/ Cardinality(sitting) + Cardinality(P) = edirty[e].capacity
  <2>1. /\ edirty[e].capacity \in Nat
        /\ Cardinality(sitting \cup P) <= edirty[e].capacity
        /\ queue \ P = {} \/ Cardinality(sitting \cup P) >= edirty[e].capacity
    BY CommitRoom
  <2> HIDE DEF P, queue
  <2> QED
    BY <1>1, <1>4, <1>5, <1>6, <2>1
<1>8. ASSUME NEW r \in queue \ P PROVE Positions'[r] = Positions[r]
  <2>1. r \in RegIds /\ r \notin Written(w)
    BY DEF Committed
  <2>2. regs'[r] = regs[r]
    BY <2>1, CommitFacts DEF LInv
  <2> QED
    BY <2>1, <2>2 DEF Positions
<1>9. \A f \in Events \ {e} : /\ Committed(f, "CONFIRMED")' = Committed(f, "CONFIRMED")
                              /\ Line(f)' = Line(f)
  BY CommitElsewhere
<1>10. TypeOK' /\ TicketInv'
  BY DEF LInv, IInv, Structure
<1>11. Committed(e, "CONFIRMED")' = sitting \cup P /\ Committed(e, "WAITLISTED")' = queue \ P
  OBVIOUS
<1> HIDE DEF P, queue
<1>12. Ledger!Serve(e, edirty[e].capacity, sitting, Line(e))
  BY <1>1, <1>2, <1>3, <1>4, <1>7, <1>8, <1>9, <1>10, <1>11, ServeStep
<1> QED
  BY <1>4, <1>5, <1>7, <1>12

\* cancel is GiveUpSeat or LeaveLine.
LEMMA LeaveStep ==
  ASSUME LInv, LInv', NEW w \in Workers, Commit(w), NEW e \in Events, e = req[w].event,
         Leaving(w, e)
  PROVE  \E r \in RegIds : Ledger!GiveUpSeat(e, r) \/ Ledger!LeaveLine(e, r)
<1> DEFINE sitting == Committed(e, "CONFIRMED")
           queue == Committed(e, "WAITLISTED")
           P == req[w].promoted
<1>1. PICK r \in Written(w) :
        /\ regs[r].status \in ActiveStatuses /\ dirty[r].status = "CANCELLED"
        /\ Written(w) \subseteq {r} \cup P
        /\ regs[r].status = "WAITLISTED" => P = {}
  BY DEF Leaving
<1>2. /\ edirty[e] = events[e] /\ r \in RegIds /\ regs[r].event = e
      /\ \A s \in RegIds : regs'[s] = IF s \in Written(w) THEN dirty[s] ELSE regs[s]
  BY <1>1, CommitFacts DEF LInv, Leaving, ActiveStatuses
<1>3. /\ P \subseteq Written(w)
      /\ \A s \in P : regs[s].status = "WAITLISTED" /\ dirty[s].status = "CONFIRMED"
      /\ \A status \in ActiveStatuses :
              Committed(e, status)' =
                (Committed(e, status) \ Written(w))
                  \cup {s \in Written(w) : dirty[s].status = status}
  BY CommitRows
<1>4. Written(w) = {r} \cup P /\ r \notin P
  BY <1>1, <1>3
<1>5. Gone' = Gone \cup {r}
  <2>1. Written(w) \subseteq RegIds
    BY DEF Written
  <2>2. \A s \in P : s \notin Gone /\ dirty[s].status \notin {"CANCELLED", "DELETED"}
    BY <1>3 DEF Gone
  <2> QED
    BY <1>1, <1>2, <1>4, <2>1, <2>2 DEF Gone
<1>6. Room(e) \in Nat /\ Room(e) = edirty[e].capacity /\ Room(e)' = Room(e)
  <2>1. events'[e] = events[e]
    BY <1>2, CommitFacts DEF LInv
  <2> QED
    BY <1>2, <2>1, CommitRoom DEF Room
<1>7. \A f \in Events \ {e} : /\ Committed(f, "CONFIRMED")' = Committed(f, "CONFIRMED")
                              /\ Line(f)' = Line(f) /\ Room(f)' = Room(f)
  BY CommitElsewhere
<1>8. /\ sitting' = (sitting \ Written(w)) \cup {s \in Written(w) : dirty[s].status = "CONFIRMED"}
      /\ queue' = (queue \ Written(w)) \cup {s \in Written(w) : dirty[s].status = "WAITLISTED"}
  BY <1>3 DEF ActiveStatuses
<1>9. \A s \in P : s \notin sitting
  BY <1>3 DEF Committed
<1>10. CASE regs[r].status = "CONFIRMED"
  <2>1. r \in sitting /\ r \notin queue
    BY <1>2, <1>10 DEF Committed
  <2>2. sitting' = (sitting \ {r}) \cup P
    BY <1>1, <1>3, <1>4, <1>8, <1>9
  <2>3. queue' = queue \ P
    BY <1>1, <1>3, <1>4, <1>8, <2>1
  <2>4. \A s \in queue \ P : s \notin Written(w)
    BY <1>4, <2>1
  <2>5. sitting \ {r} \in SUBSET sitting
    OBVIOUS
  <2>6. Ledger!Serve(e, edirty[e].capacity, sitting \ {r}, Line(e))
    BY <2>2, <2>3, <2>4, <2>5, PromotionServes
  <2>7. Ledger!GiveUpSeat(e, r)
    BY <1>5, <1>6, <1>7, <2>1, <2>6 DEF Ledger!GiveUpSeat, Room, Gone
  <2> QED
    BY <1>2, <2>7
<1>11. CASE regs[r].status = "WAITLISTED"
  <2>1. P = {} /\ Written(w) = {r} /\ r \in queue /\ r \notin sitting
    BY <1>1, <1>2, <1>4, <1>11 DEF Committed
  <2>2. sitting' = sitting /\ queue' = queue \ {r}
    BY <1>1, <1>8, <2>1
  <2>3. Ranked(queue, Positions) /\ Lists(Line(e), queue, Positions)
    BY LineNow DEF LInv, IInv, Structure
  <2>4. PICK i \in 1..Cardinality(queue) : Line(e)[i] = r
    <3> HIDE DEF queue
    <3> QED
      BY <2>1, <2>3, ListBijective
  <2> DEFINE rest == SubSeq(Line(e), 1, i - 1) \o SubSeq(Line(e), i + 1, Len(Line(e)))
  <2>5. Len(Line(e)) = Cardinality(queue) /\ Lists(rest, queue \ {r}, Positions)
    <3> HIDE DEF queue
    <3> QED
      BY <2>3, <2>4, ListRemove
  <2>6. \A s \in queue \ {r} : Positions'[s] = Positions[s]
    BY <1>2, <2>1 DEF Positions, Committed
  <2>7. Line(e)' = rest
    <3> HIDE DEF rest
    <3>1. Lists(rest, queue \ {r}, Positions')
      BY <2>5, <2>6, ListAgrees
    <3> QED
      BY <2>2, <3>1, LineNext DEF LInv, IInv, Structure
  <2>8. rest = Ledger!RemoveAt(Line(e), i)
    BY DEF Ledger!RemoveAt
  <2> HIDE DEF rest
  <2>9. Ledger!LeaveLine(e, r)
    <3>1. [f \in Events |-> Line(f)]' =
            [[f \in Events |-> Line(f)] EXCEPT ![e] = Ledger!RemoveAt(Line(e), i)]
      BY <1>7, <2>7, <2>8
    <3>2. [f \in Events |-> Room(f)]' = [f \in Events |-> Room(f)]
      BY <1>6, <1>7
    <3>3. [f \in Events |-> Committed(f, "CONFIRMED")]' = [f \in Events |-> Committed(f, "CONFIRMED")]
      BY <1>7, <2>2
    <3>4. i \in 1..Len(Line(e))
      BY <2>5
    <3> QED
      BY <1>5, <2>4, <3>1, <3>2, <3>3, <3>4 DEF Ledger!LeaveLine, Room, Gone
  <2> QED
    BY <1>2, <2>9
<1> QED
  BY <1>1, <1>10, <1>11 DEF ActiveStatuses

\* update is Resize, or nothing the ledger sees.
LEMMA ResizeStep ==
  ASSUME LInv, LInv', NEW w \in Workers, Commit(w), NEW e \in Events, e = req[w].event,
         Resizing(w, e)
  PROVE  (\E seats \in Capacities : Ledger!Resize(e, seats)) \/ UNCHANGED Ledger!vars
<1> DEFINE sitting == Committed(e, "CONFIRMED")
           queue == Committed(e, "WAITLISTED")
           P == req[w].promoted
<1>1. /\ P \subseteq Written(w)
      /\ \A s \in P : regs[s].status = "WAITLISTED" /\ dirty[s].status = "CONFIRMED"
      /\ \A status \in ActiveStatuses :
              Committed(e, status)' =
                (Committed(e, status) \ Written(w))
                  \cup {s \in Written(w) : dirty[s].status = status}
  BY CommitRows
<1>2. Written(w) = P
  BY <1>1 DEF Resizing
<1>3. \A s \in P : s \notin sitting
  BY <1>1 DEF Committed
<1>4. sitting' = sitting \cup P /\ queue' = queue \ P
  <2>1. /\ sitting' = (sitting \ Written(w)) \cup {s \in Written(w) : dirty[s].status = "CONFIRMED"}
        /\ queue' = (queue \ Written(w)) \cup {s \in Written(w) : dirty[s].status = "WAITLISTED"}
    BY <1>1 DEF ActiveStatuses
  <2> QED
    BY <1>1, <1>2, <1>3, <2>1
<1>5. Gone' = Gone
  <2>1. \A s \in RegIds : regs'[s] = IF s \in P THEN dirty[s] ELSE regs[s]
    BY <1>2, CommitFacts DEF LInv
  <2> QED
    BY <1>1, <2>1 DEF Gone
<1>6. /\ Room(e) > 0 /\ Room(e) = events[e].capacity /\ Room(e)' = edirty[e].capacity
      /\ edirty[e].capacity \in Nat
  BY CommitRoom DEF Resizing
<1>7. \A f \in Events \ {e} : /\ Committed(f, "CONFIRMED")' = Committed(f, "CONFIRMED")
                              /\ Line(f)' = Line(f) /\ Room(f)' = Room(f)
  BY CommitElsewhere
<1>8. CASE edirty[e].capacity \in Capacities
  <2>0. PICK seats \in Capacities : seats = edirty[e].capacity
    BY <1>8
  <2>1. \A s \in queue \ P : s \notin Written(w)
    BY <1>2
  <2>2. /\ Ledger!Serve(e, seats, sitting, Line(e))
        /\ Cardinality(sitting) <= seats
    BY <1>4, <2>0, <2>1, PromotionServes
  <2>3. Cardinality(sitting) \in Nat
    BY RowsFinite
  <2>4. [f \in Events |-> Room(f)]' = [[f \in Events |-> Room(f)] EXCEPT ![e] = seats]
    BY <1>6, <1>7, <2>0
  <2>5. seats >= Ledger!Cardinality([f \in Events |-> Committed(f, "CONFIRMED")][e])
    <3>1. Ledger!Cardinality(sitting) = Cardinality(sitting)
      BY LedgerCounts
    <3>2. seats >= Ledger!Cardinality(sitting)
      BY <1>6, <2>0, <2>2, <2>3, <3>1
    <3> HIDE DEF sitting
    <3>3. sitting = [f \in Events |-> Committed(f, "CONFIRMED")][e]
      BY DEF sitting
    <3> QED
      BY <3>2, <3>3
  <2>6. [f \in Events |-> Committed(f, "CONFIRMED")][e] = sitting /\ [f \in Events |-> Line(f)][e] = Line(e)
        /\ [f \in Events |-> Room(f)][e] > 0
    BY <1>6
  <2> HIDE DEF sitting, queue, P
  <2>7. Ledger!Resize(e, seats)
    BY <1>5, <2>2, <2>4, <2>5, <2>6 DEF Ledger!Resize, Room, Gone
  <2> QED
    BY <2>0, <2>7
<1>9. CASE P = {} /\ edirty[e].capacity = events[e].capacity
  <2>1. sitting' = sitting /\ queue' = queue /\ Room(e)' = Room(e)
    BY <1>4, <1>6, <1>9
  <2>2. \A r \in queue : regs'[r] = regs[r]
    BY <1>2, <1>9, CommitFacts DEF LInv, Committed
  <2>3. Line(e)' = Line(e)
    BY <2>1, <2>2, LineStays DEF LInv, IInv, Structure
  <2> QED
    BY <1>5, <1>7, <2>1, <2>3, LedgerStutter
<1> QED
  BY <1>8, <1>9 DEF Resizing

\* remove is Close.
LEMMA CloseStep ==
  ASSUME LInv, LInv', NEW w \in Workers, Commit(w), NEW e \in Events, e = req[w].event,
         Closing(w, e)
  PROVE  Ledger!Close(e)
<1> DEFINE sitting == Committed(e, "CONFIRMED")
           queue == Committed(e, "WAITLISTED")
<1>1. /\ elock[e] = w /\ pc[w] = "commit" /\ w # None
      /\ \A r \in RegIds : regs'[r] = IF r \in Written(w) THEN dirty[r] ELSE regs[r]
      /\ \A r \in Written(w) : r \in RegIds /\ (regs[r].status # "ABSENT" => regs[r].event = e)
      /\ \A status : Committed(e, status)' = Rows(w, e, status)
  BY CommitFacts, NoneAssumption DEF LInv
<1>2. \A r \in Written(w) : dirty[r].status = "DELETED" /\ regs[r].event = e /\ regs[r].status # "ABSENT"
  BY <1>1 DEF Closing
<1>3. Survivors(w, e) = {}
  BY <1>1 DEF LInv, OrphanInv, CascadeInv, CascadeOK, Closing
<1>4. sitting' = {} /\ queue' = {}
  BY <1>1, <1>3 DEF Survivors, Rows, Live, ActiveStatuses
<1>5. \A r \in sitting \cup queue : r \in Written(w)
  <2> SUFFICES ASSUME NEW r \in sitting \cup queue, r \notin Written(w) PROVE FALSE
    OBVIOUS
  <2>1. r \in RegIds /\ Visible(w, r) = regs[r]
    BY DEF Committed, Written, Visible
  <2> QED
    BY <1>3, <2>1 DEF Committed, Survivors, Live, ActiveStatuses
<1>6. Gone' = Gone \cup sitting \cup queue
  <2>1. ASSUME NEW r \in RegIds PROVE r \in Gone' <=> r \in Gone \cup sitting \cup queue
    <3>1. CASE r \in Written(w)
      <4>1. r \in Gone'
        BY <1>1, <1>2, <3>1 DEF Gone
      <4>2. regs[r].status \in ActiveStatuses \cup {"CANCELLED", "DELETED"} /\ regs[r].event = e
        BY <1>2, <3>1 DEF LInv, IInv, Structure, TypeOK, RegRows
      <4> QED
        BY <4>1, <4>2 DEF Gone, Committed, ActiveStatuses
    <3>2. CASE r \notin Written(w)
      BY <1>1, <1>5, <3>2 DEF Gone
    <3> QED
      BY <3>1, <3>2
  <2>2. Gone' \subseteq RegIds /\ Gone \cup sitting \cup queue \subseteq RegIds
    BY DEF Gone, Committed
  <2> QED
    BY <2>1, <2>2
<1>7. Room(e) > 0 /\ Room(e)' = -1
  BY CommitRoom DEF Closing
<1>8. \A f \in Events \ {e} : /\ Committed(f, "CONFIRMED")' = Committed(f, "CONFIRMED")
                              /\ Line(f)' = Line(f) /\ Room(f)' = Room(f)
  BY CommitElsewhere
<1>9. Line(e)' = <<>>
  <2>1. Lists(Line(e)', {}, Positions')
    BY <1>4, LineNext DEF LInv, IInv, Structure
  <2>2. Cardinality({}) = 0 /\ 1..0 = {}
    BY FS_EmptySet
  <2>3. Line(e)' \in [{} -> {}]
    BY <2>1, <2>2 DEF Lists
  <2> QED
    BY <2>3
<1>10. Ledger!Waiting(e) = queue
  BY WaitingIs DEF LInv, IInv, Structure
<1>11. [f \in Events |-> Line(f)]' = [[f \in Events |-> Line(f)] EXCEPT ![e] = <<>>]
  BY <1>8, <1>9
<1>12. [f \in Events |-> Committed(f, "CONFIRMED")]' =
         [[f \in Events |-> Committed(f, "CONFIRMED")] EXCEPT ![e] = {}]
  BY <1>4, <1>8
<1>13. [f \in Events |-> Room(f)]' = [[f \in Events |-> Room(f)] EXCEPT ![e] = -1]
  BY <1>7, <1>8
<1> HIDE DEF queue
<1> QED
  BY <1>6, <1>7, <1>10, <1>11, <1>12, <1>13 DEF Ledger!Close, Ledger!Closed, Room, Gone

-----------------------------------------------------------------------------
(* Every step of the service is a step of the ledger.                      *)

\* A commit hands out a seat or a place, takes one back, resizes the hall or closes it.
LEMMA LedgerCommit ==
  ASSUME LInv, LInv', NEW w \in Workers, Commit(w)
  PROVE  [Ledger!Next]_(Ledger!vars)
<1>1. PICK e \in Events : e = req[w].event /\ elock[e] = w /\ pc[w] = "commit"
  BY CommitFacts DEF LInv
<1>2. Joining(w, e) \/ Leaving(w, e) \/ Resizing(w, e) \/ Closing(w, e)
  <2>1. ShapeOK(w, e)
    BY <1>1, NoneAssumption DEF LInv, ShapeInv
  <2> QED
    BY <1>1, <2>1 DEF ShapeOK
<1>3. (\E r \in RegIds : Ledger!Join(e, r)) \/ Ledger!Close(e)
      \/ (\E r \in RegIds : Ledger!GiveUpSeat(e, r) \/ Ledger!LeaveLine(e, r))
      \/ (\E seats \in Capacities : Ledger!Resize(e, seats)) \/ UNCHANGED Ledger!vars
  BY <1>1, <1>2, JoinStep, LeaveStep, ResizeStep, CloseStep
<1> QED
  BY <1>3 DEF Ledger!Next

\* create opens the hall.
LEMMA OpenStep ==
  ASSUME LInv, LInv', NEW e \in Events, NEW dto \in NewEvents, Create(e, dto)
  PROVE  \E seats \in Capacities : Ledger!Open(e, seats)
<1>1. /\ events' = [events EXCEPT ![e] = NewRow(dto)] /\ regs' = regs
      /\ events[e].status = "ABSENT" /\ events[e].capacity = 0
  BY DEF Create, LInv, IInv, AbsentInv
<1>2. dto.capacity \in Nat /\ dto.capacity # Null
  <2>0. NewRow(dto).capacity = dto.capacity
    BY DEF NewRow, AbsentEvent
  <2>1. NewRow(dto) \in EventRows
    BY NewEventsAssumption
  <2>2. \A row \in EventRows : row.capacity \in Nat
    BY DEF EventRows
  <2>3. dto.capacity \in Nat
    BY <2>0, <2>1, <2>2
  <2> QED
    BY <2>3 DEF Null
<1>3. PICK seats \in Capacities : seats = dto.capacity
  BY <1>2 DEF Capacities
<1>4. Room(e) = 0 /\ Room(e)' = seats
  <2>1. events'[e] = NewRow(dto)
    BY <1>1 DEF LInv, IInv, Structure, TypeOK
  <2>2. NewRow(dto).capacity = dto.capacity /\ NewRow(dto).status = "DRAFT"
    BY DEF NewRow, AbsentEvent
  <2> QED
    BY <1>1, <1>3, <2>1, <2>2 DEF Room
<1>5. \A f \in Events \ {e} : Room(f)' = Room(f)
  BY <1>1 DEF Room
<1>6. \A f \in Events : /\ Committed(f, "CONFIRMED")' = Committed(f, "CONFIRMED")
                        /\ Committed(f, "WAITLISTED")' = Committed(f, "WAITLISTED")
  BY <1>1 DEF Committed
<1>7. ASSUME NEW f \in Events PROVE Line(f)' = Line(f)
  <2>1. \A r \in Committed(f, "WAITLISTED") : regs'[r] = regs[r]
    BY <1>1
  <2> QED
    BY <1>6, <2>1, LineStays DEF LInv, IInv, Structure
<1>8. Gone' = Gone
  BY <1>1 DEF Gone
<1>9. [f \in Events |-> Room(f)]' = [[f \in Events |-> Room(f)] EXCEPT ![e] = seats]
  BY <1>4, <1>5
<1>10. [f \in Events |-> Room(f)][e] = 0
  BY <1>4
<1>11. Ledger!Open(e, seats)
  BY <1>6, <1>7, <1>8, <1>9, <1>10 DEF Ledger!Open, Room, Gone
<1> QED
  BY <1>11

\* Everything that is not a commit leaves the registrations and the seats as they are;
\* publishing changes the status of an event and nothing else.
LEMMA QuietStep ==
  ASSUME LInv, LInv', NEW w \in Workers, StepOf(w), ~Commit(w)
  PROVE  UNCHANGED Ledger!vars
<1>1. regs' = regs
  BY OnlyCommitOf DEF LInv
<1>2. ASSUME NEW e \in Events PROVE Room(e)' = Room(e)
  <2>1. CASE events'[e] = events[e]
    BY <2>1 DEF Room
  <2>2. CASE Exists(e) /\ events'[e] = [events[e] EXCEPT !.status = "PUBLISHED"]
    <3>1. events[e] \in EventRows
      BY DEF LInv, IInv, Structure, TypeOK
    <3>2. events'[e].capacity = events[e].capacity /\ events'[e].status = "PUBLISHED"
      BY <2>2, <3>1, StatusEdit
    <3> QED
      BY <2>2, <3>2 DEF Room, Exists, EventStatuses
  <2> QED
    BY <2>1, <2>2, OthersKeep DEF LInv
<1>3. ASSUME NEW e \in Events
      PROVE  /\ Committed(e, "CONFIRMED")' = Committed(e, "CONFIRMED")
             /\ Line(e)' = Line(e)
  <2>1. \A status : Committed(e, status)' = Committed(e, status)
    BY <1>1 DEF Committed
  <2> QED
    BY <1>1, <2>1, LineStays DEF LInv, IInv, Structure
<1>4. Gone' = Gone
  BY <1>1 DEF Gone
<1> QED
  BY <1>2, <1>3, <1>4, LedgerStutter

\* So does the clock.
LEMMA StillStep ==
  ASSUME LInv, LInv', Tick \/ UNCHANGED vars
  PROVE  UNCHANGED Ledger!vars
<1>1. UNCHANGED <<events, regs>>
  BY DEF Tick, vars, rowVars
<1>2. \A e \in Events : Room(e)' = Room(e)
  BY <1>1 DEF Room
<1>3. \A e \in Events : \A status : Committed(e, status)' = Committed(e, status)
  BY <1>1 DEF Committed
<1>4. \A e \in Events : Line(e)' = Line(e)
  BY <1>1, <1>3, LineStays DEF LInv, IInv, Structure
<1> QED
  BY <1>1, <1>2, <1>3, <1>4, LedgerStutter DEF Gone

\* A service without events is a ledger of closed doors.
LEMMA LedgerInit == Init => Ledger!Init
<1> SUFFICES ASSUME Init PROVE Ledger!Init
  OBVIOUS
<1>1. \A r \in RegIds : regs[r] = AbsentReg
  BY DEF Init
<1>2. \A e \in Events : Committed(e, "CONFIRMED") = {} /\ Committed(e, "WAITLISTED") = {}
  BY <1>1 DEF Committed, AbsentReg
<1>3. ASSUME NEW e \in Events PROVE Line(e) = <<>>
  <2>1. TypeOK /\ TicketInv
    BY InitInv, TicketInit DEF IInv, Structure
  <2>2. Lists(Line(e), {}, Positions)
    BY <1>2, <2>1, LineNow
  <2>3. Cardinality({}) = 0 /\ 1..0 = {}
    BY FS_EmptySet
  <2>4. Line(e) \in [{} -> {}]
    BY <2>2, <2>3 DEF Lists
  <2> QED
    BY <2>4
<1>4. \A e \in Events : Room(e) = 0
  BY DEF Init, Room, AbsentEvent
<1>5. Gone = {}
  BY <1>1 DEF Gone, AbsentReg
<1>6. [e \in Events |-> Room(e)] = [e \in Events |-> 0]
  BY <1>4
<1> QED
  BY <1>2, <1>3, <1>5, <1>6 DEF Ledger!Init, Room, Gone

\* All the invariants together, of a service that calls no event off.
LEMMA LedgerInvariance ==
  ASSUME "cancelEvent" \notin Menu
  PROVE  Spec => []LInv
<1>1. IInv /\ PInv /\ Orderly /\ TicketInv /\ OrphanInv /\ FillInv /\ NoSweep
        /\ ShapeInv /\ RoomInv => LInv
  BY DEF LInv
<1> QED
  BY <1>1, OrderInit, OrderNext, TicketInit, TicketNext, ShapeInit, ShapeNext,
     PromotionInvariance, OrphanInvariance, FillInvariance, PTL DEF Spec

\* While no event is called off, the rows of the events cannot be told from seats handed
\* out one after the other: every step of the service, for any number of requests in
\* flight, is one step of the ledger or leaves it as it is.
THEOREM LedgerImplemented ==
  ASSUME "cancelEvent" \notin Menu
  PROVE  Spec => ImplementsLedger
<1>1. LInv /\ LInv' /\ [Next]_vars => [Ledger!Next]_(Ledger!vars)
  <2> SUFFICES ASSUME LInv, LInv', [Next]_vars PROVE [Ledger!Next]_(Ledger!vars)
    OBVIOUS
  <2>1. ASSUME NEW w \in Workers, StepOf(w) PROVE [Ledger!Next]_(Ledger!vars)
    <3>1. CASE Commit(w)
      BY <3>1, LedgerCommit
    <3>2. CASE ~Commit(w)
      BY <2>1, <3>2, QuietStep
    <3> QED
      BY <3>1, <3>2
  <2>2. ASSUME NEW e \in Events, NEW dto \in NewEvents, Create(e, dto)
        PROVE  [Ledger!Next]_(Ledger!vars)
    BY <2>2, OpenStep DEF Ledger!Next
  <2>3. CASE Tick \/ UNCHANGED vars
    BY <2>3, StillStep
  <2> QED
    BY <2>1, <2>2, <2>3, NextCases
<1> QED
  BY <1>1, LedgerInit, LedgerInvariance, PTL DEF Spec, ImplementsLedger, Ledger!Spec
=============================================================================
