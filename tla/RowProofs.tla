----------------------------- MODULE RowProofs -----------------------------
(***************************************************************************)
(* Proofs about what becomes of the rows in Booking.  Of the events:       *)
(*   SchedulesHold          Spec => []ScheduleStaysCoherent                *)
(*   RowsHaveEvents         Spec => []NoOrphans                            *)
(* of a registration:                                                      *)
(*   NobodyRevived          Spec => NoRevival                              *)
(*   PromotionsOwed         Spec => PromotionOwed                          *)
(*   AnnouncementsTrue      Spec => []AnnouncedOnceWhenTrue                *)
(* and of the queue of an event:                                           *)
(*   FrontOfQueue           Spec => ServedInOrder                          *)
(*   TicketsDistinct        Spec => []DistinctTickets                      *)
(*   NobodyWaitsBesideASeat Spec => []QueueServed, if no event is ever     *)
(*                          called off                                     *)
(* An edit is checked and written under the lock of its event, so that it  *)
(* is still coherent when it is committed.  A locked event exists, and     *)
(* whoever deletes it has every registration of it, as its own snapshot    *)
(* shows them, in hand.  Whoever a request has chosen for a promotion      *)
(* waits until the request commits, since it holds the event; and once it  *)
(* has committed, nobody waits again who was chosen.  A request reads the  *)
(* queue once it has locked the event, and what it has read of it stays    *)
(* true until it commits.                                                  *)
(***************************************************************************)
EXTENDS BookingProofs

-----------------------------------------------------------------------------
(* The rows of the events.                                                 *)

\* What is committed, what a transaction is about to commit and what it has decided
\* to write are coherent.
LockedCoherent  == \A e \in Events : elock[e] # None => Coherent(edirty[e])
CheckedCoherent == \A w \in Workers : pc[w] = "write" => Coherent(Patched(w))

ScheduleInv == ScheduleStaysCoherent /\ LockedCoherent /\ CheckedCoherent

\* The schedule rules look at the four dates and at nothing else.
LEMMA SameSchedule ==
  ASSUME NEW a, NEW b,
         a.startsAt = b.startsAt, a.endsAt = b.endsAt,
         a.registrationOpensAt = b.registrationOpensAt,
         a.registrationClosesAt = b.registrationClosesAt
  PROVE  Coherent(a) <=> Coherent(b)
  BY DEF Coherent, ScheduleViolations

\* A change of status leaves the schedule alone.
LEMMA StatusSchedule ==
  ASSUME NEW row \in EventRows, NEW status
  PROVE  Coherent([row EXCEPT !.status = status]) <=> Coherent(row)
<1> DEFINE edited == [row EXCEPT !.status = status]
<1>1. /\ edited.startsAt = row.startsAt /\ edited.endsAt = row.endsAt
      /\ edited.registrationOpensAt = row.registrationOpensAt
      /\ edited.registrationClosesAt = row.registrationClosesAt
  BY DEF EventRows
<1> QED
  BY <1>1, SameSchedule

\* The uncommitted version of a locked event is what it was, the row as it was when
\* its lock was granted, with another status perhaps, or what an update has checked.
LEMMA EventVersions ==
  ASSUME IInv, NEW w \in Workers, StepOf(w), NEW e \in Events, elock'[e] # None
  PROVE  \/ elock'[e] = elock[e] /\ edirty'[e] = edirty[e]
         \/ /\ Exists(e)
            /\ \/ edirty'[e] = events[e]
               \/ \E status : edirty'[e] = [events[e] EXCEPT !.status = status]
         \/ pc[w] = "write" /\ edirty'[e] = Patched(w)
<1> USE DEF IInv, Structure, TypeOK
<1>1. CASE Reads(w) \/ Writes(w) \/ Publish(w)
  BY <1>1 DEF Reads, Writes, Publish, rowVars
<1>2. CASE Ends(w) \/ Commit(w)
  BY <1>2 DEF Ends, Commit, Release
<1>3. CASE LockEvent(w)
  BY <1>3 DEF LockEvent, TakeEvent
<1>4. CASE CancelEvent(w)
  BY <1>4 DEF CancelEvent, TakeEvent
<1>5. CASE DeleteEvent(w)
  BY <1>5 DEF DeleteEvent, TakeEvent
<1>6. CASE UpdateWrite(w)
  BY <1>6 DEF UpdateWrite, TakeEvent
<1>7. \/ Reads(w) \/ Writes(w) \/ Publish(w) \/ Ends(w) \/ Commit(w)
      \/ LockEvent(w) \/ CancelEvent(w) \/ DeleteEvent(w) \/ UpdateWrite(w)
  BY TakesAre, Shapes
<1> QED
  BY <1>1, <1>2, <1>3, <1>4, <1>5, <1>6, <1>7

\* A request is about to write an event row only after it has checked the row.
LEMMA WriteFollowsCheck ==
  ASSUME IInv, NEW w \in Workers, StepOf(w), pc'[w] = "write"
  PROVE  UpdateCheck(w)
<1> USE DEF Goto, IInv, Structure, TypeOK
<1>1. CASE Start(w)
  BY <1>1 DEF Start, StartRegister, StartCancelRegistration, StartUpdate, StartPublish,
              StartCancelEvent, StartRemove, Begin
<1>2. CASE LockEvent(w)
  BY <1>2 DEF LockEvent, AfterLock, RequestInv, RequestOK
<1>3. CASE Locking(w) /\ ~LockEvent(w)
  BY <1>3 DEF Locking, EventGone, RegisterInsert, RegisterDuplicate, CancelRow, PromoteRow,
              Publish, SweepRow, SkipRow, CancelEvent, DeleteEvent, CascadeRow, Rollback
<1>4. CASE Local(w)
  BY <1>4 DEF Local, RegisterDecide, RegisterRefused, RegisterPosition, Reread,
              AlreadyCancelled, Promote, UpdateRefused, UpdateRejected,
              UpdateWrite, Snapshot, CascadeDone, Commit, Announce, Rollback
<1>5. CASE Fail(w)
  BY <1>5 DEF Fail, Rollback
<1> QED
  BY <1>1, <1>2, <1>3, <1>4, <1>5 DEF StepOf

-----------------------------------------------------------------------------

\* Initially there are no events, and no locks.
LEMMA ScheduleInit == Init => ScheduleInv
  BY DEF Init, ScheduleInv, ScheduleStaysCoherent, LockedCoherent, CheckedCoherent,
         Exists, AbsentEvent, EventStatuses

\* What a request that is not the one that steps has decided to write stays as it is:
\* it holds the row.
LEMMA CheckedStays ==
  ASSUME IInv, NEW v \in Workers, pc[v] = "write", req'[v] = req[v],
         \A e \in Events : elock[e] = v => elock'[e] = v /\ edirty'[e] = edirty[e]
  PROVE  Patched(v)' = Patched(v)
<1>1. req[v].event \in Events /\ elock[req[v].event] = v
  BY Holding DEF HoldsEvent
<1>2. /\ VisibleEvent(v, req[v].event) = edirty[req[v].event]
      /\ VisibleEvent(v, req[v].event)' = edirty[req[v].event]
  BY <1>1 DEF VisibleEvent
<1> QED
  BY <1>2 DEF Patched

\* Every step of a request keeps the schedules coherent.
LEMMA ScheduleStep ==
  ASSUME IInv, ScheduleInv, NEW w \in Workers, StepOf(w)
  PROVE  ScheduleInv'
<1> USE DEF ScheduleInv
<1>0. \A e \in Events : events[e] \in EventRows /\ edirty[e] \in EventRows
  BY DEF IInv, Structure, TypeOK
<1>1. ScheduleStaysCoherent'
  <2> SUFFICES ASSUME NEW e \in Events, Exists(e)' PROVE Coherent(events'[e])
    BY DEF ScheduleStaysCoherent
  <2>1. CASE events'[e] = events[e]
    BY <2>1 DEF ScheduleStaysCoherent, Exists
  <2>2. CASE elock[e] = w /\ events'[e] = edirty[e]
    BY <2>2, NoneAssumption DEF LockedCoherent
  <2>3. CASE Exists(e) /\ events'[e] = [events[e] EXCEPT !.status = "PUBLISHED"]
    BY <2>3, <1>0, StatusSchedule DEF ScheduleStaysCoherent
  <2> QED
    BY <2>1, <2>2, <2>3, OthersKeep
<1>2. LockedCoherent'
  <2> SUFFICES ASSUME NEW e \in Events, elock'[e] # None PROVE Coherent(edirty'[e])
    BY DEF LockedCoherent
  <2>1. CASE elock'[e] = elock[e] /\ edirty'[e] = edirty[e]
    BY <2>1 DEF LockedCoherent
  <2>2. CASE Exists(e) /\ edirty'[e] = events[e]
    BY <2>2 DEF ScheduleStaysCoherent
  <2>3. CASE Exists(e) /\ \E status : edirty'[e] = [events[e] EXCEPT !.status = status]
    BY <2>3, <1>0, StatusSchedule DEF ScheduleStaysCoherent
  <2>4. CASE pc[w] = "write" /\ edirty'[e] = Patched(w)
    BY <2>4 DEF CheckedCoherent
  <2> QED
    BY <2>1, <2>2, <2>3, <2>4, EventVersions
<1>3. CheckedCoherent'
  <2> SUFFICES ASSUME NEW v \in Workers, pc'[v] = "write" PROVE Coherent(Patched(v)')
    BY DEF CheckedCoherent
  <2>1. CASE v = w
    <3>1. UpdateCheck(w)
      BY <2>1, WriteFollowsCheck
    <3>2. Coherent(Patched(w)) /\ UNCHANGED <<events, edirty, elock, req>>
      BY <3>1 DEF UpdateCheck, UpdateAllowed, rowVars
    <3>3. Patched(w)' = Patched(w)
      BY <3>2 DEF Patched, VisibleEvent
    <3> QED
      BY <2>1, <3>2, <3>3
  <2>2. CASE v # w
    <3>1. pc[v] = "write" /\ req'[v] = req[v]
      BY <2>2, OthersStay DEF IInv, Structure
    <3>2. \A e \in Events : elock[e] = v => elock'[e] = v /\ edirty'[e] = edirty[e]
      BY <2>2, OthersHeld
    <3> QED
      BY <3>1, <3>2, CheckedStays DEF CheckedCoherent
  <2> QED
    BY <2>1, <2>2
<1> QED
  BY <1>1, <1>2, <1>3

\* A POST is refused unless its schedule is coherent, and is about a new event.
LEMMA ScheduleCreate ==
  ASSUME IInv, ScheduleInv, NEW f \in Events, NEW dto \in NewEvents, Create(f, dto)
  PROVE  ScheduleInv'
<1> USE DEF ScheduleInv
<1>1. /\ events' = [events EXCEPT ![f] = NewRow(dto)] /\ Coherent(dto)
      /\ UNCHANGED <<edirty, elock, regs, dirty, rlock, pc, req, mail, now>>
  BY DEF Create
<1>2. Coherent(NewRow(dto))
  <2>1. /\ NewRow(dto).startsAt = dto.startsAt /\ NewRow(dto).endsAt = dto.endsAt
        /\ NewRow(dto).registrationOpensAt = dto.registrationOpensAt
        /\ NewRow(dto).registrationClosesAt = dto.registrationClosesAt
    BY DEF NewRow, AbsentEvent
  <2> QED
    BY <1>1, <2>1, SameSchedule
<1>3. ScheduleStaysCoherent'
  BY <1>1, <1>2 DEF ScheduleStaysCoherent, Exists, IInv, Structure, TypeOK
<1>4. LockedCoherent'
  BY <1>1 DEF LockedCoherent
<1>5. CheckedCoherent'
  <2> SUFFICES ASSUME NEW v \in Workers, pc'[v] = "write" PROVE Coherent(Patched(v)')
    BY DEF CheckedCoherent
  <2> QED
    BY <1>1, CheckedStays DEF CheckedCoherent
<1> QED
  BY <1>3, <1>4, <1>5

\* PATCHes of single fields, however they interleave, leave no event with a schedule
\* that a POST of the same event would have refused.
THEOREM SchedulesHold == Spec => []ScheduleStaysCoherent
<1>1. IInv /\ ScheduleInv /\ [Next]_vars => ScheduleInv'
  <2> SUFFICES ASSUME IInv, ScheduleInv, [Next]_vars PROVE ScheduleInv'
    OBVIOUS
  <2>1. CASE Tick \/ UNCHANGED vars
    BY <2>1 DEF Tick, vars, rowVars, ScheduleInv, ScheduleStaysCoherent, LockedCoherent,
                CheckedCoherent, Exists, Patched, VisibleEvent
  <2> QED
    BY <2>1, NextCases, ScheduleStep, ScheduleCreate
<1>2. ScheduleInv => ScheduleStaysCoherent
  BY DEF ScheduleInv
<1> QED
  BY <1>1, <1>2, ScheduleInit, Invariance, PTL DEF Spec

-----------------------------------------------------------------------------
(* The foreign key of registrations.                                       *)

Live == ActiveStatuses \cup {"CANCELLED"}

LockedExists == \A e \in Events : elock[e] # None => Exists(e)

\* The registrations of `e' that are still to be deleted with it.
Survivors(w, e) == {r \in RegIds : Visible(w, r).event = e /\ Visible(w, r).status \in Live}

\* A transaction has deleted its event or left it one; what its DELETE found, and only
\* that, is still to be deleted.
CascadeOK(e) ==
  /\ edirty[e].status \in EventStatuses \cup {"DELETED"}
  /\ edirty[e].status = "DELETED" =>
       \/ pc[elock[e]] = "cascade" /\ Survivors(elock[e], e) \subseteq req[elock[e]].todo
       \/ pc[elock[e]] = "commit" /\ Survivors(elock[e], e) = {}

CascadeInv == \A e \in Events : elock[e] # None => CascadeOK(e)

OrphanInv == LockedExists /\ CascadeInv /\ NoOrphans

\* Initially there are no rows.
LEMMA OrphanInit == Init => OrphanInv
  BY DEF Init, OrphanInv, LockedExists, CascadeInv, NoOrphans, AbsentReg, ActiveStatuses

\* The DELETE of an event is followed by the deletion of its registrations, and that
\* by the commit, unless the request dies.
LEMMA CascadeSteps ==
  ASSUME NEW w \in Workers, StepOf(w), pc[w] \in {"cascade", "commit"}
  PROVE  CascadeRow(w) \/ CascadeDone(w) \/ Commit(w) \/ Fail(w)
<1>1. ~Start(w)
  BY DEF Start, StartRegister, StartCancelRegistration, StartUpdate, StartPublish,
         StartCancelEvent, StartRemove, Begin
<1>2. Locking(w) => CascadeRow(w)
  BY DEF Locking, LockEvent, EventGone, RegisterInsert, RegisterDuplicate, CancelRow,
         PromoteRow, Publish, SweepRow, SkipRow, CancelEvent, DeleteEvent
<1>3. Local(w) => CascadeDone(w) \/ Commit(w)
  BY DEF Local, RegisterDecide, RegisterRefused, RegisterPosition, Reread,
         AlreadyCancelled, Promote, UpdateCheck, UpdateRefused, UpdateRejected,
         UpdateWrite, Snapshot, Announce
<1> QED
  BY <1>1, <1>2, <1>3 DEF StepOf

\* An event that is locked exists, also after the step: only the commit of its holder
\* can make it go.
LEMMA LockedExistsStep ==
  ASSUME IInv, OrphanInv, NEW w \in Workers, StepOf(w)
  PROVE  LockedExists'
<1> SUFFICES ASSUME NEW e \in Events, elock'[e] # None PROVE Exists(e)'
  BY DEF LockedExists
<1> USE DEF OrphanInv, LockedExists, Exists
<1>1. CASE LockEvent(w) \/ CancelEvent(w) \/ DeleteEvent(w)
  BY <1>1 DEF LockEvent, CancelEvent, DeleteEvent, TakeEvent, IInv, Structure, TypeOK
<1>2. CASE elock'[e] = elock[e] /\ events'[e] = events[e]
  BY <1>2
<1>3. CASE Publish(w)
  <2>1. \/ events'[e] = events[e]
        \/ events'[e] = [events[e] EXCEPT !.status = "PUBLISHED"]
    BY <1>3 DEF Publish, IInv, Structure, TypeOK
  <2>2. elock'[e] = elock[e] /\ events[e] \in EventRows
    BY <1>3 DEF Publish, IInv, Structure, TypeOK
  <2> QED
    BY <2>1, <2>2, StatusEdit DEF EventStatuses
<1>4. CASE UpdateWrite(w)
  <2>1. elock[req[w].event] = w
    BY <1>4, Holding DEF UpdateWrite, HoldsEvent
  <2> QED
    BY <1>4, <2>1, NoneAssumption DEF UpdateWrite, TakeEvent, IInv, Structure, TypeOK
<1>5. CASE Ends(w) \/ Commit(w)
  <2>1. elock'[e] = elock[e] /\ elock[e] # w
    BY <1>5, NoneAssumption DEF Ends, Commit, Release
  <2> QED
    BY <1>5, <2>1 DEF Ends, Commit, VisibleEvent
<1>6. CASE Reads(w) \/ Writes(w)
  BY <1>6, <1>2 DEF Reads, Writes, rowVars
<1> QED
  BY <1>1, <1>3, <1>4, <1>5, <1>6, TakesAre

\* What another request holds, it holds after the step as before.
LEMMA CascadeOthers ==
  ASSUME IInv, OrphanInv, NEW w \in Workers, StepOf(w),
         NEW e \in Events, elock[e] \in Workers \ {w}
  PROVE  elock'[e] = elock[e] /\ CascadeOK(e)'
<1> PICK v \in Workers \ {w} : v = elock[e]
  OBVIOUS
<1>1. /\ elock'[e] = v /\ edirty'[e] = edirty[e] /\ pc'[v] = pc[v] /\ req'[v] = req[v]
  BY OthersHeld, OthersStay DEF IInv, Structure
<1>2. CascadeOK(e)
  BY NoneAssumption DEF OrphanInv, CascadeInv
<1>3. Survivors(v, e)' \subseteq Survivors(v, e)
  <2> SUFFICES ASSUME NEW r \in RegIds, Visible(v, r)'.event = e
               PROVE  Visible(v, r)' = Visible(v, r)
    BY <1>1 DEF Survivors
  <2> QED
    BY OthersSee
<1> QED
  BY <1>1, <1>2, <1>3 DEF CascadeOK

\* What the request that steps holds: its DELETE finds every registration of the event,
\* and the cascade strikes them off one by one.
LEMMA CascadeOwn ==
  ASSUME IInv, OrphanInv, NEW w \in Workers, StepOf(w), NEW e \in Events, elock'[e] = w
  PROVE  CascadeOK(e)'
<1> USE DEF OrphanInv, CascadeInv
<1>0. w # None /\ events[e] \in EventRows /\ edirty[e] \in EventRows
  BY NoneAssumption DEF IInv, Structure, TypeOK
<1>1. CASE DeleteEvent(w) /\ e = req[w].event
  <2>1. /\ edirty'[e] = [events[e] EXCEPT !.status = "DELETED"]
        /\ pc'[w] = "cascade"
        /\ req'[w].todo = UNION {Rows(w, e, s) : s \in Live}
        /\ UNCHANGED <<regs, dirty, rlock>>
    BY <1>1 DEF DeleteEvent, TakeEvent, Goto, Note, Live, IInv, Structure, TypeOK, Requests
  <2>2. Survivors(w, e)' = UNION {Rows(w, e, s) : s \in Live}
    BY <2>1 DEF Survivors, Rows, Visible
  <2> QED
    BY <2>1, <2>2, <1>0, StatusEdit DEF CascadeOK
<1>2. CASE LockEvent(w) /\ e = req[w].event
  <2>1. edirty'[e] = events[e] /\ Exists(e)
    BY <1>2 DEF LockEvent, TakeEvent, IInv, Structure, TypeOK
  <2> QED
    BY <2>1 DEF CascadeOK, Exists, EventStatuses
<1>3. CASE CancelEvent(w) /\ e = req[w].event
  <2>1. edirty'[e] = [events[e] EXCEPT !.status = "CANCELLED"]
    BY <1>3 DEF CancelEvent, TakeEvent, IInv, Structure, TypeOK
  <2> QED
    BY <2>1, <1>0, StatusEdit DEF CascadeOK, EventStatuses
<1>4. CASE UpdateWrite(w) /\ e = req[w].event
  <2>1. elock[e] = w /\ VisibleEvent(w, e) = edirty[e] /\ pc[w] = "write"
    BY <1>4, Holding DEF UpdateWrite, HoldsEvent
  <2>2. edirty'[e] = Patched(w)
    BY <1>4 DEF UpdateWrite, TakeEvent, IInv, Structure, TypeOK
  <2>3. edirty'[e].status = edirty[e].status
    BY <1>4, <2>1, <2>2 DEF Patched, Merge
  <2> QED
    BY <1>0, <2>1, <2>3 DEF CascadeOK
<1>5. CASE elock[e] = w /\ edirty'[e] = edirty[e]
  <2>1. CASE edirty[e].status # "DELETED"
    BY <1>0, <1>5, <2>1 DEF CascadeOK
  <2>2. CASE edirty[e].status = "DELETED" /\ CascadeRow(w)
    <3>1. pc[w] = "cascade" /\ pc'[w] = "cascade" /\ Survivors(w, e) \subseteq req[w].todo
      BY <1>0, <1>5, <2>2 DEF CascadeOK, CascadeRow
    <3>2. PICK r \in req[w].todo :
            /\ WriteRow(w, r, [Visible(w, r) EXCEPT !.status = "DELETED"])
            /\ req' = [req EXCEPT ![w] = [req[w] EXCEPT !.todo = @ \ {r}]]
      BY <2>2 DEF CascadeRow, Note
    <3>6. req'[w].todo = req[w].todo \ {r}
      BY <3>2 DEF IInv, Structure, TypeOK, Requests
    <3>3. r \in RegIds /\ Visible(w, r) \in RegRows
      BY VisibleType DEF IInv, Structure, TypeOK, Requests
    <3>4. /\ Visible(w, r)'.status = "DELETED"
          /\ \A s \in RegIds \ {r} : Visible(w, s)' = Visible(w, s)
      <4>1. UNCHANGED regs
        BY <2>2 DEF CascadeRow
      <4> DEFINE row == [Visible(w, r) EXCEPT !.status = "DELETED"]
      <4>2. row \in RegRows /\ row.status = "DELETED"
        BY <3>3, EditType
      <4>3. WriteRow(w, r, row)
        BY <3>2
      <4> HIDE DEF row
      <4> QED
        BY <3>3, <4>1, <4>2, <4>3, AfterWrite DEF IInv, Structure
    <3>5. Survivors(w, e)' \subseteq req'[w].todo
      BY <3>1, <3>6, <3>4 DEF Survivors, Live, ActiveStatuses
    <3> QED
      BY <1>0, <1>5, <3>1, <3>5 DEF CascadeOK
  <2>3. CASE edirty[e].status = "DELETED" /\ CascadeDone(w)
    <3>1. Survivors(w, e) = {} /\ pc'[w] = "commit" /\ UNCHANGED rowVars
      BY <1>0, <1>5, <2>3 DEF CascadeOK, CascadeDone, Goto, IInv, Structure, TypeOK
    <3>2. Survivors(w, e)' = {}
      BY <3>1 DEF Survivors, Visible, rowVars
    <3> QED
      BY <1>0, <1>5, <3>1, <3>2 DEF CascadeOK
  <2>4. ~Commit(w) /\ ~Fail(w)
    BY <1>0, <1>5 DEF Commit, Fail, Rollback, Release
  <2>5. edirty[e].status = "DELETED" => CascadeRow(w) \/ CascadeDone(w)
    BY <1>0, <1>5, <2>4, CascadeSteps DEF CascadeOK
  <2> QED
    BY <2>1, <2>2, <2>3, <2>5
<1>6. \/ DeleteEvent(w) \/ LockEvent(w) \/ CancelEvent(w) \/ UpdateWrite(w)
      \/ elock[e] = w /\ edirty'[e] = edirty[e]
  BY <1>0, TakesAre DEF Reads, Writes, Ends, Commit, Publish, Release, rowVars
<1>7. DeleteEvent(w) \/ LockEvent(w) \/ CancelEvent(w) \/ UpdateWrite(w) =>
        e = req[w].event \/ (elock[e] = w /\ edirty'[e] = edirty[e])
  <2>1. ASSUME NEW row, TakeEvent(w, req[w].event, row)
        PROVE  e = req[w].event \/ (elock[e] = w /\ edirty'[e] = edirty[e])
    BY <2>1 DEF TakeEvent, IInv, Structure, TypeOK
  <2> QED
    BY <2>1 DEF DeleteEvent, LockEvent, CancelEvent, UpdateWrite
<1> QED
  BY <1>1, <1>2, <1>3, <1>4, <1>5, <1>6, <1>7

\* A commit that deletes an event leaves no registration of it.
LEMMA NoOrphansStep ==
  ASSUME IInv, OrphanInv, NEW w \in Workers, StepOf(w)
  PROVE  NoOrphans'
<1> USE DEF OrphanInv
<1> SUFFICES ASSUME NEW r \in RegIds, regs'[r].status \in Live PROVE Exists(regs[r].event)'
  BY DEF NoOrphans, Live
<1>1. CASE Commit(w)
  <2> DEFINE e == req[w].event
  <2>1. e \in Events /\ elock[e] = w /\ pc[w] = "commit" /\ w # None
    BY <1>1, Holding, NoneAssumption DEF Commit, HoldsEvent
  <2>2. /\ regs'[r] = Visible(w, r)
        /\ \A f \in Events : events'[f] = VisibleEvent(w, f)
    BY <1>1 DEF Commit
  <2>3. \A f \in Events \ {e} : elock[f] # w
    BY <2>1 DEF IInv, Structure, LockInv
  <2>4. CASE Visible(w, r).event = e
    <3>1. CascadeOK(e) /\ r \in Survivors(w, e)
      BY <2>1, <2>2, <2>4 DEF CascadeInv, Survivors
    <3>2. edirty[e].status \in EventStatuses
      BY <2>1, <3>1 DEF CascadeOK
    <3> QED
      BY <2>1, <2>2, <2>4, <3>2 DEF Exists, VisibleEvent
  <2>5. CASE Visible(w, r).event # e
    <3>1. rlock[r] # w
      BY <2>1, <2>5 DEF IInv, Structure, RowInv, Visible
    <3>2. Exists(regs[r].event) /\ regs'[r] = regs[r]
      BY <2>2, <3>1 DEF Visible, NoOrphans, Live
    <3>3. regs[r].event \in Events /\ regs[r].event # e
      BY <2>5, <3>1, <3>2 DEF Visible, Live, ActiveStatuses, IInv, Structure, RowInv
    <3> QED
      BY <2>2, <2>3, <3>2, <3>3 DEF Exists, VisibleEvent
  <2> QED
    BY <2>4, <2>5
<1>2. CASE ~Commit(w)
  <2>1. regs' = regs /\ Exists(regs[r].event)
    <3>1. regs'[r] = regs[r]
      BY <1>2, OthersKeep
    <3>2. regs' = regs
      BY <1>2, OnlyCommitOf
    <3> QED
      BY <3>2 DEF NoOrphans, Live
  <2>2. regs[r].event \in Events /\ events[regs[r].event] \in EventRows
    BY <2>1 DEF Live, ActiveStatuses, IInv, Structure, RowInv, TypeOK
  <2>3. \/ events'[regs[r].event] = events[regs[r].event]
        \/ events'[regs[r].event] = [events[regs[r].event] EXCEPT !.status = "PUBLISHED"]
    BY <1>2, <2>2, OthersKeep
  <2> QED
    BY <2>1, <2>2, <2>3, StatusEdit DEF Exists, EventStatuses
<1> QED
  BY <1>1, <1>2

\* OrphanInv is inductive on the states of IInv.
LEMMA OrphanNext == IInv /\ OrphanInv /\ [Next]_vars => OrphanInv'
<1> SUFFICES ASSUME IInv, OrphanInv, [Next]_vars PROVE OrphanInv'
  OBVIOUS
<1>1. ASSUME NEW w \in Workers, StepOf(w) PROVE OrphanInv'
  <2>1. ASSUME NEW e \in Events, elock'[e] # None PROVE CascadeOK(e)'
    <3>1. CASE elock[e] \in Workers \ {w}
      BY <1>1, <3>1, CascadeOthers
    <3>2. CASE elock[e] \in {None, w}
      <4>1. elock'[e] = w
        BY <1>1, <2>1, <3>2, OthersKeep
      <4> QED
        BY <1>1, <4>1, CascadeOwn
    <3> QED
      BY <3>1, <3>2 DEF IInv, Structure, TypeOK
  <2> QED
    BY <1>1, <2>1, LockedExistsStep, NoOrphansStep DEF OrphanInv, CascadeInv
<1>2. ASSUME NEW f \in Events, NEW dto \in NewEvents, Create(f, dto) PROVE OrphanInv'
  <2>1. /\ events' = [events EXCEPT ![f] = NewRow(dto)] /\ events[f].status = "ABSENT"
        /\ UNCHANGED <<edirty, elock, regs, dirty, rlock, pc, req, mail, now>>
    BY <1>2 DEF Create
  <2>2. \A e \in Events : Exists(e) => Exists(e)'
    BY <2>1 DEF Exists, EventStatuses, NewRow, AbsentEvent, IInv, Structure, TypeOK
  <2>3. \A r \in RegIds : regs[r].status \in Live => regs[r].event \in Events
    BY DEF Live, ActiveStatuses, IInv, Structure, RowInv
  <2> QED
    BY <2>1, <2>2, <2>3 DEF OrphanInv, LockedExists, CascadeInv, CascadeOK, Survivors,
                            Visible, NoOrphans, Live
<1>3. CASE Tick \/ UNCHANGED vars
  BY <1>3 DEF Tick, vars, rowVars, OrphanInv, LockedExists, CascadeInv, CascadeOK,
              Survivors, Visible, NoOrphans, Exists
<1> QED
  BY <1>1, <1>2, <1>3, NextCases

\* The two invariants.
LEMMA OrphanInvariance == Spec => [](IInv /\ OrphanInv)
  BY InitInv, NextInv, OrphanInit, OrphanNext, PTL DEF Spec

\* Every registration that exists belongs to an event that exists: an event is deleted
\* with all the registrations it has when the deletion is committed.
THEOREM RowsHaveEvents == Spec => []NoOrphans
<1>1. OrphanInv => NoOrphans
  BY DEF OrphanInv
<1> QED
  BY <1>1, OrphanInvariance, PTL

-----------------------------------------------------------------------------
(* Promotions: what a request has chosen and has yet to announce.          *)

\* The statuses of a registration that has been given a seat, or has left.
Settled == {"CONFIRMED", "CANCELLED", "DELETED"}

\* What a transaction means to commit for a registration: only a new one waits, only
\* who was chosen moves up, and nobody comes back.
RowOK(r) ==
  rlock[r] # None =>
    /\ dirty[r].status = "WAITLISTED" => regs[r].status = "ABSENT" /\ pc[rlock[r]] = "commit"
    /\ regs[r].status = "CANCELLED" => dirty[r].status \in {"CANCELLED", "DELETED"}
    /\ regs[r].status = "WAITLISTED" /\ dirty[r].status = "CONFIRMED" =>
         r \in req[rlock[r]].promoted

\* One who was chosen by w and is not yet announced.
ChosenOK(w, r) ==
  /\ regs[r].status = "WAITLISTED" /\ regs[r].event = req[w].event
  /\ \/ rlock[r] = w /\ dirty[r].status = "CONFIRMED"
     \/ pc[w] = "promoteRow" /\ r \in req[w].todo

WorkerOK(w) ==
  /\ pc[w] \notin {"promoteRow", "commit", "announce"} => req[w].promoted = {}
  /\ pc[w] = "promoteRow" =>
       \A r \in req[w].todo : r \in req[w].promoted /\ Visible(w, r).status = "WAITLISTED"
  /\ pc[w] \in {"promoteRow", "commit"} => \A r \in req[w].promoted : ChosenOK(w, r)
  /\ pc[w] = "announce" =>
       \A r \in req[w].promoted : mail[r] = 0 /\ regs[r].status \in Settled

\* Nobody is announced by two requests.
Apart ==
  \A v, w \in Workers : v # w /\ pc[v] = "announce" /\ pc[w] = "announce" =>
    req[v].promoted \cap req[w].promoted = {}

Rowwise    == \A r \in RegIds : RowOK(r)
Workerwise == \A w \in Workers : WorkerOK(w)

PInv == Rowwise /\ Workerwise /\ Apart /\ AnnouncedOnceWhenTrue

-----------------------------------------------------------------------------
(* The steps, by where the request stands.                                 *)

\* Initially nothing is locked, chosen or announced.
LEMMA PromotionInit == Init => PInv
  BY DEF Init, PInv, Rowwise, Workerwise, Apart, AnnouncedOnceWhenTrue, RowOK, WorkerOK,
         NoRequest

\* A request that is promoting, committing or announcing does that next, or dies.
LEMMA LateSteps ==
  ASSUME NEW w \in Workers, StepOf(w)
  PROVE  /\ pc[w] = "promoteRow" => PromoteRow(w) \/ Rollback(w)
         /\ pc[w] = "commit" => Commit(w) \/ Rollback(w)
         /\ pc[w] = "announce" => Announce(w) \/ Rollback(w)
<1>1. pc[w] # "idle" => ~Start(w)
  BY DEF Start, StartRegister, StartCancelRegistration, StartUpdate, StartPublish,
         StartCancelEvent, StartRemove, Begin
<1>2. pc[w] \in {"promoteRow", "commit", "announce"} /\ Locking(w) => PromoteRow(w)
  BY DEF Locking, LockEvent, EventGone, RegisterInsert, RegisterDuplicate, CancelRow,
         Publish, SweepRow, SkipRow, CancelEvent, DeleteEvent, CascadeRow
<1>3. pc[w] \in {"promoteRow", "commit", "announce"} /\ Local(w) => Commit(w) \/ Announce(w)
  BY DEF Local, RegisterDecide, RegisterRefused, RegisterPosition, Reread,
         AlreadyCancelled, Promote, UpdateCheck, UpdateRefused, UpdateRejected,
         UpdateWrite, Snapshot, CascadeDone
<1>4. PromoteRow(w) => pc[w] = "promoteRow"
  BY DEF PromoteRow
<1>5. (Commit(w) => pc[w] = "commit") /\ (Announce(w) => pc[w] = "announce")
  BY DEF Commit, Announce
<1>6. Fail(w) => Rollback(w)
  BY DEF Fail
<1> QED
  BY <1>1, <1>2, <1>3, <1>4, <1>5, <1>6 DEF StepOf

\* Before that, a request has chosen nobody, and it stays so unless it promotes.
LEMMA EarlySteps ==
  ASSUME IInv, NEW w \in Workers, StepOf(w), ~Promote(w),
         pc[w] \notin {"promoteRow", "commit", "announce"}, req[w].promoted = {}
  PROVE  pc'[w] \notin {"promoteRow", "announce"} /\ req'[w].promoted = {}
<1> USE DEF Goto, Note, IInv, Structure, TypeOK, Requests
<1>1. CASE Rollback(w)
  BY <1>1 DEF Rollback, NoRequest
<1>2. ASSUME NEW op, NEW label, NEW request \in Requests, Begin(w, op, label, request),
             label \in {"lock", "publish", "snapshot", "delete"}, request.promoted = {}
      PROVE  pc'[w] \notin {"promoteRow", "announce"} /\ req'[w].promoted = {}
  BY <1>2 DEF Begin
<1>3. CASE Start(w)
  <2>1. ASSUME NEW e \in Events, NEW a \in Attendees, StartRegister(w, e, a)
        PROVE  pc'[w] \notin {"promoteRow", "announce"} /\ req'[w].promoted = {}
    <3> DEFINE request == [NoRequest EXCEPT !.event = e, !.attendee = a]
    <3>1. request \in Requests /\ request.promoted = {}
      BY DEF NoRequest
    <3>2. Begin(w, "register", "lock", request)
      BY <2>1 DEF StartRegister
    <3> HIDE DEF request
    <3> QED
      BY <3>1, <3>2, <1>2
  <2>2. ASSUME NEW r \in RegIds, StartCancelRegistration(w, r)
        PROVE  pc'[w] \notin {"promoteRow", "announce"} /\ req'[w].promoted = {}
    <3> DEFINE request == [NoRequest EXCEPT !.reg = r, !.event = regs[r].event]
    <3>1. request \in Requests /\ request.promoted = {}
      BY <2>2 DEF NoRequest, StartCancelRegistration, ActiveStatuses, RowInv
    <3>2. Begin(w, "cancelRegistration", "lock", request)
      BY <2>2 DEF StartCancelRegistration
    <3> HIDE DEF request
    <3> QED
      BY <3>1, <3>2, <1>2
  <2>3. ASSUME NEW e \in Events, NEW patch \in Patches, StartUpdate(w, e, patch)
        PROVE  pc'[w] \notin {"promoteRow", "announce"} /\ req'[w].promoted = {}
    <3> DEFINE request == [NoRequest EXCEPT !.event = e, !.patch = patch]
    <3>1. request \in Requests /\ request.promoted = {}
      BY DEF NoRequest
    <3>2. Begin(w, "update", "lock", request)
      BY <2>3 DEF StartUpdate
    <3> HIDE DEF request
    <3> QED
      BY <3>1, <3>2, <1>2
  <2>4. ASSUME NEW e \in Events, StartPublish(w, e) \/ StartCancelEvent(w, e) \/ StartRemove(w, e)
        PROVE  pc'[w] \notin {"promoteRow", "announce"} /\ req'[w].promoted = {}
    <3> DEFINE request == [NoRequest EXCEPT !.event = e]
    <3>1. request \in Requests /\ request.promoted = {}
      BY DEF NoRequest
    <3>2. \/ Begin(w, "publish", "publish", request)
          \/ Begin(w, "cancelEvent", "snapshot", request)
          \/ Begin(w, "remove", "delete", request)
      BY <2>4 DEF StartPublish, StartCancelEvent, StartRemove
    <3> HIDE DEF request
    <3> QED
      BY <3>1, <3>2, <1>2
  <2> QED
    BY <1>3, <2>1, <2>2, <2>3, <2>4 DEF Start
<1>4. CASE RegisterInsert(w) \/ CancelRow(w) \/ CascadeDone(w) \/ UpdateCheck(w)
  BY <1>4 DEF RegisterInsert, CancelRow, CascadeDone, UpdateCheck
<1>5. CASE UpdateWrite(w) \/ CancelEvent(w)
  BY <1>5 DEF UpdateWrite, CancelEvent
<1>6. CASE LockEvent(w)
  BY <1>6 DEF LockEvent, AfterLock, RequestInv, RequestOK
<1>7. CASE SweepRow(w) \/ SkipRow(w) \/ CascadeRow(w) \/ Snapshot(w) \/ DeleteEvent(w)
  <2>1. \A rows : [req[w] EXCEPT !.todo = rows].promoted = {}
    OBVIOUS
  <2>2. \E rows : req' = [req EXCEPT ![w] = [req[w] EXCEPT !.todo = rows]]
    BY <1>7 DEF SweepRow, SkipRow, CascadeRow, Snapshot, DeleteEvent
  <2>3. pc'[w] \in {"sweep", "cascade"}
    BY <1>7 DEF SweepRow, SkipRow, CascadeRow, Snapshot, DeleteEvent
  <2> QED
    BY <2>1, <2>2, <2>3
<1>8. CASE RegisterDecide(w) \/ RegisterPosition(w) \/ Reread(w)
  <2>1. \A x : /\ [req[w] EXCEPT !.status = x].promoted = {}
               /\ [req[w] EXCEPT !.position = x].promoted = {}
    OBVIOUS
  <2>2. \/ \E x : req' = [req EXCEPT ![w] = [req[w] EXCEPT !.status = x]]
        \/ \E x : req' = [req EXCEPT ![w] = [req[w] EXCEPT !.position = x]]
    BY <1>8 DEF RegisterDecide, RegisterPosition, Reread
  <2>3. pc'[w] \in {"position", "insert", "cancelRow"}
    BY <1>8 DEF RegisterDecide, RegisterPosition, Reread
  <2> QED
    BY <2>1, <2>2, <2>3
<1>9. CASE Publish(w)
  BY <1>9 DEF Publish, NoRequest
<1>10. ~PromoteRow(w) /\ ~Commit(w) /\ ~Announce(w)
  BY DEF PromoteRow, Commit, Announce
<1>11. \/ Start(w) \/ RegisterInsert(w) \/ CancelRow(w) \/ CascadeDone(w) \/ UpdateCheck(w)
       \/ UpdateWrite(w) \/ CancelEvent(w) \/ LockEvent(w) \/ SweepRow(w) \/ SkipRow(w)
       \/ CascadeRow(w) \/ Snapshot(w) \/ DeleteEvent(w) \/ RegisterDecide(w)
       \/ RegisterPosition(w) \/ Reread(w) \/ Publish(w) \/ Rollback(w)
  BY <1>10 DEF StepOf, Locking, Local, Fail, EventGone, RegisterDuplicate, RegisterRefused,
               AlreadyCancelled, UpdateRefused, UpdateRejected
<1> QED
  BY <1>1, <1>3, <1>4, <1>5, <1>6, <1>7, <1>8, <1>9, <1>11

\* What a statement writes to a registration.
LEMMA WrittenRow ==
  ASSUME IInv, NEW w \in Workers, StepOf(w), NEW r \in RegIds, rlock'[r] # None
  PROVE  \/ rlock'[r] = rlock[r] /\ dirty'[r] = dirty[r] /\ regs'[r] = regs[r]
         \/ /\ rlock'[r] = w /\ regs'[r] = regs[r]
            /\ \/ /\ RegisterInsert(w) /\ pc'[w] = "commit" /\ regs[r].status = "ABSENT"
                  /\ dirty'[r].status \in ActiveStatuses
               \/ dirty'[r].status = "CANCELLED"
               \/ CascadeRow(w) /\ dirty'[r].status = "DELETED"
               \/ /\ PromoteRow(w) /\ r \in req[w].todo
                  /\ dirty'[r].status = "CONFIRMED"
<1> USE DEF IInv, Structure, TypeOK
<1>0. \A s \in RegIds : Visible(w, s) \in RegRows /\ regs[s] \in RegRows
  BY VisibleType
<1>1. ASSUME NEW s \in RegIds, NEW row, WriteRow(w, s, row), UNCHANGED regs
      PROVE  \/ rlock'[r] = rlock[r] /\ dirty'[r] = dirty[r] /\ regs'[r] = regs[r]
             \/ s = r /\ rlock'[r] = w /\ regs'[r] = regs[r] /\ dirty'[r] = row
  BY <1>1 DEF WriteRow
<1>2. CASE RegisterInsert(w)
  <2>1. PICK s \in Fresh : \E row : WriteRow(w, s, row) /\ row.status \in ActiveStatuses
    BY <1>2 DEF RegisterInsert, RequestInv, RequestOK
  <2>2. UNCHANGED regs /\ pc'[w] = "commit" /\ s \in RegIds /\ regs[s].status = "ABSENT"
    BY <1>2 DEF RegisterInsert, Goto, Fresh
  <2> QED
    BY <1>1, <1>2, <2>1, <2>2
<1>3. \A s \in RegIds : /\ Vacated(Visible(w, s)).status = "CANCELLED"
                        /\ Vacated(regs[s]).status = "CANCELLED"
                        /\ Seated(Visible(w, s)).status = "CONFIRMED"
                        /\ [Visible(w, s) EXCEPT !.status = "DELETED"].status = "DELETED"
  BY <1>0, EditType
<1>4. CASE CancelRow(w)
  <2>1. req[w].reg \in RegIds
    BY <1>4 DEF CancelRow, RequestInv, RequestOK, OfEvent
  <2>2. /\ WriteRow(w, req[w].reg, Vacated(Visible(w, req[w].reg))) /\ UNCHANGED regs
    BY <1>4 DEF CancelRow
  <2> QED
    BY <1>1, <1>3, <2>1, <2>2
<1>5. CASE SweepRow(w)
  <2>1. PICK s \in req[w].todo : WriteRow(w, s, Vacated(regs[s]))
    BY <1>5 DEF SweepRow
  <2>2. s \in RegIds /\ UNCHANGED regs
    BY <1>5 DEF SweepRow, Requests
  <2> QED
    BY <1>1, <1>3, <2>1, <2>2
<1>6. CASE CascadeRow(w)
  <2>1. PICK s \in req[w].todo : WriteRow(w, s, [Visible(w, s) EXCEPT !.status = "DELETED"])
    BY <1>6 DEF CascadeRow
  <2>2. s \in RegIds /\ UNCHANGED regs
    BY <1>6 DEF CascadeRow, Requests
  <2>3. \/ rlock'[r] = rlock[r] /\ dirty'[r] = dirty[r] /\ regs'[r] = regs[r]
        \/ /\ s = r /\ rlock'[r] = w /\ regs'[r] = regs[r]
           /\ dirty'[r] = [Visible(w, s) EXCEPT !.status = "DELETED"]
    BY <1>1, <2>1, <2>2
  <2> QED
    BY <1>3, <1>6, <2>2, <2>3
<1>7. CASE PromoteRow(w)
  <2>1. PICK s \in req[w].todo : WriteRow(w, s, Seated(Visible(w, s)))
    BY <1>7 DEF PromoteRow, NextPromoted
  <2>2. s \in RegIds /\ UNCHANGED regs
    BY <1>7 DEF PromoteRow, Requests
  <2> QED
    BY <1>1, <1>3, <1>7, <2>1, <2>2
<1>8. CASE Reads(w) \/ Publish(w)
  BY <1>8 DEF Reads, Publish, rowVars
<1>10. CASE LockEvent(w) \/ CancelEvent(w) \/ DeleteEvent(w) \/ UpdateWrite(w)
  BY <1>10 DEF LockEvent, CancelEvent, DeleteEvent, UpdateWrite
<1>9. CASE Ends(w) \/ Commit(w)
  BY <1>9, NoneAssumption DEF Ends, Commit, Release, Visible
<1> QED
  BY <1>2, <1>4, <1>5, <1>6, <1>7, <1>8, <1>9, <1>10, Kinds

-----------------------------------------------------------------------------
(* The invariant.                                                          *)

\* The UPDATE of a promoted row leaves the choice as it was.
LEMMA PromoteRowKeeps ==
  ASSUME IInv, NEW w \in Workers, PromoteRow(w)
  PROVE  /\ req'[w].promoted = req[w].promoted /\ req'[w].event = req[w].event
         /\ \E r \in req[w].todo :
              /\ req'[w].todo = req[w].todo \ {r}
              /\ WriteRow(w, r, Seated(Visible(w, r)))
              /\ pc'[w] = IF req[w].todo = {r} THEN "commit" ELSE "promoteRow"
         /\ UNCHANGED <<events, edirty, elock, regs, mail, now>>
<1>1. PICK r \in req[w].todo :
        /\ req' = [req EXCEPT ![w] = [req[w] EXCEPT !.todo = @ \ {r}]]
        /\ WriteRow(w, r, Seated(Visible(w, r)))
        /\ pc' = [pc EXCEPT ![w] = IF req[w].todo = {r} THEN "commit" ELSE "promoteRow"]
  BY DEF PromoteRow, NextPromoted, Note, Goto
<1>2. req[w] \in Requests /\ w \in DOMAIN req /\ w \in DOMAIN pc
  BY DEF IInv, Structure, TypeOK
<1>3. /\ req'[w].promoted = req[w].promoted /\ req'[w].event = req[w].event
      /\ req'[w].todo = req[w].todo \ {r}
  BY <1>1, <1>2 DEF Requests
<1>4. pc'[w] = IF req[w].todo = {r} THEN "commit" ELSE "promoteRow"
  BY <1>1, <1>2
<1>5. UNCHANGED <<events, edirty, elock, regs, mail, now>>
  BY DEF PromoteRow
<1> QED
  BY <1>1, <1>3, <1>4, <1>5

\* Whatever a request writes is settled by what is committed and by what it has chosen.
LEMMA RowStep ==
  ASSUME IInv, PInv, NEW w \in Workers, StepOf(w)
  PROVE  Rowwise'
<1> SUFFICES ASSUME NEW r \in RegIds, rlock'[r] # None PROVE RowOK(r)'
  BY DEF Rowwise, RowOK
<1> USE DEF PInv
<1>0. RowOK(r) /\ WorkerOK(w)
  BY DEF Rowwise, Workerwise
<1>1. CASE rlock'[r] = rlock[r] /\ dirty'[r] = dirty[r] /\ regs'[r] = regs[r]
  <2> PICK v \in Workers : v = rlock[r]
    BY <1>1 DEF IInv, Structure, TypeOK
  <2>1. CASE v # w
    BY <1>0, <1>1, <2>1, OthersStay DEF RowOK, IInv, Structure
  <2>2. CASE v = w
    <3>1. ~Commit(w) /\ ~Rollback(w)
      BY <1>1, <2>2 DEF Commit, Rollback, Release
    <3>2. pc[w] \in HoldsEvent \cup {"sweep"}
      BY <1>1, <2>2 DEF IInv, Structure, RowInv
    <3>3. dirty[r].status # "WAITLISTED"
      BY <1>0, <1>1, <2>2, <3>1, LateSteps DEF RowOK
    <3>4. r \in req[w].promoted => r \in req'[w].promoted
      <4>1. r \in req[w].promoted => PromoteRow(w)
        BY <1>0, <3>1, <3>2, LateSteps DEF WorkerOK, HoldsEvent
      <4> QED
        BY <4>1, PromoteRowKeeps
    <3> QED
      BY <1>0, <1>1, <2>2, <3>3, <3>4 DEF RowOK
  <2> QED
    BY <2>1, <2>2
<1>2. CASE rlock'[r] = w /\ regs'[r] = regs[r] /\ pc'[w] = "commit" /\ regs[r].status = "ABSENT"
  BY <1>2 DEF RowOK
<1>3. CASE regs'[r] = regs[r] /\ dirty'[r].status \in {"CANCELLED", "DELETED"}
  BY <1>3 DEF RowOK
<1>4. CASE /\ rlock'[r] = w /\ regs'[r] = regs[r]
           /\ PromoteRow(w) /\ r \in req[w].todo /\ dirty'[r].status = "CONFIRMED"
  <2>1. r \in req[w].promoted /\ regs[r].status = "WAITLISTED"
    BY <1>0, <1>4 DEF PromoteRow, WorkerOK, ChosenOK
  <2> QED
    BY <1>4, <2>1, PromoteRowKeeps DEF RowOK
<1> QED
  BY <1>1, <1>2, <1>3, <1>4, WrittenRow

\* Only the commit of the request that holds a registration changes it; one that is
\* settled stays so.
LEMMA RegsStep ==
  ASSUME IInv, PInv, NEW w \in Workers, StepOf(w), NEW r \in RegIds
  PROVE  /\ regs'[r] # regs[r] =>
              /\ Commit(w) /\ pc[w] = "commit" /\ rlock[r] = w /\ regs'[r] = dirty[r]
              /\ dirty[r].event = req[w].event /\ elock[req[w].event] = w
              /\ regs[r].status # "ABSENT" => regs[r].event = req[w].event
         /\ regs[r].status \in Settled => regs'[r].status \in Settled
<1>1. CASE regs'[r] = regs[r]
  BY <1>1
<1>2. CASE regs'[r] # regs[r]
  <2>1. Commit(w) /\ pc[w] = "commit" /\ rlock[r] = w /\ regs'[r] = dirty[r]
    BY <1>2, OthersKeep DEF Commit
  <2>2. w # None /\ elock[req[w].event] = w
    BY <2>1, Holding, NoneAssumption DEF HoldsEvent
  <2>3. /\ dirty[r].event = req[w].event /\ dirty[r].status # "ABSENT"
        /\ regs[r].status # "ABSENT" => regs[r].event = req[w].event
    BY <2>1, <2>2 DEF IInv, Structure, RowInv
  <2>4. regs[r].status \in Settled => dirty[r].status # "WAITLISTED"
    BY <2>1, <2>2 DEF PInv, Rowwise, RowOK, Settled
  <2>5. dirty[r].status \in ActiveStatuses \cup {"CANCELLED", "ABSENT", "DELETED"}
    BY DEF IInv, Structure, TypeOK, RegRows
  <2> QED
    BY <2>1, <2>2, <2>3, <2>4, <2>5 DEF Settled, ActiveStatuses
<1> QED
  BY <1>1, <1>2

\* An announcement is made by the request that owes it.
LEMMA MailStep ==
  ASSUME IInv, PInv, NEW w \in Workers, StepOf(w), NEW r \in RegIds
  PROVE  \/ mail'[r] = mail[r]
         \/ /\ pc[w] = "announce" /\ r \in req[w].promoted
            /\ mail'[r] = mail[r] + 1 /\ mail[r] = 0 /\ regs[r].status \in Settled
<1>1. CASE Announce(w)
  <2>1. pc[w] = "announce" /\ mail'[r] = IF r \in req[w].promoted THEN mail[r] + 1 ELSE mail[r]
    BY <1>1 DEF Announce
  <2> QED
    BY <2>1 DEF PInv, Workerwise, WorkerOK
<1> QED
  BY <1>1, MailShape

\* What another request has chosen is out of reach: it holds the event.
LEMMA OthersChosen ==
  ASSUME IInv, PInv, NEW w \in Workers, StepOf(w), NEW v \in Workers \ {w}
  PROVE  WorkerOK(v)'
<1>0. pc'[v] = pc[v] /\ req'[v] = req[v] /\ WorkerOK(v) /\ v # w /\ v # None
  BY OthersStay, NoneAssumption DEF IInv, Structure, PInv, Workerwise
<1>1. ASSUME pc[v] \in {"promoteRow", "commit"}, NEW r \in req[v].promoted
      PROVE  regs'[r] = regs[r] /\ ChosenOK(v, r)'
  <2>1. r \in RegIds /\ ChosenOK(v, r)
    BY <1>0, <1>1 DEF WorkerOK, IInv, Structure, TypeOK, Requests
  <2>2. elock[req[v].event] = v
    BY <1>1, Holding DEF HoldsEvent
  <2>3. regs'[r] = regs[r]
    BY <1>0, <2>1, <2>2, RegsStep DEF ChosenOK
  <2>4. rlock[r] = v => rlock'[r] = v /\ dirty'[r] = dirty[r]
    BY <2>1, OthersHeld
  <2> QED
    BY <1>0, <2>1, <2>3, <2>4 DEF ChosenOK
<1>2. ASSUME pc[v] = "promoteRow", NEW r \in req[v].todo
      PROVE  r \in req[v].promoted /\ Visible(v, r)'.status = "WAITLISTED"
  <2>1. r \in RegIds /\ r \in req[v].promoted /\ Visible(v, r).status = "WAITLISTED"
    BY <1>0, <1>2 DEF WorkerOK, IInv, Structure, TypeOK, Requests
  <2>2. Visible(v, r).event = req[v].event
    BY <1>2 DEF IInv, Structure, RequestInv, RequestOK, OfEvent
  <2>3. req[v].event \in Events /\ elock[req[v].event] = v
    BY <1>2, Holding DEF HoldsEvent
  <2> QED
    BY <2>1, <2>2, <2>3, OthersSee
<1>3. ASSUME pc[v] = "announce", NEW r \in req[v].promoted
      PROVE  mail'[r] = 0 /\ regs'[r].status \in Settled
  <2>1. r \in RegIds /\ mail[r] = 0 /\ regs[r].status \in Settled
    BY <1>0, <1>3 DEF WorkerOK, IInv, Structure, TypeOK, Requests
  <2>2. ~(pc[w] = "announce" /\ r \in req[w].promoted)
    BY <1>0, <1>3 DEF PInv, Apart
  <2> QED
    BY <2>1, <2>2, RegsStep, MailStep
<1> QED
  BY <1>0, <1>1, <1>2, <1>3 DEF WorkerOK

\* A promotion chooses among those whose committed rows wait: a row that waits and is
\* not committed is the new one of a registration, which is about to commit.
LEMMA PromoteChooses ==
  ASSUME IInv, PInv, NEW w \in Workers, Promote(w)
  PROVE  WorkerOK(w)'
<1>1. PICK chosen \in SUBSET Rows(w, req[w].event, "WAITLISTED") :
        /\ req' = [req EXCEPT ![w] = [req[w] EXCEPT !.todo = chosen, !.promoted = chosen]]
        /\ pc' = [pc EXCEPT ![w] = IF chosen = {} THEN "commit" ELSE "promoteRow"]
  BY DEF Promote, Note, Goto, selectForPromotion
<1>2. /\ req'[w].promoted = chosen /\ req'[w].todo = chosen /\ req'[w].event = req[w].event
      /\ pc'[w] = IF chosen = {} THEN "commit" ELSE "promoteRow"
  BY <1>1 DEF IInv, Structure, TypeOK, Requests
<1>3. UNCHANGED rowVars /\ pc[w] = "promote"
  BY DEF Promote
<1>4. ASSUME NEW r \in chosen
      PROVE  /\ regs[r].status = "WAITLISTED" /\ regs[r].event = req[w].event
             /\ Visible(w, r)'.status = "WAITLISTED"
  <2>1. /\ r \in RegIds /\ Visible(w, r).status = "WAITLISTED"
        /\ Visible(w, r).event = req[w].event
    BY <1>1 DEF Rows
  <2>2. rlock[r] # w
    BY <1>3, <2>1, NoneAssumption DEF PInv, Rowwise, RowOK, Visible
  <2> QED
    BY <1>3, <2>1, <2>2 DEF Visible, rowVars
<1>5. CASE chosen = {}
  BY <1>2, <1>5 DEF WorkerOK
<1>6. CASE chosen # {}
  BY <1>2, <1>3, <1>4, <1>6 DEF WorkerOK, ChosenOK, rowVars
<1> QED
  BY <1>5, <1>6

\* The UPDATE of a promoted row takes it from those still to be written.
LEMMA PromoteRowChosen ==
  ASSUME IInv, PInv, NEW w \in Workers, PromoteRow(w)
  PROVE  WorkerOK(w)'
<1>0. pc[w] = "promoteRow" /\ WorkerOK(w) /\ w # None
  BY NoneAssumption DEF PromoteRow, PInv, Workerwise
<1>1. PICK r \in req[w].todo :
        /\ req'[w].todo = req[w].todo \ {r}
        /\ WriteRow(w, r, Seated(Visible(w, r)))
        /\ pc'[w] = IF req[w].todo = {r} THEN "commit" ELSE "promoteRow"
  BY PromoteRowKeeps
<1>2. /\ req'[w].promoted = req[w].promoted /\ req'[w].event = req[w].event /\ regs' = regs
  BY PromoteRowKeeps
<1>3. req[w].todo \subseteq RegIds /\ req[w].promoted \subseteq RegIds
  BY DEF IInv, Structure, TypeOK, Requests
<1>4. rlock'[r] = w /\ dirty'[r].status = "CONFIRMED"
  <2>1. Visible(w, r) \in RegRows
    BY <1>3, VisibleType DEF IInv, Structure
  <2> QED
    BY <1>1, <1>3, <2>1, EditType DEF WriteRow, IInv, Structure, TypeOK
<1>5. \A s \in RegIds \ {r} : rlock'[s] = rlock[s] /\ dirty'[s] = dirty[s]
  BY <1>1, <1>3 DEF WriteRow, IInv, Structure, TypeOK
<1>6. ASSUME NEW s \in req[w].promoted PROVE ChosenOK(w, s)'
  <2>1. ChosenOK(w, s) /\ s \in RegIds
    BY <1>0, <1>3 DEF WorkerOK
  <2>2. CASE s = r
    BY <1>2, <1>4, <2>1, <2>2 DEF ChosenOK
  <2>3. CASE s # r
    BY <1>0, <1>1, <1>2, <1>5, <2>1, <2>3 DEF ChosenOK
  <2> QED
    BY <2>2, <2>3
<1>7. ASSUME NEW s \in req[w].todo \ {r}
      PROVE  s \in req[w].promoted /\ Visible(w, s)'.status = "WAITLISTED"
  BY <1>0, <1>2, <1>3, <1>5 DEF WorkerOK, Visible
<1> QED
  BY <1>1, <1>2, <1>6, <1>7 DEF WorkerOK

\* A commit makes what was chosen true, and nobody chosen has been announced before.
LEMMA CommitChosen ==
  ASSUME IInv, PInv, NEW w \in Workers, Commit(w)
  PROVE  /\ WorkerOK(w)'
         /\ req[w].promoted # {} => pc'[w] = "announce" /\ req'[w] = req[w]
         /\ pc'[w] = "announce" => req'[w] = req[w]
         /\ \A r \in req[w].promoted : regs[r].status = "WAITLISTED"
<1>0. pc[w] = "commit" /\ WorkerOK(w) /\ mail' = mail
  BY DEF Commit, PInv, Workerwise
<1>1. ASSUME NEW r \in req[w].promoted
      PROVE  /\ regs[r].status = "WAITLISTED"
             /\ mail[r] = 0 /\ regs'[r].status \in Settled
  <2>1. r \in RegIds /\ ChosenOK(w, r)
    BY <1>0 DEF WorkerOK, IInv, Structure, TypeOK, Requests
  <2>2. regs[r].status = "WAITLISTED" /\ rlock[r] = w /\ dirty[r].status = "CONFIRMED"
    BY <1>0, <2>1 DEF ChosenOK
  <2>3. regs'[r] = dirty[r]
    BY <2>1, <2>2 DEF Commit, Visible
  <2>4. mail[r] = 0
    BY <2>1, <2>2 DEF PInv, AnnouncedOnceWhenTrue, IInv, Structure, TypeOK
  <2> QED
    BY <2>2, <2>3, <2>4 DEF Settled
<1>2. CASE req[w].promoted = {}
  <2>1. pc'[w] = "idle" /\ req'[w] = NoRequest
    BY <1>2 DEF Commit, Goto, Note, IInv, Structure, TypeOK
  <2> QED
    BY <1>2, <2>1 DEF WorkerOK, NoRequest
<1>3. CASE req[w].promoted # {}
  <2>1. pc'[w] = "announce" /\ req'[w] = req[w]
    BY <1>3 DEF Commit, Goto, IInv, Structure, TypeOK
  <2> QED
    BY <1>0, <1>1, <1>3, <2>1 DEF WorkerOK
<1> QED
  BY <1>1, <1>2, <1>3

\* The request that steps.
LEMMA OwnChosen ==
  ASSUME IInv, PInv, NEW w \in Workers, StepOf(w)
  PROVE  WorkerOK(w)'
<1>0. WorkerOK(w)
  BY DEF PInv, Workerwise
<1>1. CASE Rollback(w) \/ Announce(w)
  <2>1. pc'[w] = "idle" /\ req'[w] = NoRequest
    BY <1>1 DEF Rollback, Announce, Goto, Note, IInv, Structure, TypeOK
  <2> QED
    BY <2>1 DEF WorkerOK, NoRequest
<1>2. CASE pc[w] \notin {"promoteRow", "commit", "announce"} /\ ~Promote(w)
  <2>1. pc'[w] \notin {"promoteRow", "announce"} /\ req'[w].promoted = {}
    BY <1>0, <1>2, EarlySteps DEF WorkerOK
  <2> QED
    BY <2>1 DEF WorkerOK
<1> QED
  BY <1>1, <1>2, LateSteps, PromoteChooses, PromoteRowChosen, CommitChosen

\* Nobody is chosen by two requests: who is chosen waits, and who has been, does not.
LEMMA ApartStep ==
  ASSUME IInv, PInv, NEW w \in Workers, StepOf(w)
  PROVE  Apart'
<1>1. \A v \in Workers \ {w} : pc'[v] = pc[v] /\ req'[v] = req[v]
  BY OthersStay DEF IInv, Structure
<1>2. ASSUME pc'[w] = "announce"
      PROVE  Commit(w) /\ req'[w] = req[w]
  <2>1. ~Rollback(w) /\ ~Announce(w)
    BY <1>2 DEF Rollback, Announce, Goto, IInv, Structure, TypeOK
  <2>2. ~PromoteRow(w) /\ ~Promote(w)
    BY <1>2 DEF PromoteRow, Promote, Goto, IInv, Structure, TypeOK
  <2>3. pc[w] \in {"promoteRow", "commit", "announce"}
    BY <1>2, <2>2, EarlySteps DEF PInv, Workerwise, WorkerOK
  <2> QED
    BY <1>2, <2>1, <2>2, <2>3, LateSteps, CommitChosen
<1>3. ASSUME pc'[w] = "announce", NEW v \in Workers \ {w}, pc[v] = "announce"
      PROVE  req[w].promoted \cap req[v].promoted = {}
  <2>1. \A r \in req[w].promoted : regs[r].status = "WAITLISTED"
    BY <1>2, <1>3, CommitChosen
  <2>2. \A r \in req[v].promoted : regs[r].status \in Settled
    BY <1>3 DEF PInv, Workerwise, WorkerOK
  <2> QED
    BY <2>1, <2>2 DEF Settled
<1> QED
  BY <1>1, <1>2, <1>3 DEF PInv, Apart

\* What is announced stays true.
LEMMA MailTrue ==
  ASSUME IInv, PInv, NEW w \in Workers, StepOf(w)
  PROVE  AnnouncedOnceWhenTrue'
<1> SUFFICES ASSUME NEW r \in RegIds
             PROVE  mail'[r] <= 1 /\ (mail'[r] = 1 => regs'[r].status \in Settled)
  BY DEF AnnouncedOnceWhenTrue, Settled
<1>1. mail[r] <= 1 /\ (mail[r] = 1 => regs[r].status \in Settled)
  BY DEF PInv, AnnouncedOnceWhenTrue, Settled
<1> QED
  BY <1>1, RegsStep, MailStep

\* PInv is inductive on the states of IInv.
LEMMA PromotionNext == IInv /\ PInv /\ [Next]_vars => PInv'
<1> SUFFICES ASSUME IInv, PInv, [Next]_vars PROVE PInv'
  OBVIOUS
<1>1. ASSUME NEW w \in Workers, StepOf(w) PROVE PInv'
  <2>1. Workerwise'
    BY <1>1, OthersChosen, OwnChosen DEF Workerwise
  <2> QED
    BY <1>1, <2>1, RowStep, ApartStep, MailTrue DEF PInv
<1>2. ASSUME UNCHANGED <<edirty, elock, regs, dirty, rlock, pc, req, mail>> PROVE PInv'
  BY <1>2 DEF PInv, Rowwise, RowOK, Workerwise, WorkerOK, ChosenOK, Visible, Apart,
              AnnouncedOnceWhenTrue
<1> QED
  BY <1>1, <1>2, NextCases DEF Create, Tick, vars, rowVars

\* The two invariants.
LEMMA PromotionInvariance == Spec => [](IInv /\ PInv)
  BY InitInv, NextInv, PromotionInit, PromotionNext, PTL DEF Spec

-----------------------------------------------------------------------------

\* A cancelled registration is never revived, by a promotion that chose it before it
\* was cancelled or by anything else.
THEOREM NobodyRevived == Spec => NoRevival
<1> DEFINE Unrevived == \A r \in RegIds : ~Becomes(r, {"CANCELLED"}, ActiveStatuses)
<1>1. ASSUME IInv, PInv, [Next]_vars PROVE Unrevived
  <2> SUFFICES ASSUME NEW r \in RegIds, regs[r].status = "CANCELLED",
                      regs'[r].status \in ActiveStatuses
               PROVE  FALSE
    BY DEF Becomes
  <2>1. regs' # regs
    BY DEF ActiveStatuses
  <2>2. PICK w \in Workers : Commit(w)
    BY <1>1, <2>1, OnlyCommitWrites
  <2>3. rlock[r] = w /\ regs'[r] = dirty[r]
    BY <2>2 DEF Commit, Visible, ActiveStatuses
  <2> QED
    BY <1>1, <2>3, NoneAssumption DEF PInv, Rowwise, RowOK, ActiveStatuses
<1> QED
  BY <1>1, PromotionInvariance, PTL DEF Spec, NoRevival

\* Every promotion that is committed leaves a request that has yet to announce it.
THEOREM PromotionsOwed == Spec => PromotionOwed
<1> DEFINE Owed == \A r \in RegIds : Becomes(r, {"WAITLISTED"}, {"CONFIRMED"}) =>
                     \E w \in Workers : pc'[w] = "announce" /\ r \in req'[w].promoted
<1>1. ASSUME IInv, PInv, [Next]_vars PROVE Owed
  <2> SUFFICES ASSUME NEW r \in RegIds, regs[r].status = "WAITLISTED",
                      regs'[r].status = "CONFIRMED"
               PROVE  \E w \in Workers : pc'[w] = "announce" /\ r \in req'[w].promoted
    BY DEF Becomes
  <2>1. PICK w \in Workers : Commit(w)
    BY <1>1, OnlyCommitWrites
  <2>2. rlock[r] = w /\ dirty[r].status = "CONFIRMED"
    BY <2>1 DEF Commit, Visible
  <2>3. r \in req[w].promoted
    BY <1>1, <2>2, NoneAssumption DEF PInv, Rowwise, RowOK
  <2> QED
    BY <1>1, <2>1, <2>3, CommitChosen
<1> QED
  BY <1>1, PromotionInvariance, PTL DEF Spec, PromotionOwed

\* The announcement of a promotion is made once, and only of a promotion that is in the
\* database.
THEOREM AnnouncementsTrue == Spec => []AnnouncedOnceWhenTrue
<1>1. PInv => AnnouncedOnceWhenTrue
  BY DEF PInv
<1> QED
  BY <1>1, PromotionInvariance, PTL

-----------------------------------------------------------------------------
(* The order of the queue.                                                 *)

Positions == [q \in RegIds |-> regs[q].position]

\* Whoever waits, will still wait after the commit of w and was not chosen by w is
\* behind everybody w has chosen.
OrderOK(w) ==
  pc[w] \in {"promoteRow", "commit"} =>
    \A a \in req[w].promoted, s \in RegIds \ req[w].promoted :
      /\ regs[s].status = "WAITLISTED" /\ regs[s].event = req[w].event
      /\ Visible(w, s).status = "WAITLISTED"
      => Before(Positions, a, s)

Orderly == \A w \in Workers : OrderOK(w)

\* Two rows compare by their own tickets.
LEMMA BeforeLocal ==
  ASSUME NEW t, NEW u, NEW a, NEW b, t[a] = u[a], t[b] = u[b]
  PROVE  Before(t, a, b) <=> Before(u, a, b)
  BY DEF Before

\* Initially nobody promotes.
LEMMA OrderInit == Init => Orderly
  BY DEF Init, Orderly, OrderOK

\* The order a request has chosen by does not change under it.
LEMMA OrderOthers ==
  ASSUME IInv, PInv, Orderly, NEW w \in Workers, StepOf(w), NEW v \in Workers \ {w}
  PROVE  OrderOK(v)'
<1> SUFFICES ASSUME pc'[v] \in {"promoteRow", "commit"},
                    NEW a \in req'[v].promoted, NEW s \in RegIds \ req'[v].promoted,
                    regs'[s].status = "WAITLISTED", regs'[s].event = req'[v].event,
                    Visible(v, s)'.status = "WAITLISTED"
             PROVE  Before(Positions', a, s)
  BY DEF OrderOK
<1>1. pc'[v] = pc[v] /\ req'[v] = req[v] /\ v # w /\ v # None
  BY OthersStay, NoneAssumption DEF IInv, Structure
<1>2. elock[req[v].event] = v
  BY <1>1, Holding DEF HoldsEvent
<1>3. a \in RegIds /\ ChosenOK(v, a)
  BY <1>1 DEF PInv, Workerwise, WorkerOK, IInv, Structure, TypeOK, Requests
<1>4. regs'[a] = regs[a]
  BY <1>1, <1>2, <1>3, RegsStep DEF ChosenOK
<1>5. regs'[s] = regs[s]
  BY <1>1, <1>2, RegsStep
<1>6. Visible(v, s).status = "WAITLISTED"
  <2>1. CASE rlock[s] = v
    BY <2>1, OthersHeld DEF Visible
  <2>2. CASE rlock[s] # v
    BY <1>5, <2>2 DEF Visible
  <2> QED
    BY <2>1, <2>2
<1>7. Before(Positions, a, s)
  BY <1>1, <1>5, <1>6 DEF Orderly, OrderOK
<1>8. Positions'[a] = Positions[a] /\ Positions'[s] = Positions[s]
  BY <1>3, <1>4, <1>5 DEF Positions
<1> QED
  BY <1>7, <1>8, BeforeLocal

\* A promotion chooses the front of the queue.
LEMMA OrderChosen ==
  ASSUME IInv, PInv, NEW w \in Workers, Promote(w)
  PROVE  OrderOK(w)'
<1> DEFINE queue == Rows(w, req[w].event, "WAITLISTED")
<1>1. PICK chosen \in SUBSET queue :
        /\ \A a \in chosen, b \in queue \ chosen : Before(Ticket(w), a, b)
        /\ req' = [req EXCEPT ![w] = [req[w] EXCEPT !.todo = chosen, !.promoted = chosen]]
  BY DEF Promote, Note, selectForPromotion
<1>2. req'[w].promoted = chosen /\ req'[w].event = req[w].event
  BY <1>1 DEF IInv, Structure, TypeOK, Requests
<1>3. UNCHANGED rowVars /\ pc[w] = "promote"
  BY DEF Promote
<1> SUFFICES ASSUME NEW a \in chosen, NEW s \in RegIds \ chosen,
                    regs[s].status = "WAITLISTED", regs[s].event = req[w].event,
                    Visible(w, s)'.status = "WAITLISTED"
             PROVE  Before(Positions', a, s)
  BY <1>2, <1>3 DEF OrderOK, rowVars
<1>4. a \in RegIds /\ Visible(w, a).status = "WAITLISTED"
  BY <1>1 DEF Rows
<1>5. Visible(w, s).status = "WAITLISTED"
  BY <1>3 DEF Visible, rowVars
<1>6. Visible(w, a) = regs[a] /\ Visible(w, s) = regs[s]
  BY <1>3, <1>4, <1>5, NoneAssumption DEF PInv, Rowwise, RowOK, Visible
<1>7. s \in queue \ chosen
  BY <1>5, <1>6 DEF Rows
<1>8. Ticket(w)[a] = Positions'[a] /\ Ticket(w)[s] = Positions'[s]
  BY <1>3, <1>4, <1>6 DEF Ticket, Positions, rowVars
<1> QED
  BY <1>1, <1>7, <1>8, BeforeLocal

\* The request that steps keeps to its choice.
LEMMA OrderOwn ==
  ASSUME IInv, PInv, Orderly, NEW w \in Workers, StepOf(w)
  PROVE  OrderOK(w)'
<1>0. WorkerOK(w) /\ OrderOK(w)
  BY DEF PInv, Workerwise, Orderly
<1>1. CASE Rollback(w) \/ Announce(w) \/ Commit(w)
  <2>1. pc'[w] \in {"idle", "announce"}
    BY <1>1 DEF Rollback, Announce, Commit, Goto, IInv, Structure, TypeOK
  <2> QED
    BY <2>1 DEF OrderOK
<1>2. CASE pc[w] \notin {"promoteRow", "commit", "announce"} /\ ~Promote(w)
  <2>1. req'[w].promoted = {}
    BY <1>0, <1>2, EarlySteps DEF WorkerOK
  <2> QED
    BY <2>1 DEF OrderOK
<1>3. CASE PromoteRow(w)
  <2>1. PICK r \in req[w].todo : WriteRow(w, r, Seated(Visible(w, r)))
    BY <1>3, PromoteRowKeeps
  <2>2. /\ req'[w].promoted = req[w].promoted /\ req'[w].event = req[w].event
        /\ regs' = regs /\ pc[w] = "promoteRow"
    BY <1>3, PromoteRowKeeps DEF PromoteRow
  <2>3. r \in RegIds /\ r \in req[w].promoted
    BY <1>0, <2>2 DEF WorkerOK, IInv, Structure, TypeOK, Requests
  <2>4. \A s \in RegIds \ req[w].promoted : Visible(w, s)' = Visible(w, s)
    BY <2>1, <2>2, <2>3 DEF WriteRow, Visible, IInv, Structure, TypeOK
  <2> QED
    BY <1>0, <2>2, <2>4 DEF OrderOK, Positions
<1> QED
  BY <1>1, <1>2, <1>3, LateSteps, OrderChosen

\* Orderly is inductive on the states of IInv and PInv.
LEMMA OrderNext == IInv /\ PInv /\ Orderly /\ [Next]_vars => Orderly'
<1> SUFFICES ASSUME IInv, PInv, Orderly, [Next]_vars PROVE Orderly'
  OBVIOUS
<1>1. ASSUME NEW w \in Workers, StepOf(w) PROVE Orderly'
  BY <1>1, OrderOthers, OrderOwn DEF Orderly
<1>2. ASSUME UNCHANGED <<regs, dirty, rlock, pc, req>> PROVE Orderly'
  BY <1>2 DEF Orderly, OrderOK, Positions, Visible
<1> QED
  BY <1>1, <1>2, NextCases DEF Create, Tick, vars, rowVars

\* A promotion takes the front of the queue: whoever held a lower ticket has left the
\* queue by the time the promotion is visible.
THEOREM FrontOfQueue == Spec => ServedInOrder
<1> DEFINE InOrder == \A r, s \in RegIds :
             /\ Becomes(r, {"WAITLISTED"}, {"CONFIRMED"})
             /\ Becomes(s, {"WAITLISTED"}, {"WAITLISTED"})
             /\ regs[r].event = regs[s].event
             => Before([q \in RegIds |-> regs[q].position], r, s)
<1>1. ASSUME IInv, PInv, Orderly, [Next]_vars PROVE InOrder
  <2> SUFFICES ASSUME NEW r \in RegIds, NEW s \in RegIds,
                      regs[r].status = "WAITLISTED", regs'[r].status = "CONFIRMED",
                      regs[s].status = "WAITLISTED", regs'[s].status = "WAITLISTED",
                      regs[r].event = regs[s].event
               PROVE  Before(Positions, r, s)
    BY DEF Becomes, Positions
  <2>1. PICK w \in Workers : Commit(w)
    BY <1>1, OnlyCommitWrites
  <2>2. pc[w] = "commit" /\ regs'[r] = Visible(w, r) /\ regs'[s] = Visible(w, s)
    BY <2>1 DEF Commit
  <2>3. rlock[r] = w /\ dirty[r].status = "CONFIRMED"
    BY <2>2 DEF Visible
  <2>4. r \in req[w].promoted
    BY <1>1, <2>3, NoneAssumption DEF PInv, Rowwise, RowOK
  <2>5. s \notin req[w].promoted
    BY <1>1, <2>2 DEF PInv, Workerwise, WorkerOK, ChosenOK, Visible
  <2>6. regs[r].event = req[w].event
    BY <1>1, <2>2, <2>4 DEF PInv, Workerwise, WorkerOK, ChosenOK
  <2> QED
    BY <1>1, <2>2, <2>4, <2>5, <2>6 DEF Orderly, OrderOK
<1> QED
  BY <1>1, PromotionInvariance, OrderInit, OrderNext, PTL DEF Spec, ServedInOrder

-----------------------------------------------------------------------------
(* Tickets.                                                                *)

\* What a request that holds the event sees of its queue.
InLine(w, e) == Rows(w, e, "WAITLISTED")

SeesDistinct(w, e) ==
  \A r, s \in InLine(w, e) :
    /\ Visible(w, r).position # Null
    /\ Visible(w, r).position = Visible(w, s).position => r = s

\* The ticket a request is about to insert is higher than any other.
NewTicket(w) ==
  pc[w] = "insert" /\ req[w].status = "WAITLISTED" =>
    /\ req[w].position \in Nat
    /\ \A r \in InLine(w, req[w].event) : Visible(w, r).position < req[w].position

TicketInv ==
  /\ DistinctTickets
  /\ \A e \in Events : elock[e] # None => SeesDistinct(elock[e], e)
  /\ \A w \in Workers : NewTicket(w)

\* Initially nobody waits.
LEMMA TicketInit == Init => TicketInv
  BY DEF Init, TicketInv, DistinctTickets, Committed, NewTicket, AbsentReg

\* What another request sees of its queue stays as it is.
LEMMA OthersRows ==
  ASSUME IInv, NEW w \in Workers, StepOf(w), NEW v \in Workers \ {w},
         NEW e \in Events, elock[e] = v, NEW status, status # "ABSENT"
  PROVE  /\ Rows(v, e, status)' = Rows(v, e, status)
         /\ \A r \in Rows(v, e, status) : Visible(v, r)' = Visible(v, r)
<1>1. ASSUME NEW r \in Rows(v, e, status)
      PROVE  Visible(v, r)' = Visible(v, r)
  BY <1>1, OthersSee DEF Rows
<1>2. ASSUME NEW r \in RegIds, Visible(v, r)'.event = e
      PROVE  Visible(v, r)' = Visible(v, r)
  BY <1>2, OthersSee
<1> QED
  BY <1>1, <1>2 DEF Rows

\* A request that locks its event finds the queue as it is committed.
LEMMA LineWhenLocked ==
  ASSUME IInv, NEW w \in Workers, pc[w] \notin HoldsEvent, NEW e, NEW r \in InLine(w, e)
  PROVE  r \in Committed(e, "WAITLISTED") /\ Visible(w, r) = regs[r]
<1>1. r \in RegIds /\ Visible(w, r).status = "WAITLISTED" /\ Visible(w, r).event = e
  BY DEF InLine, Rows
<1>2. rlock[r] # w
  BY <1>1, NoneAssumption DEF Visible, IInv, Structure, RowInv
<1> QED
  BY <1>1, <1>2 DEF Visible, Committed

\* No write but the insert of a registration adds to the queue.
LEMMA LineAfterWrite ==
  ASSUME IInv, NEW w \in Workers, StepOf(w), Writes(w), ~RegisterInsert(w), NEW e
  PROVE  \A r \in InLine(w, e)' : r \in InLine(w, e) /\ Visible(w, r)' = Visible(w, r)
<1> SUFFICES ASSUME NEW r \in RegIds, Visible(w, r)'.status = "WAITLISTED"
             PROVE  Visible(w, r)' = Visible(w, r)
  BY DEF InLine, Rows
<1>1. PICK s \in RegIds : \E row : WriteRow(w, s, row)
  BY DEF Writes
<1>2. regs' = regs
  BY DEF Writes
<1>3. CASE s # r
  BY <1>1, <1>2, <1>3 DEF WriteRow, Visible, IInv, Structure, TypeOK
<1>4. CASE s = r
  <2>1. rlock'[r] = w
    BY <1>1, <1>4 DEF WriteRow, IInv, Structure, TypeOK
  <2>2. dirty'[r].status = "WAITLISTED"
    BY <2>1 DEF Visible
  <2>3. rlock'[r] = rlock[r] /\ dirty'[r] = dirty[r] /\ regs'[r] = regs[r]
    BY <2>1, <2>2, WrittenRow, NoneAssumption
  <2> QED
    BY <2>3 DEF Visible
<1> QED
  BY <1>3, <1>4

\* The row a registration inserts, and nothing else, is new.
LEMMA LineAfterInsert ==
  ASSUME IInv, NEW w \in Workers, RegisterInsert(w), NEW e
  PROVE  \E r \in RegIds :
           /\ Visible(w, r)' = [status |-> req[w].status, event |-> req[w].event,
                                attendee |-> req[w].attendee, position |-> req[w].position]
           /\ \A s \in RegIds \ {r} : Visible(w, s)' = Visible(w, s)
<1> DEFINE row == [status |-> req[w].status, event |-> req[w].event,
                   attendee |-> req[w].attendee, position |-> req[w].position]
<1>1. PICK r \in RegIds : WriteRow(w, r, row)
  BY DEF RegisterInsert, Fresh
<1>2. regs' = regs
  BY DEF RegisterInsert
<1> HIDE DEF row
<1>3. Visible(w, r)' = row
  BY <1>1 DEF WriteRow, Visible, IInv, Structure, TypeOK
<1>4. \A s \in RegIds \ {r} : Visible(w, s)' = Visible(w, s)
  BY <1>1, <1>2 DEF WriteRow, Visible, IInv, Structure, TypeOK
<1> QED
  BY <1>3, <1>4 DEF row

\* The queue of another request's event keeps its tickets distinct.
LEMMA SeesDistinctOthers ==
  ASSUME IInv, TicketInv, NEW w \in Workers, StepOf(w), NEW v \in Workers \ {w},
         NEW e \in Events, elock[e] = v
  PROVE  SeesDistinct(v, e)'
<1>1. SeesDistinct(v, e)
  BY NoneAssumption DEF TicketInv
<1>2. /\ InLine(v, e)' = InLine(v, e)
      /\ \A r \in InLine(v, e) : Visible(v, r)' = Visible(v, r)
  BY OthersRows DEF InLine
<1> QED
  BY <1>1, <1>2 DEF SeesDistinct

\* So does the queue of the event of the request that steps.
LEMMA SeesDistinctOwn ==
  ASSUME IInv, TicketInv, NEW w \in Workers, StepOf(w), NEW e \in Events, elock'[e] = w
  PROVE  SeesDistinct(w, e)'
<1>0. w # None
  BY NoneAssumption
<1>1. CASE Reads(w) \/ Publish(w) \/ UpdateWrite(w)
  <2>1. UNCHANGED <<regs, dirty, rlock>>
    BY <1>1 DEF Reads, Publish, UpdateWrite, rowVars
  <2>2. elock[e] = w
    <3>1. CASE Reads(w) \/ Publish(w)
      BY <3>1 DEF Reads, Publish, rowVars
    <3>2. CASE UpdateWrite(w)
      BY <3>2, Holding DEF UpdateWrite, HoldsEvent, TakeEvent, IInv, Structure, TypeOK
    <3> QED
      BY <1>1, <3>1, <3>2
  <2>3. SeesDistinct(w, e)
    BY <1>0, <2>2 DEF TicketInv
  <2> QED
    BY <2>1, <2>3 DEF SeesDistinct, InLine, Rows, Visible
<1>2. CASE LockEvent(w) \/ CancelEvent(w) \/ DeleteEvent(w)
  <2>1. pc[w] \notin HoldsEvent /\ UNCHANGED <<regs, dirty, rlock>>
    BY <1>2 DEF LockEvent, CancelEvent, DeleteEvent, HoldsEvent
  <2>2. InLine(w, e)' = InLine(w, e) /\ \A r \in RegIds : Visible(w, r)' = Visible(w, r)
    BY <2>1 DEF InLine, Rows, Visible
  <2>3. \A r \in InLine(w, e) : r \in Committed(e, "WAITLISTED") /\ Visible(w, r) = regs[r]
    BY <2>1, LineWhenLocked
  <2>4. InLine(w, e) \subseteq RegIds
    BY DEF InLine, Rows
  <2> QED
    BY <2>2, <2>3, <2>4 DEF SeesDistinct, TicketInv, DistinctTickets
<1>3. CASE Writes(w) /\ ~RegisterInsert(w)
  <2>1. SeesDistinct(w, e)
    BY <1>0, <1>3 DEF Writes, TicketInv
  <2> QED
    BY <1>3, <2>1, LineAfterWrite DEF SeesDistinct
<1>4. CASE RegisterInsert(w)
  <2>1. pc[w] = "insert" /\ elock[e] = w
    BY <1>4 DEF RegisterInsert
  <2>2. SeesDistinct(w, e) /\ NewTicket(w)
    BY <1>0, <2>1 DEF TicketInv
  <2>3. req[w].event = e
    BY <1>0, <2>1 DEF IInv, Structure, LockInv
  <2>4. PICK r \in RegIds :
          /\ Visible(w, r)' = [status |-> req[w].status, event |-> req[w].event,
                               attendee |-> req[w].attendee, position |-> req[w].position]
          /\ \A s \in RegIds \ {r} : Visible(w, s)' = Visible(w, s)
    BY <1>4, LineAfterInsert
  <2>5. \A s \in InLine(w, e)' :
          s # r => s \in InLine(w, e) /\ Visible(w, s)' = Visible(w, s)
    BY <2>4 DEF InLine, Rows
  <2>6. \A s \in RegIds : Visible(w, s).position \in Int
    BY VisibleType DEF IInv, Structure, RegRows, Null
  <2>7. InLine(w, e) \subseteq RegIds
    BY DEF InLine, Rows
  <2>8. CASE r \in InLine(w, e)'
    <3>1. req[w].status = "WAITLISTED"
      BY <2>4, <2>8 DEF InLine, Rows
    <3>2. /\ Visible(w, r)'.position = req[w].position /\ req[w].position \in Nat
          /\ \A s \in InLine(w, e) : Visible(w, s).position < req[w].position
      BY <2>1, <2>2, <2>3, <2>4, <3>1 DEF NewTicket
    <3> QED
      BY <2>2, <2>5, <2>6, <2>7, <3>2 DEF SeesDistinct, Null
  <2>9. CASE r \notin InLine(w, e)'
    BY <2>2, <2>5, <2>9 DEF SeesDistinct
  <2> QED
    BY <2>8, <2>9
<1>5. ~Ends(w) /\ ~Commit(w)
  BY <1>0 DEF Ends, Commit, Release
<1> QED
  BY <1>1, <1>2, <1>3, <1>4, <1>5, TakesAre

\* A request inserts once it has decided, and drawn a ticket if there is no seat.
LEMMA InsertFollows ==
  ASSUME IInv, NEW w \in Workers, StepOf(w), pc'[w] = "insert"
  PROVE  RegisterDecide(w) \/ RegisterPosition(w)
<1> USE DEF Goto, IInv, Structure, TypeOK
<1>1. CASE Start(w)
  BY <1>1 DEF Start, StartRegister, StartCancelRegistration, StartUpdate, StartPublish,
              StartCancelEvent, StartRemove, Begin
<1>2. CASE LockEvent(w)
  BY <1>2 DEF LockEvent, AfterLock, RequestInv, RequestOK
<1>3. CASE Locking(w) /\ ~LockEvent(w)
  BY <1>3 DEF Locking, EventGone, RegisterInsert, RegisterDuplicate, CancelRow, PromoteRow,
              Publish, SweepRow, SkipRow, CancelEvent, DeleteEvent, CascadeRow, Rollback
<1>4. CASE Local(w)
  BY <1>4 DEF Local, RegisterRefused, Reread, AlreadyCancelled, Promote, UpdateCheck,
              UpdateRefused, UpdateRejected, UpdateWrite, Snapshot, CascadeDone, Commit,
              Announce, Rollback
<1>5. CASE Fail(w)
  BY <1>5 DEF Fail, Rollback
<1> QED
  BY <1>1, <1>2, <1>3, <1>4, <1>5 DEF StepOf

\* The ticket a request draws is higher than every ticket it sees.
LEMMA NewTicketOwn ==
  ASSUME IInv, TicketInv, NEW w \in Workers, StepOf(w)
  PROVE  NewTicket(w)'
<1> SUFFICES ASSUME pc'[w] = "insert", req'[w].status = "WAITLISTED"
             PROVE  /\ req'[w].position \in Nat
                    /\ \A r \in InLine(w, req[w].event)' :
                         Visible(w, r)'.position < req'[w].position
  BY DEF NewTicket
<1>0. req[w] \in Requests
  BY DEF IInv, Structure, TypeOK
<1>1. ~RegisterDecide(w)
  <2> SUFFICES ASSUME RegisterDecide(w) PROVE FALSE
    OBVIOUS
  <2>1. /\ pc' = [pc EXCEPT ![w] = IF Decision(w) = "WAITLISTED" THEN "position" ELSE "insert"]
        /\ req' = [req EXCEPT ![w] = [req[w] EXCEPT !.status = Decision(w)]]
    BY DEF RegisterDecide, Goto, Note
  <2>2. req'[w].status = Decision(w)
    BY <1>0, <2>1 DEF Requests, IInv, Structure, TypeOK
  <2> QED
    BY <2>1, <2>2 DEF IInv, Structure, TypeOK
<1>2. RegisterPosition(w)
  BY <1>1, InsertFollows
<1> DEFINE e == req[w].event
           tickets == {Ticket(w)[r] : r \in InLine(w, e)} \ {Null}
<1>3. PICK next \in nextWaitlistPosition(tickets) :
        req' = [req EXCEPT ![w] = [req[w] EXCEPT !.position = next]]
  BY <1>2 DEF RegisterPosition, WaitingTickets, InLine, Note
<1>4. req'[w].position = next /\ req'[w].event = e
  BY <1>0, <1>3 DEF Requests, IInv, Structure, TypeOK
<1>5. UNCHANGED <<regs, dirty, rlock>>
  BY <1>2 DEF RegisterPosition, rowVars
<1>6. InLine(w, e)' = InLine(w, e) /\ \A r \in RegIds : Visible(w, r)' = Visible(w, r)
  BY <1>4, <1>5 DEF InLine, Rows, Visible
<1>7. \A r \in InLine(w, e) : r \in RegIds /\ Visible(w, r).position \in Nat \cup {Null}
  BY VisibleType DEF IInv, Structure, RegRows, InLine, Rows
<1>8. tickets \subseteq Nat
  BY <1>7 DEF Ticket
<1>9. next \in Nat /\ next > 0 /\ \A t \in tickets : t < next
  BY <1>8 DEF nextWaitlistPosition
<1>10. ASSUME NEW r \in InLine(w, e) PROVE Visible(w, r).position < next
  <2>1. CASE Visible(w, r).position = Null
    BY <1>9, <2>1 DEF Null
  <2>2. CASE Visible(w, r).position # Null
    BY <1>7, <1>9, <2>2 DEF Ticket
  <2> QED
    BY <2>1, <2>2
<1> QED
  BY <1>4, <1>6, <1>7, <1>9, <1>10

\* The ticket another request has drawn stays the highest: it holds the event.
LEMMA NewTicketOthers ==
  ASSUME IInv, TicketInv, NEW w \in Workers, StepOf(w), NEW v \in Workers \ {w}
  PROVE  NewTicket(v)'
<1>1. pc'[v] = pc[v] /\ req'[v] = req[v] /\ NewTicket(v)
  BY OthersStay DEF IInv, Structure, TicketInv
<1>2. CASE pc[v] = "insert"
  <2>1. req[v].event \in Events /\ elock[req[v].event] = v
    BY <1>2, Holding DEF HoldsEvent
  <2>2. PICK e \in Events : e = req[v].event
    BY <2>1
  <2>3. /\ InLine(v, e)' = InLine(v, e)
        /\ \A r \in InLine(v, e) : Visible(v, r)' = Visible(v, r)
    BY <2>1, <2>2, OthersRows DEF InLine
  <2> QED
    BY <1>1, <2>2, <2>3 DEF NewTicket
<1> QED
  BY <1>1, <1>2 DEF NewTicket

\* What is committed is what the holder of the event has seen.
LEMMA DistinctStep ==
  ASSUME IInv, PInv, TicketInv, NEW w \in Workers, StepOf(w)
  PROVE  DistinctTickets'
<1> SUFFICES ASSUME NEW e \in Events, NEW r \in Committed(e, "WAITLISTED")',
                    NEW s \in Committed(e, "WAITLISTED")'
             PROVE  /\ regs'[r].position # Null
                    /\ regs'[r].position = regs'[s].position => r = s
  BY DEF DistinctTickets
<1>0. /\ r \in RegIds /\ regs'[r].event = e /\ regs'[r].status = "WAITLISTED"
      /\ s \in RegIds /\ regs'[s].event = e /\ regs'[s].status = "WAITLISTED"
  BY DEF Committed
<1>1. CASE Commit(w) /\ e = req[w].event
  <2>1. elock[e] = w /\ w # None
    BY <1>1, Holding, NoneAssumption DEF Commit, HoldsEvent
  <2>2. regs'[r] = Visible(w, r) /\ regs'[s] = Visible(w, s)
    BY <1>0, <1>1 DEF Commit
  <2> QED
    BY <1>0, <2>1, <2>2 DEF TicketInv, SeesDistinct, InLine, Rows
<1>2. CASE ~(Commit(w) /\ e = req[w].event)
  <2>1. regs'[r] = regs[r] /\ regs'[s] = regs[s]
    BY <1>0, <1>2, RegsStep
  <2> QED
    BY <1>0, <2>1 DEF TicketInv, DistinctTickets, Committed
<1> QED
  BY <1>1, <1>2

\* TicketInv is inductive on the states of IInv and PInv.
LEMMA TicketNext == IInv /\ PInv /\ TicketInv /\ [Next]_vars => TicketInv'
<1> SUFFICES ASSUME IInv, PInv, TicketInv, [Next]_vars PROVE TicketInv'
  OBVIOUS
<1>1. ASSUME NEW w \in Workers, StepOf(w) PROVE TicketInv'
  <2>1. ASSUME NEW e \in Events, NEW v \in Workers, elock'[e] = v PROVE SeesDistinct(v, e)'
    <3>1. CASE v = w
      BY <1>1, <2>1, <3>1, SeesDistinctOwn
    <3>2. CASE v # w
      <4>1. elock[e] = v
        BY <1>1, <2>1, <3>2, OthersKeep, NoneAssumption DEF IInv, Structure, TypeOK
      <4> QED
        BY <1>1, <3>2, <4>1, SeesDistinctOthers
    <3> QED
      BY <3>1, <3>2
  <2>2. \A e \in Events : elock'[e] \in Workers \cup {None}
    BY NextInv DEF IInv, Structure, TypeOK
  <2>3. \A v \in Workers : NewTicket(v)'
    BY <1>1, NewTicketOwn, NewTicketOthers
  <2> QED
    BY <1>1, <2>1, <2>2, <2>3, DistinctStep DEF TicketInv
<1>2. ASSUME UNCHANGED <<elock, regs, dirty, rlock, pc, req>> PROVE TicketInv'
  BY <1>2 DEF TicketInv, DistinctTickets, Committed, SeesDistinct, NewTicket, InLine, Rows,
              Visible
<1> QED
  BY <1>1, <1>2, NextCases DEF Create, Tick, vars, rowVars

\* Everybody who waits holds a ticket, and no two people hold the same place in the
\* queue of an event.
THEOREM TicketsDistinct == Spec => []DistinctTickets
<1>1. TicketInv => DistinctTickets
  BY DEF TicketInv
<1> QED
  BY <1>1, PromotionInvariance, TicketInit, TicketNext, PTL DEF Spec

-----------------------------------------------------------------------------
(* Seats kept free while somebody waits.                                   *)

\* The seats of the event, as the transaction that holds it sees and leaves it.
Full(w, e)   == Seats(w, e) >= edirty[e].capacity
Served(w, e) == InLine(w, e) = {} \/ Full(w, e)

\* Nobody waits beside a free seat, save between the statement that frees one and the
\* last row of the promotion that follows it.
FillOK(w, e) ==
  /\ pc[w] \notin {"promote", "promoteRow", "cascade"} => Served(w, e)
  /\ pc[w] = "position" => Full(w, e)
  /\ pc[w] = "insert" /\ req[w].status = "WAITLISTED" => Full(w, e)
  /\ pc[w] = "cancelRow" => req[w].status = Visible(w, req[w].reg).status
  /\ pc[w] = "promoteRow" =>
       \/ InLine(w, e) = req[w].todo
       \/ Seats(w, e) + Cardinality(req[w].todo) >= edirty[e].capacity
  /\ pc[w] = "cascade" => edirty[e].status = "DELETED"

FillInv == QueueServed /\ \A e \in Events : elock[e] # None => FillOK(elock[e], e)

\* Initially nobody waits.
LEMMA FillInit == Init => FillInv
  BY DEF Init, FillInv, QueueServed, Committed, AbsentReg

\* The rows a transaction sees once it has written one.
LEMMA RowsAfterWrite ==
  ASSUME TypeOK, NEW w \in Workers, NEW r \in RegIds, NEW row \in RegRows,
         WriteRow(w, r, row), UNCHANGED regs, NEW e, NEW status
  PROVE  Rows(w, e, status)' =
           (Rows(w, e, status) \ {r})
             \cup {s \in {r} : row.event = e /\ row.status = status}
<1>1. Visible(w, r)' = row /\ \A s \in RegIds \ {r} : Visible(w, s)' = Visible(w, s)
  BY AfterWrite
<1> QED
  BY <1>1 DEF Rows

\* A statement after which the request holds an event, while none is called off.
LEMMA HolderSteps ==
  ASSUME IInv, NoSweep, NEW w \in Workers, StepOf(w), NEW e \in Events, elock'[e] = w
  PROVE  /\ e = req[w].event
         /\ \/ LockEvent(w) \/ DeleteEvent(w)
            \/ /\ elock[e] = w /\ pc[w] \in HoldsEvent
               /\ \/ RegisterDecide(w) \/ RegisterPosition(w) \/ RegisterInsert(w)
                  \/ Reread(w) \/ CancelRow(w) \/ Promote(w) \/ PromoteRow(w)
                  \/ UpdateCheck(w) \/ UpdateWrite(w) \/ CascadeRow(w) \/ CascadeDone(w)
<1>0. w # None
  BY NoneAssumption
<1>1. ~Rollback(w) /\ ~Commit(w)
  BY <1>0 DEF Rollback, Commit, Release
<1>2. elock[e] = w => pc[w] \in HoldsEvent /\ req[w].event = e
  BY <1>0 DEF IInv, Structure, LockInv
<1>3. CASE LockEvent(w) \/ DeleteEvent(w)
  <2>1. pc[w] \notin HoldsEvent /\ \E row : TakeEvent(w, req[w].event, row)
    BY <1>3 DEF LockEvent, DeleteEvent, HoldsEvent
  <2> QED
    BY <1>2, <1>3, <2>1 DEF TakeEvent, IInv, Structure, TypeOK
<1>4. CASE \/ RegisterDecide(w) \/ RegisterPosition(w) \/ RegisterInsert(w)
           \/ Reread(w) \/ CancelRow(w) \/ Promote(w) \/ PromoteRow(w)
           \/ UpdateCheck(w) \/ CascadeRow(w) \/ CascadeDone(w)
  <2>1. elock' = elock
    BY <1>4 DEF RegisterDecide, RegisterPosition, RegisterInsert, Reread, CancelRow,
                Promote, PromoteRow, UpdateCheck, CascadeRow, CascadeDone, rowVars
  <2> QED
    BY <1>2, <1>4, <2>1
<1>5. CASE UpdateWrite(w)
  <2>1. elock[req[w].event] = w /\ elock' = [elock EXCEPT ![req[w].event] = w]
    BY <1>5, Holding DEF UpdateWrite, HoldsEvent, TakeEvent
  <2> QED
    BY <1>2, <1>5, <2>1 DEF IInv, Structure, TypeOK
<1>6. CASE Start(w) \/ Publish(w) \/ Announce(w)
  <2>1. elock' = elock /\ pc[w] \notin HoldsEvent
    BY <1>6 DEF Start, StartRegister, StartCancelRegistration, StartUpdate, StartPublish,
                StartCancelEvent, StartRemove, Begin, Publish, Announce, rowVars, HoldsEvent
  <2> QED
    BY <1>2, <2>1
<1>7. ~(SweepRow(w) \/ SkipRow(w) \/ CancelEvent(w) \/ Snapshot(w))
  BY DEF SweepRow, SkipRow, CancelEvent, Snapshot, NoSweep
<1> QED
  BY <1>1, <1>3, <1>4, <1>5, <1>6, <1>7
     DEF StepOf, Locking, Local, Fail, EventGone, RegisterDuplicate, RegisterRefused,
         AlreadyCancelled, UpdateRefused, UpdateRejected

\* A request that has just locked its event sees what is committed, and nobody waits
\* there beside a free seat.
LEMMA FillLock ==
  ASSUME IInv, FillInv, NEW w \in Workers, LockEvent(w), NEW e \in Events, e = req[w].event
  PROVE  FillOK(w, e)'
<1>1. /\ pc[w] = "lock" /\ pc' = [pc EXCEPT ![w] = AfterLock(req[w].op)]
      /\ TakeEvent(w, e, events[e])
      /\ UNCHANGED <<events, regs, dirty, rlock, req, mail, now>>
  BY DEF LockEvent, Goto
<1>2. pc'[w] \in {"decide", "reread", "check"} /\ edirty'[e] = events[e]
  BY <1>1 DEF AfterLock, TakeEvent, IInv, Structure, TypeOK, RequestInv, RequestOK
<1>3. \A r \in RegIds : rlock[r] # w
  BY <1>1, NoneAssumption DEF IInv, Structure, RowInv, HoldsEvent
<1>4. Rows(w, e, "CONFIRMED")' = Committed(e, "CONFIRMED")
  BY <1>1, <1>3 DEF Rows, Committed, Visible
<1>5. Rows(w, e, "WAITLISTED")' = Committed(e, "WAITLISTED")
  BY <1>1, <1>3 DEF Rows, Committed, Visible
<1>6. Served(w, e)'
  BY <1>2, <1>4, <1>5 DEF FillInv, QueueServed, Served, Full, InLine, Seats
<1> QED
  BY <1>2, <1>6 DEF FillOK

\* A registration is put in the queue only when no seat is free.
LEMMA DecideWaitlisted ==
  ASSUME NEW event, NEW time, NEW confirmedCount \in Nat, event.capacity \in Nat,
         decideRegistration(event, time, confirmedCount) = "WAITLISTED"
  PROVE  confirmedCount >= event.capacity
  BY DEF decideRegistration

\* The statements that read keep what they have not decided on.
LEMMA FillReads ==
  ASSUME IInv, FillInv, NEW w \in Workers, NEW e \in Events, elock[e] = w, e = req[w].event,
         RegisterDecide(w) \/ RegisterPosition(w) \/ Reread(w) \/ UpdateCheck(w)
  PROVE  FillOK(w, e)'
<1>0. FillOK(w, e) /\ req[w] \in Requests /\ w \in DOMAIN pc /\ w \in DOMAIN req
  BY NoneAssumption DEF FillInv, IInv, Structure, TypeOK
<1>1. UNCHANGED rowVars
  BY DEF RegisterDecide, RegisterPosition, Reread, UpdateCheck
<1>2. /\ InLine(w, e)' = InLine(w, e) /\ Seats(w, e)' = Seats(w, e)
      /\ Served(w, e)' = Served(w, e) /\ Full(w, e)' = Full(w, e)
      /\ \A r : Visible(w, r)' = Visible(w, r)
  BY <1>1 DEF InLine, Seats, Rows, Visible, Served, Full, rowVars
<1>3. CASE RegisterDecide(w)
  <2>1. /\ pc[w] = "decide" /\ Decision(w) \in ActiveStatuses
        /\ pc'[w] = IF Decision(w) = "WAITLISTED" THEN "position" ELSE "insert"
        /\ req'[w] = [req[w] EXCEPT !.status = Decision(w)]
    BY <1>0, <1>3 DEF RegisterDecide, Goto, Note
  <2>2. req'[w].status = Decision(w)
    BY <1>0, <2>1 DEF Requests
  <2>3. Decision(w) = "WAITLISTED" => Full(w, e)
    BY <2>1, Holding, DecideWaitlisted DEF Decision, Full, Seats, HoldsEvent
  <2> QED
    BY <1>0, <1>2, <2>1, <2>2, <2>3 DEF FillOK
<1>4. CASE RegisterPosition(w)
  <2>1. pc[w] = "position" /\ pc'[w] = "insert"
    BY <1>0, <1>4 DEF RegisterPosition, Goto
  <2> QED
    BY <1>0, <1>2, <2>1 DEF FillOK
<1>5. CASE Reread(w)
  <2>1. /\ pc[w] = "reread" /\ pc'[w] = "cancelRow"
        /\ req'[w] = [req[w] EXCEPT !.status = Visible(w, req[w].reg).status]
    BY <1>0, <1>5 DEF Reread, Goto, Note
  <2>2. req'[w].status = Visible(w, req[w].reg).status /\ req'[w].reg = req[w].reg
    BY <1>0, <2>1 DEF Requests
  <2> QED
    BY <1>0, <1>2, <2>1, <2>2 DEF FillOK
<1>6. CASE UpdateCheck(w)
  <2>1. pc[w] = "check" /\ pc'[w] = "write"
    BY <1>0, <1>6 DEF UpdateCheck, Goto
  <2> QED
    BY <1>0, <1>2, <2>1 DEF FillOK
<1> QED
  BY <1>3, <1>4, <1>5, <1>6

\* register: a seat is taken only if nobody waits, and a place in the queue only if
\* no seat is free.
LEMMA FillInsert ==
  ASSUME IInv, FillInv, NEW w \in Workers, NEW e \in Events, elock[e] = w, e = req[w].event,
         RegisterInsert(w)
  PROVE  FillOK(w, e)'
<1>0. /\ FillOK(w, e) /\ SeatsFit(w, e) /\ req[w] \in Requests /\ w \in DOMAIN pc
      /\ edirty[e].capacity \in Nat
  BY Holding, NoneAssumption DEF FillInv, IInv, Structure, TypeOK, RegisterInsert, HoldsEvent
<1> DEFINE row == [status |-> req[w].status, event |-> req[w].event,
                   attendee |-> req[w].attendee, position |-> req[w].position]
<1>1. /\ pc[w] = "insert" /\ pc'[w] = "commit"
      /\ UNCHANGED <<events, edirty, elock, regs, req, mail, now>>
  BY <1>0 DEF RegisterInsert, Goto
<1>2. PICK r \in RegIds : regs[r].status = "ABSENT" /\ rlock[r] = None /\ WriteRow(w, r, row)
  BY DEF RegisterInsert, Fresh
<1>3. req[w].status \in ActiveStatuses
  BY <1>1 DEF IInv, Structure, RequestInv, RequestOK
<1>4. row \in RegRows /\ row.event = e /\ row.status = req[w].status
  BY <1>0, <1>3 DEF RegRows, Requests
<1> HIDE DEF row
<1>5. Visible(w, r) = regs[r]
  BY <1>2, NoneAssumption DEF Visible
<1>6. r \notin Rows(w, e, "CONFIRMED") /\ r \notin Rows(w, e, "WAITLISTED")
  BY <1>2, <1>5 DEF Rows
<1>7. \A status : Rows(w, e, status)' = (Rows(w, e, status) \ {r})
                    \cup {s \in {r} : row.event = e /\ row.status = status}
  BY <1>1, <1>2, <1>4, RowsAfterWrite DEF IInv, Structure
<1>8. CASE req[w].status = "CONFIRMED"
  <2>1. Seats(w, e) < edirty[e].capacity
    BY <1>0, <1>1, <1>8 DEF SeatsFit
  <2>2. Seats(w, e) \in Nat
    BY RowsFinite DEF Seats
  <2>3. InLine(w, e) = {}
    BY <1>0, <1>1, <2>1, <2>2 DEF FillOK, Served, Full
  <2>4. InLine(w, e)' = {}
    BY <1>4, <1>7, <1>8, <2>3 DEF InLine
  <2> QED
    BY <1>1, <2>4 DEF FillOK, Served
<1>9. CASE req[w].status = "WAITLISTED"
  <2>1. Full(w, e)
    BY <1>0, <1>1, <1>9 DEF FillOK
  <2>2. Rows(w, e, "CONFIRMED")' = Rows(w, e, "CONFIRMED")
    BY <1>4, <1>6, <1>7, <1>9
  <2> QED
    BY <1>1, <2>1, <2>2 DEF FillOK, Served, Full, Seats
<1> QED
  BY <1>3, <1>8, <1>9 DEF ActiveStatuses

\* cancel: whoever leaves the queue frees no seat; whoever leaves a seat is followed
\* by a promotion.
LEMMA FillCancel ==
  ASSUME IInv, FillInv, NEW w \in Workers, NEW e \in Events, elock[e] = w, e = req[w].event,
         CancelRow(w)
  PROVE  FillOK(w, e)'
<1> DEFINE r == req[w].reg
<1>0. FillOK(w, e) /\ w \in DOMAIN pc /\ OfEvent(w, r)
  BY NoneAssumption DEF FillInv, IInv, Structure, TypeOK, CancelRow, RequestInv, RequestOK
<1>1. /\ pc[w] = "cancelRow" /\ WriteRow(w, r, Vacated(Visible(w, r)))
      /\ pc'[w] = IF req[w].status = "CONFIRMED" THEN "promote" ELSE "commit"
      /\ UNCHANGED <<events, edirty, elock, regs, req, mail, now>>
  BY <1>0 DEF CancelRow, Goto, FreesSeat
<1>2. /\ r \in RegIds /\ Vacated(Visible(w, r)) \in RegRows
      /\ Vacated(Visible(w, r)).status = "CANCELLED"
  BY <1>0, OwnRow, EditType
<1>3. Rows(w, e, "CONFIRMED")' = Rows(w, e, "CONFIRMED") \ {r}
  BY <1>1, <1>2, RowsAfterWrite DEF IInv, Structure
<1>4. Rows(w, e, "WAITLISTED")' = Rows(w, e, "WAITLISTED") \ {r}
  BY <1>1, <1>2, RowsAfterWrite DEF IInv, Structure
<1>5. CASE req[w].status = "CONFIRMED"
  BY <1>1, <1>5 DEF FillOK
<1>6. CASE req[w].status # "CONFIRMED"
  <2>1. Visible(w, r).status # "CONFIRMED"
    BY <1>0, <1>1, <1>6 DEF FillOK
  <2>2. Rows(w, e, "CONFIRMED")' = Rows(w, e, "CONFIRMED")
    BY <1>3, <2>1 DEF Rows
  <2>3. Served(w, e)
    BY <1>0, <1>1 DEF FillOK
  <2> QED
    BY <1>1, <1>4, <1>6, <2>2, <2>3 DEF FillOK, Served, Full, Seats, InLine
<1> QED
  BY <1>5, <1>6

\* A promotion chooses the whole queue, or as many as there are seats.
LEMMA FillPromote ==
  ASSUME IInv, NEW w \in Workers, NEW e \in Events, elock[e] = w, e = req[w].event, Promote(w)
  PROVE  FillOK(w, e)'
<1> DEFINE seats == seatsAvailable(VisibleEvent(w, e).capacity,
                                   Cardinality(Rows(w, e, "CONFIRMED")))
<1>0. req[w] \in Requests /\ w \in DOMAIN pc /\ w \in DOMAIN req
  BY DEF IInv, Structure, TypeOK
<1>1. PICK chosen \in SUBSET Rows(w, e, "WAITLISTED") :
        /\ chosen = Rows(w, e, "WAITLISTED") \/ Cardinality(chosen) = seats
        /\ req' = [req EXCEPT ![w] = [req[w] EXCEPT !.todo = chosen, !.promoted = chosen]]
        /\ pc' = [pc EXCEPT ![w] = IF chosen = {} THEN "commit" ELSE "promoteRow"]
  BY DEF Promote, Note, Goto, selectForPromotion
<1>2. req'[w].todo = chosen /\ pc'[w] = IF chosen = {} THEN "commit" ELSE "promoteRow"
  BY <1>0, <1>1 DEF Requests
<1>3. pc[w] = "promote" /\ UNCHANGED rowVars
  BY DEF Promote
<1>4. /\ VisibleEvent(w, e).capacity = edirty[e].capacity /\ edirty[e].capacity \in Nat
      /\ Seats(w, e) \in Nat
  BY <1>3, Holding DEF HoldsEvent
<1>5. Seats(w, e) + seats >= edirty[e].capacity
  BY <1>4 DEF seatsAvailable, Seats
<1>6. InLine(w, e)' = InLine(w, e) /\ Seats(w, e)' = Seats(w, e) /\ edirty' = edirty
  BY <1>3 DEF InLine, Seats, Rows, Visible, rowVars
<1> HIDE DEF seats
<1>7. CASE chosen = {}
  <2>1. InLine(w, e) = {} \/ seats = 0
    BY <1>1, <1>7, FS_EmptySet DEF InLine
  <2>2. Served(w, e)'
    BY <1>4, <1>5, <1>6, <2>1 DEF Served, Full
  <2> QED
    BY <1>2, <1>7, <2>2 DEF FillOK
<1>8. CASE chosen # {}
  BY <1>1, <1>2, <1>5, <1>6, <1>8 DEF FillOK, InLine
<1> QED
  BY <1>7, <1>8

\* Each UPDATE of a promoted row takes one from the queue and gives one a seat.
LEMMA FillPromoteRow ==
  ASSUME IInv, PInv, FillInv, NEW w \in Workers, NEW e \in Events, elock[e] = w,
         e = req[w].event, PromoteRow(w)
  PROVE  FillOK(w, e)'
<1>0. /\ FillOK(w, e) /\ WorkerOK(w) /\ pc[w] = "promoteRow"
      /\ edirty[e].capacity \in Nat /\ Seats(w, e) \in Nat
  BY Holding, NoneAssumption DEF FillInv, PInv, Workerwise, PromoteRow, HoldsEvent
<1>1. PICK r \in req[w].todo :
        /\ req'[w].todo = req[w].todo \ {r}
        /\ WriteRow(w, r, Seated(Visible(w, r)))
        /\ pc'[w] = IF req[w].todo = {r} THEN "commit" ELSE "promoteRow"
  BY PromoteRowKeeps
<1>2. UNCHANGED <<events, edirty, elock, regs, mail, now>>
  BY PromoteRowKeeps
<1>3. OfEvent(w, r) /\ Visible(w, r).status = "WAITLISTED"
  BY <1>0 DEF IInv, Structure, RequestInv, RequestOK, WorkerOK
<1>4. /\ r \in RegIds /\ Visible(w, r).event = e
      /\ Seated(Visible(w, r)) \in RegRows /\ Seated(Visible(w, r)).status = "CONFIRMED"
      /\ Seated(Visible(w, r)).event = e
  <2>1. r \in RegIds /\ Visible(w, r) \in RegRows /\ Visible(w, r).event = e
    BY <1>3, OwnRow
  <2> QED
    BY <2>1, EditType
<1>5. Rows(w, e, "CONFIRMED")' = Rows(w, e, "CONFIRMED") \cup {r}
  BY <1>1, <1>2, <1>3, <1>4, RowsAfterWrite DEF IInv, Structure
<1>6. InLine(w, e)' = InLine(w, e) \ {r}
  BY <1>1, <1>2, <1>4, RowsAfterWrite DEF IInv, Structure, InLine
<1>7. r \notin Rows(w, e, "CONFIRMED")
  BY <1>3 DEF Rows
<1>8. Seats(w, e)' = Seats(w, e) + 1
  BY <1>5, <1>7, RowsFinite, FS_AddElement DEF Seats
<1>9. IsFiniteSet(req[w].todo) /\ Cardinality(req[w].todo) \in Nat
  BY IdsFinite DEF IInv, Structure, TypeOK, Requests
<1>10. Cardinality(req'[w].todo) = Cardinality(req[w].todo) - 1
  <2>1. \A S, x : IsFiniteSet(S) /\ x \in S => Cardinality(S \ {x}) = Cardinality(S) - 1
    BY FS_RemoveElement
  <2>2. req'[w].todo = req[w].todo \ {r}
    BY <1>1
  <2> QED
    BY <1>9, <2>1, <2>2
<1>11. \/ InLine(w, e)' = req'[w].todo
       \/ Seats(w, e)' + Cardinality(req'[w].todo) >= edirty'[e].capacity
  BY <1>0, <1>1, <1>2, <1>6, <1>8, <1>9, <1>10 DEF FillOK
<1>12. CASE req[w].todo = {r}
  <2>1. req'[w].todo = {} /\ Cardinality(req'[w].todo) = 0
    BY <1>1, <1>12, FS_EmptySet
  <2>2. Served(w, e)'
    BY <1>0, <1>8, <1>11, <2>1 DEF Served, Full
  <2> QED
    BY <1>1, <1>12, <2>2 DEF FillOK
<1>13. CASE req[w].todo # {r}
  BY <1>1, <1>11, <1>13 DEF FillOK
<1> QED
  BY <1>12, <1>13

\* update: an edit that adds no seat frees none.
LEMMA FillUpdate ==
  ASSUME IInv, FillInv, NEW w \in Workers, NEW e \in Events, elock[e] = w, e = req[w].event,
         UpdateWrite(w)
  PROVE  FillOK(w, e)'
<1>0. /\ FillOK(w, e) /\ pc[w] = "write" /\ VisibleEvent(w, e) = edirty[e]
      /\ edirty[e] \in EventRows /\ edirty[e].capacity \in Nat /\ Seats(w, e) \in Nat
  BY Holding, NoneAssumption DEF FillInv, UpdateWrite, HoldsEvent
<1>1. /\ pc'[w] = IF GrewCapacity(w) THEN "promote" ELSE "commit"
      /\ edirty'[e] = Patched(w)
      /\ UNCHANGED <<events, regs, dirty, rlock, req, mail, now>>
  BY DEF UpdateWrite, Goto, TakeEvent, IInv, Structure, TypeOK
<1>2. Patched(w).capacity \in Nat
  <2>1. req[w].patch \in Patches
    BY <1>0 DEF IInv, Structure, RequestInv, RequestOK
  <2>2. Patched(w) \in EventRows
    BY <1>0, <2>1, MergeType DEF Patched
  <2> QED
    BY <2>2 DEF EventRows
<1>3. elock'[e] = w
  BY DEF UpdateWrite, TakeEvent, IInv, Structure, TypeOK
<1>4. InLine(w, e)' = InLine(w, e) /\ Seats(w, e)' = Seats(w, e)
  BY <1>1 DEF InLine, Seats, Rows, Visible
<1>5. CASE GrewCapacity(w)
  BY <1>1, <1>5 DEF FillOK
<1>6. CASE ~GrewCapacity(w)
  <2>1. Patched(w).capacity <= edirty[e].capacity
    BY <1>0, <1>2, <1>6 DEF GrewCapacity
  <2>2. Served(w, e)
    BY <1>0 DEF FillOK
  <2>3. Served(w, e)'
    BY <1>0, <1>1, <1>2, <1>4, <2>1, <2>2 DEF Served, Full
  <2> QED
    BY <1>1, <1>6, <2>3 DEF FillOK
<1> QED
  BY <1>5, <1>6

\* remove: once the last registration of the event is gone, nobody waits.
LEMMA FillCascade ==
  ASSUME IInv, OrphanInv, FillInv, NEW w \in Workers, NEW e \in Events, e = req[w].event,
         \/ DeleteEvent(w)
         \/ elock[e] = w /\ (CascadeRow(w) \/ CascadeDone(w))
  PROVE  FillOK(w, e)'
<1>1. CASE DeleteEvent(w)
  <2>1. pc'[w] = "cascade" /\ edirty'[e] = [events[e] EXCEPT !.status = "DELETED"]
    BY <1>1 DEF DeleteEvent, Goto, TakeEvent, IInv, Structure, TypeOK
  <2>2. events[e] \in EventRows
    BY DEF IInv, Structure, TypeOK
  <2> QED
    BY <2>1, <2>2, StatusEdit DEF FillOK
<1>2. CASE elock[e] = w /\ (CascadeRow(w) \/ CascadeDone(w))
  <2>1. FillOK(w, e) /\ CascadeOK(e) /\ pc[w] = "cascade" /\ edirty' = edirty
    BY <1>2, NoneAssumption
       DEF FillInv, OrphanInv, CascadeInv, CascadeRow, CascadeDone, rowVars
  <2>2. Survivors(w, e) \subseteq req[w].todo /\ edirty'[e].status = "DELETED"
    BY <1>2, <2>1 DEF FillOK, CascadeOK
  <2>3. CASE CascadeRow(w)
    <3>1. pc'[w] = "cascade"
      BY <2>3 DEF CascadeRow
    <3> QED
      BY <2>2, <3>1 DEF FillOK
  <2>4. CASE CascadeDone(w)
    <3>1. pc'[w] = "commit" /\ req[w].todo = {} /\ UNCHANGED rowVars
      BY <2>4 DEF CascadeDone, Goto, IInv, Structure, TypeOK
    <3>2. InLine(w, e)' = {}
      BY <2>2, <3>1 DEF InLine, Rows, Visible, rowVars, Survivors, Live, ActiveStatuses
    <3> QED
      BY <3>1, <3>2 DEF FillOK, Served
  <2> QED
    BY <1>2, <2>3, <2>4
<1> QED
  BY <1>1, <1>2

\* The request that steps leaves nobody beside a free seat of the event it holds.
LEMMA FillOwn ==
  ASSUME IInv, PInv, OrphanInv, NoSweep, FillInv, NEW w \in Workers, StepOf(w),
         NEW e \in Events, elock'[e] = w
  PROVE  FillOK(w, e)'
  BY HolderSteps, FillLock, FillReads, FillInsert, FillCancel, FillPromote, FillPromoteRow,
     FillUpdate, FillCascade

\* Nor does the step change what another request sees of its event.
LEMMA FillOthers ==
  ASSUME IInv, FillInv, NEW w \in Workers, StepOf(w), NEW v \in Workers \ {w},
         NEW e \in Events, elock[e] = v
  PROVE  FillOK(v, e)'
<1>1. FillOK(v, e)
  BY NoneAssumption DEF FillInv
<1>2. pc'[v] = pc[v] /\ req'[v] = req[v] /\ edirty'[e] = edirty[e]
  BY OthersStay, OthersHeld DEF IInv, Structure
<1>3. InLine(v, e)' = InLine(v, e) /\ Seats(v, e)' = Seats(v, e)
  <2>1. \A status \in ActiveStatuses : Rows(v, e, status)' = Rows(v, e, status)
    BY OthersRows DEF ActiveStatuses
  <2> QED
    BY <2>1 DEF InLine, Seats, ActiveStatuses
<1>4. pc[v] = "cancelRow" => Visible(v, req[v].reg)' = Visible(v, req[v].reg)
  <2> SUFFICES ASSUME pc[v] = "cancelRow"
               PROVE  Visible(v, req[v].reg)' = Visible(v, req[v].reg)
    OBVIOUS
  <2>1. OfEvent(v, req[v].reg) /\ req[v].event = e
    BY NoneAssumption DEF IInv, Structure, RequestInv, RequestOK, LockInv
  <2>2. PICK r \in RegIds : r = req[v].reg
    BY <2>1 DEF OfEvent
  <2>3. Visible(v, r).event = e /\ Visible(v, r).status # "ABSENT"
    BY <2>1, <2>2 DEF OfEvent
  <2>4. Visible(v, r)' = Visible(v, r)
    BY <2>3, OthersSee
  <2> QED
    BY <1>2, <2>2, <2>4 DEF Visible
<1> QED
  BY <1>1, <1>2, <1>3, <1>4 DEF FillOK, Served, Full

\* A commit makes true what its transaction saw, and the other events stay as they were.
LEMMA ServedStep ==
  ASSUME IInv, PInv, FillInv, NEW w \in Workers, StepOf(w)
  PROVE  QueueServed'
<1> SUFFICES ASSUME NEW e \in Events
             PROVE  \/ Committed(e, "WAITLISTED")' = {}
                    \/ Cardinality(Committed(e, "CONFIRMED")') >= events'[e].capacity
  BY DEF QueueServed
<1>1. CASE Commit(w) /\ e = req[w].event
  <2>1. elock[e] = w /\ w # None /\ pc[w] = "commit"
    BY <1>1, Holding, NoneAssumption DEF Commit, HoldsEvent
  <2>2. events'[e] = edirty[e] /\ \A r \in RegIds : regs'[r] = Visible(w, r)
    BY <1>1, <2>1 DEF Commit, VisibleEvent
  <2>3. \A status : Committed(e, status)' = Rows(w, e, status)
    BY <2>2 DEF Committed, Rows
  <2>4. Served(w, e)
    BY <2>1 DEF FillInv, FillOK
  <2> QED
    BY <2>2, <2>3, <2>4 DEF Served, Full, InLine, Seats
<1>2. CASE ~(Commit(w) /\ e = req[w].event)
  <2>1. \A r \in RegIds : regs'[r].event = e \/ (regs[r].event = e /\ regs[r].status # "ABSENT")
          => regs'[r] = regs[r]
    BY <1>2, RegsStep
  <2>2. \A status \in ActiveStatuses : Committed(e, status)' = Committed(e, status)
    BY <2>1 DEF Committed, ActiveStatuses
  <2>3. events'[e].capacity = events[e].capacity
    <3>1. CASE events'[e] = events[e]
      BY <3>1
    <3>2. CASE Commit(w) /\ elock[e] = w
      <4>1. e = req[w].event
        BY <3>2, NoneAssumption DEF IInv, Structure, LockInv
      <4> QED
        BY <1>2, <3>2, <4>1
    <3>3. CASE events'[e] = [events[e] EXCEPT !.status = "PUBLISHED"]
      <4>1. events[e] \in EventRows
        BY DEF IInv, Structure, TypeOK
      <4> QED
        BY <3>3, <4>1, StatusEdit
    <3> QED
      BY <3>1, <3>2, <3>3, OthersKeep
  <2> QED
    BY <2>2, <2>3 DEF FillInv, QueueServed, ActiveStatuses
<1> QED
  BY <1>1, <1>2

\* FillInv is inductive on the states of the other invariants, while no event is
\* called off.
LEMMA FillNext ==
  IInv /\ PInv /\ OrphanInv /\ NoSweep /\ FillInv /\ [Next]_vars => FillInv'
<1> SUFFICES ASSUME IInv, PInv, OrphanInv, NoSweep, FillInv, [Next]_vars PROVE FillInv'
  OBVIOUS
<1>1. ASSUME NEW w \in Workers, StepOf(w) PROVE FillInv'
  <2>1. ASSUME NEW e \in Events, NEW v \in Workers, elock'[e] = v PROVE FillOK(v, e)'
    <3>1. CASE v = w
      BY <1>1, <2>1, <3>1, FillOwn
    <3>2. CASE v # w
      <4>1. elock[e] = v
        BY <1>1, <2>1, <3>2, OthersKeep, NoneAssumption DEF IInv, Structure, TypeOK
      <4> QED
        BY <1>1, <3>2, <4>1, FillOthers
    <3> QED
      BY <3>1, <3>2
  <2>2. \A e \in Events : elock'[e] \in Workers \cup {None}
    BY NextInv DEF IInv, Structure, TypeOK
  <2> QED
    BY <1>1, <2>1, <2>2, ServedStep DEF FillInv
<1>2. ASSUME NEW f \in Events, NEW dto \in NewEvents, Create(f, dto) PROVE FillInv'
  <2>1. /\ events' = [events EXCEPT ![f] = NewRow(dto)] /\ events[f].status = "ABSENT"
        /\ UNCHANGED <<edirty, elock, regs, dirty, rlock, pc, req, mail, now>>
    BY <1>2 DEF Create
  <2>2. \A e \in Events : Committed(e, "WAITLISTED")' = Committed(e, "WAITLISTED")
                          /\ Committed(e, "CONFIRMED")' = Committed(e, "CONFIRMED")
    BY <2>1 DEF Committed
  <2>3. Committed(f, "WAITLISTED") = {}
    BY <2>1 DEF Committed, OrphanInv, NoOrphans, ActiveStatuses, Exists, EventStatuses
  <2>4. QueueServed'
    BY <2>1, <2>2, <2>3 DEF FillInv, QueueServed, IInv, Structure, TypeOK
  <2>5. \A e \in Events : elock[e] # None => FillOK(elock[e], e)'
    BY <2>1 DEF FillInv, FillOK, Served, Full, InLine, Seats, Rows, Visible
  <2> QED
    BY <2>1, <2>4, <2>5 DEF FillInv
<1>3. CASE Tick \/ UNCHANGED vars
  <2>1. UNCHANGED <<events, edirty, elock, regs, dirty, rlock, pc, req>>
    BY <1>3 DEF Tick, vars, rowVars
  <2>2. QueueServed'
    BY <2>1 DEF FillInv, QueueServed, Committed
  <2>3. \A e \in Events : elock[e] # None => FillOK(elock[e], e)'
    BY <2>1 DEF FillInv, FillOK, Served, Full, InLine, Seats, Rows, Visible
  <2> QED
    BY <2>1, <2>2, <2>3 DEF FillInv
<1> QED
  BY <1>1, <1>2, <1>3, NextCases

\* The invariants of a service that calls no event off, together.
LEMMA FillInvariance ==
  ASSUME "cancelEvent" \notin Menu
  PROVE  Spec => [](FillInv /\ NoSweep)
<1>1. NoSweep /\ FillInv => FillInv /\ NoSweep
  OBVIOUS
<1> QED
  BY <1>1, FillInit, FillNext, PromotionInvariance, OrphanInvariance, NoSweepInvariance, PTL
     DEF Spec

\* While no event is called off, nobody is kept waiting beside a free seat: every commit
\* that frees a seat or adds one serves the queue in the same transaction.
THEOREM NobodyWaitsBesideASeat ==
  ASSUME "cancelEvent" \notin Menu
  PROVE  Spec => []QueueServed
<1>1. FillInv => QueueServed
  BY DEF FillInv
<1> QED
  BY <1>1, FillInvariance, PTL
=============================================================================
