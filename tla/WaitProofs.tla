----------------------------- MODULE WaitProofs -----------------------------
(***************************************************************************)
(* Proofs about waiting: for a row that another request holds, and for a   *)
(* connection of the pool.                                                 *)
(*   NobodyStuck       Spec => []NothingStuck                              *)
(*   RushStaysLocal    Spec => []RushIsLocal                               *)
(*   NoCircle          Spec => []NoWaitCycle, if no event is ever cancelled*)
(*   PoolIsBooking     PoolSpec => Spec                                    *)
(*   PoolCorrect       PoolSpec => []PoolTypeOK                            *)
(*   LocksConnected    PoolSpec => []LocksAreConnected                     *)
(*   PoolGoesOn        PoolSpec => []PoolMovesOn, if no event is ever      *)
(*                     cancelled                                           *)
(* A pool only delays the steps of Booking, so what is proved of Spec      *)
(* holds with any number of connections.                                   *)
(***************************************************************************)
EXTENDS Pool, RowProofs

-----------------------------------------------------------------------------
(* What a request that has begun still finds.                              *)

\* A request that deletes the registrations of an event has deleted the event.
CascadeDeletes ==
  \A w \in Workers : pc[w] = "cascade" => edirty[req[w].event].status = "DELETED"

\* What is deleted is deleted with its event.
GoneOK(r) ==
  /\ regs[r].status = "DELETED" => events[regs[r].event].status = "DELETED"
  /\ rlock[r] # None /\ dirty[r].status = "DELETED" =>
       /\ pc[rlock[r]] \in {"cascade", "commit"}
       /\ edirty[req[rlock[r]].event].status = "DELETED"

GoneInv == CascadeDeletes /\ \A r \in RegIds : GoneOK(r)

-----------------------------------------------------------------------------
(* A row under a lock is there.                                            *)

\* Only the DELETE of an event leads to the deletion of its registrations.
LEMMA IntoCascade ==
  ASSUME IInv, NEW w \in Workers, StepOf(w), pc'[w] = "cascade"
  PROVE  DeleteEvent(w) \/ CascadeRow(w)
<1> USE DEF Goto, IInv, Structure, TypeOK
<1>1. ~Start(w)
  BY DEF Start, StartRegister, StartCancelRegistration, StartUpdate, StartPublish,
         StartCancelEvent, StartRemove, Begin
<1>2. ~LockEvent(w)
  <2>1. LockEvent(w) => pc'[w] = AfterLock(req[w].op) /\ pc[w] = "lock"
    BY DEF LockEvent
  <2>2. pc[w] = "lock" => AfterLock(req[w].op) \in {"decide", "reread", "check"}
    BY DEF AfterLock, RequestInv, RequestOK
  <2> QED
    BY <2>1, <2>2
<1>3. ~Rollback(w)
  BY DEF Rollback
<1>4. Locking(w) => DeleteEvent(w) \/ CascadeRow(w)
  BY <1>2, <1>3 DEF Locking, EventGone, RegisterInsert, RegisterDuplicate, CancelRow, PromoteRow,
                    Publish, SweepRow, SkipRow, CancelEvent
<1>5. ~Local(w)
  BY <1>3 DEF Local, RegisterDecide, RegisterRefused, RegisterPosition, Reread,
              AlreadyCancelled, Promote, UpdateCheck, UpdateRefused, UpdateRejected,
              UpdateWrite, Snapshot, CascadeDone, Commit, Announce
<1> QED
  BY <1>1, <1>3, <1>4, <1>5 DEF StepOf, Fail

\* In a cascade a request keeps the deleted version of its event.
LEMMA CascadeKeeps ==
  ASSUME IInv, NEW w \in Workers, CascadeRow(w) \/ CascadeDone(w)
  PROVE  /\ req'[w].event = req[w].event /\ edirty' = edirty
         /\ pc'[w] \in {"cascade", "commit"}
<1>1. \A rows : [req[w] EXCEPT !.todo = rows].event = req[w].event
  BY DEF IInv, Structure, TypeOK, Requests
<1>2. req' = req \/ \E rows : req'[w] = [req[w] EXCEPT !.todo = rows]
  BY DEF CascadeRow, CascadeDone, Note, IInv, Structure, TypeOK
<1>3. edirty' = edirty /\ pc'[w] \in {"cascade", "commit"}
  BY DEF CascadeRow, CascadeDone, Goto, rowVars, IInv, Structure, TypeOK
<1> QED
  BY <1>1, <1>2, <1>3

\* The DELETE is the first statement of the cascade.
LEMMA CascadeStep ==
  ASSUME IInv, CascadeDeletes, NEW w \in Workers, StepOf(w)
  PROVE  CascadeDeletes'
<1> SUFFICES ASSUME NEW v \in Workers, pc'[v] = "cascade"
             PROVE  edirty'[req'[v].event].status = "DELETED"
  BY DEF CascadeDeletes
<1>1. CASE v # w
  <2>1. pc[v] = "cascade" /\ req'[v] = req[v]
    BY <1>1, OthersStay DEF IInv, Structure
  <2>2. elock[req[v].event] = v /\ req[v].event \in Events
    BY <2>1, Holding DEF HoldsEvent
  <2> QED
    BY <1>1, <2>1, <2>2, OthersHeld DEF CascadeDeletes
<1>2. CASE v = w /\ CascadeRow(w)
  BY <1>2, CascadeKeeps DEF CascadeDeletes, CascadeRow
<1>3. CASE v = w /\ DeleteEvent(w)
  <2> DEFINE e == req[w].event
  <2>1. /\ e \in Events /\ events[e] \in EventRows
        /\ edirty' = [edirty EXCEPT ![e] = [events[e] EXCEPT !.status = "DELETED"]]
    BY <1>3 DEF DeleteEvent, TakeEvent, IInv, Structure, TypeOK, RequestInv, RequestOK
  <2>2. req'[w].event = e
    <3>1. \E rows : req'[w] = [req[w] EXCEPT !.todo = rows]
      BY <1>3 DEF DeleteEvent, Note, IInv, Structure, TypeOK
    <3>2. \A rows : [req[w] EXCEPT !.todo = rows].event = e
      BY DEF IInv, Structure, TypeOK, Requests
    <3> QED
      BY <3>1, <3>2
  <2>3. edirty'[e].status = "DELETED"
    BY <2>1, StatusEdit DEF IInv, Structure, TypeOK
  <2> QED
    BY <1>3, <2>2, <2>3
<1> QED
  BY <1>1, <1>2, <1>3, IntoCascade

\* A commit deletes a registration only with its event, and an event that is deleted
\* stays so.
LEMMA GoneStep ==
  ASSUME IInv, OrphanInv, GoneInv, NEW w \in Workers, StepOf(w)
  PROVE  GoneInv'
<1> USE DEF GoneInv
<1>0. w # None
  BY NoneAssumption
<1>1. ASSUME NEW r \in RegIds, regs'[r].status = "DELETED"
      PROVE  events'[regs'[r].event].status = "DELETED"
  <2>1. CASE regs'[r] = regs[r]
    <3> DEFINE e == regs[r].event
    <3>1. events[e].status = "DELETED"
      BY <1>1, <2>1 DEF GoneOK
    <3>2. e \in Events
      BY <1>1, <2>1 DEF IInv, Structure, RowInv
    <3>3. ~Exists(e) /\ elock[e] = None
      BY <3>1, <3>2 DEF Exists, EventStatuses, OrphanInv, LockedExists
    <3>4. events'[e] = events[e]
      BY <1>0, <3>2, <3>3, OthersKeep
    <3> QED
      BY <2>1, <3>1, <3>4
  <2>2. CASE Commit(w) /\ rlock[r] = w /\ regs'[r] = dirty[r]
    <3>1. /\ edirty[req[w].event].status = "DELETED"
          /\ dirty[r].event = req[w].event
      BY <1>0, <1>1, <2>2 DEF GoneOK, IInv, Structure, RowInv
    <3>2. req[w].event \in Events /\ elock[req[w].event] = w
      BY <2>2, Holding DEF Commit, HoldsEvent
    <3>3. events'[req[w].event] = edirty[req[w].event]
      BY <2>2, <3>2 DEF Commit, VisibleEvent
    <3> QED
      BY <2>2, <3>1, <3>3
  <2> QED
    BY <2>1, <2>2, OthersKeep
<1>2. ASSUME NEW r \in RegIds, rlock'[r] # None, dirty'[r].status = "DELETED"
      PROVE  /\ pc'[rlock'[r]] \in {"cascade", "commit"}
             /\ edirty'[req'[rlock'[r]].event].status = "DELETED"
  <2>1. CASE rlock'[r] = rlock[r] /\ dirty'[r] = dirty[r] /\ rlock[r] # w
    <3> DEFINE v == rlock[r]
    <3>1. v \in Workers \ {w} /\ pc[v] \in {"cascade", "commit"}
          /\ edirty[req[v].event].status = "DELETED"
      BY <1>2, <2>1 DEF GoneOK, IInv, Structure, TypeOK
    <3>2. elock[req[v].event] = v /\ req[v].event \in Events
      BY <3>1, Holding DEF HoldsEvent
    <3> HIDE DEF v
    <3>3. pc'[v] = pc[v] /\ req'[v] = req[v] /\ edirty'[req[v].event] = edirty[req[v].event]
      BY <3>1, <3>2, OthersStay, OthersHeld DEF IInv, Structure
    <3> QED
      BY <2>1, <3>1, <3>3 DEF v
  <2>2. CASE rlock'[r] = w /\ rlock[r] = w /\ dirty'[r] = dirty[r]
    <3>1. pc[w] \in {"cascade", "commit"} /\ edirty[req[w].event].status = "DELETED"
      BY <1>0, <1>2, <2>2 DEF GoneOK
    <3>2. ~Commit(w) /\ ~Fail(w)
      BY <1>0, <2>2 DEF Commit, Fail, Rollback, Release
    <3> QED
      BY <2>2, <3>1, <3>2, CascadeSteps, CascadeKeeps
  <2>3. CASE rlock'[r] = w /\ CascadeRow(w)
    <3>1. edirty[req[w].event].status = "DELETED"
      BY <2>3 DEF CascadeRow, CascadeDeletes
    <3> QED
      BY <2>3, <3>1, CascadeKeeps
  <2> QED
    BY <1>2, <2>1, <2>2, <2>3, WrittenRow DEF ActiveStatuses
<1> QED
  BY <1>1, <1>2, CascadeStep DEF GoneOK

-----------------------------------------------------------------------------
(* A row is left for every registration.                                   *)

\* The registrations asked for, and the rows left to insert them into.  (The number of
\* rows is a bound of the model, and a request starts only while one is left.)
Registering == {w \in Workers : req[w].op = "register"}
Unused      == {r \in RegIds : regs[r].status = "ABSENT"}

\* The rows that are being inserted, by whom.
Inserting ==
  /\ \A r \in Unused : rlock[r] # None =>
       pc[rlock[r]] = "commit" /\ req[rlock[r]].op = "register"
  /\ \A r, s \in Unused : rlock[r] # None /\ rlock[s] = rlock[r] => r = s

\* A request that has begun sees its registrations in rows that have been used.
LEMMA KnownRowUsed ==
  ASSUME IInv, Inserting, NEW w \in Workers, NEW r, OfEvent(w, r), pc[w] # "commit"
  PROVE  r \in RegIds /\ regs[r].status # "ABSENT"
<1>1. r \in RegIds /\ Visible(w, r).status # "ABSENT"
  BY DEF OfEvent
<1>2. rlock[r] = w => regs[r].status # "ABSENT"
  BY <1>1, NoneAssumption DEF Inserting, Unused
<1> QED
  BY <1>1, <1>2 DEF Visible

\* Only an insert locks an unused row, and it locks one.
LEMMA OnlyInsertUses ==
  ASSUME IInv, Inserting, NEW w \in Workers, StepOf(w)
  PROVE  \/ \A r \in Unused' : rlock'[r] # None => rlock'[r] = rlock[r]
         \/ /\ RegisterInsert(w)
            /\ \E f \in RegIds : rlock'[f] = w /\ \A r \in RegIds \ {f} : rlock'[r] = rlock[r]
<1> USE DEF IInv, Structure, TypeOK
<1>1. ASSUME NEW s \in RegIds, NEW row, WriteRow(w, s, row), regs' = regs, regs[s].status # "ABSENT"
      PROVE  \A r \in Unused' : rlock'[r] = rlock[r]
  BY <1>1 DEF WriteRow, Unused
<1>2. CASE RegisterInsert(w)
  <2>1. PICK f \in Fresh : \E row : WriteRow(w, f, row)
    BY <1>2 DEF RegisterInsert
  <2> QED
    BY <1>2, <2>1 DEF WriteRow, Fresh
<1>3. CASE CancelRow(w)
  <2>1. OfEvent(w, req[w].reg) /\ pc[w] # "commit"
    BY <1>3 DEF CancelRow, RequestInv, RequestOK
  <2>2. req[w].reg \in RegIds /\ regs[req[w].reg].status # "ABSENT"
    BY <2>1, KnownRowUsed
  <2> QED
    BY <1>1, <1>3, <2>2 DEF CancelRow
<1>4. CASE PromoteRow(w)
  <2>1. PICK s \in req[w].todo : WriteRow(w, s, Seated(Visible(w, s))) /\ regs' = regs
    BY <1>4 DEF PromoteRow, NextPromoted
  <2>2. OfEvent(w, s) /\ pc[w] # "commit"
    BY <1>4 DEF PromoteRow, RequestInv, RequestOK
  <2>3. s \in RegIds /\ regs[s].status # "ABSENT"
    BY <2>2, KnownRowUsed
  <2> QED
    BY <1>1, <2>1, <2>3
<1>5. CASE CascadeRow(w)
  <2>1. PICK s \in req[w].todo :
          WriteRow(w, s, [Visible(w, s) EXCEPT !.status = "DELETED"]) /\ regs' = regs
    BY <1>5 DEF CascadeRow
  <2>2. OfEvent(w, s) /\ pc[w] # "commit"
    BY <1>5 DEF CascadeRow, RequestInv, RequestOK
  <2>3. s \in RegIds /\ regs[s].status # "ABSENT"
    BY <2>2, KnownRowUsed
  <2> QED
    BY <1>1, <2>1, <2>3
<1>6. CASE SweepRow(w)
  <2>1. PICK s \in req[w].todo :
          WriteRow(w, s, Vacated(regs[s])) /\ regs' = regs /\ regs[s].status \in ActiveStatuses
    BY <1>6 DEF SweepRow
  <2>2. s \in RegIds /\ regs[s].status # "ABSENT"
    BY <2>1 DEF Requests, ActiveStatuses
  <2> QED
    BY <1>1, <2>1, <2>2
<1>7. CASE Reads(w) \/ Publish(w)
  BY <1>7 DEF Reads, Publish, rowVars
<1>8. CASE LockEvent(w) \/ CancelEvent(w) \/ DeleteEvent(w) \/ UpdateWrite(w)
  BY <1>8 DEF LockEvent, CancelEvent, DeleteEvent, UpdateWrite
<1>9. CASE Ends(w) \/ Commit(w)
  BY <1>9 DEF Ends, Commit, Release, Unused
<1> QED
  BY <1>2, <1>3, <1>4, <1>5, <1>6, <1>7, <1>8, <1>9, Kinds

\* A row that a commit leaves unused was unused.
LEMMA UnusedShrinks ==
  ASSUME IInv, NEW w \in Workers, StepOf(w)
  PROVE  /\ Unused' = {r \in Unused : ~Commit(w) \/ rlock[r] # w}
         /\ \A r \in Unused' : regs'[r] = regs[r]
<1>1. \A r \in RegIds : rlock[r] = w => dirty[r].status # "ABSENT"
  BY NoneAssumption DEF IInv, Structure, RowInv
<1>2. CASE Commit(w)
  BY <1>1, <1>2 DEF Commit, Visible, Unused
<1>3. CASE ~Commit(w)
  BY <1>3, OnlyCommitOf DEF Unused
<1> QED
  BY <1>2, <1>3

\* An inserted row stays locked by its request until that ends.
LEMMA InsertingStep ==
  ASSUME IInv, CourseInv, Inserting, NEW w \in Workers, StepOf(w)
  PROVE  Inserting'
<1>0. w # None
  BY NoneAssumption
<1>1. \A r \in Unused' : r \in Unused
  BY UnusedShrinks
<1>2. ASSUME NEW r \in Unused, rlock[r] # None, rlock'[r] = rlock[r]
      PROVE  pc'[rlock[r]] = "commit" /\ req'[rlock[r]].op = "register"
  <2>1. rlock[r] \in Workers /\ pc[rlock[r]] = "commit" /\ req[rlock[r]].op = "register"
    BY <1>2 DEF Inserting, Unused, IInv, Structure, TypeOK
  <2>2. rlock[r] # w
    <3> SUFFICES ASSUME rlock[r] = w PROVE FALSE
      OBVIOUS
    <3>1. Commit(w) \/ Rollback(w)
      BY <2>1, LateSteps
    <3> QED
      BY <1>0, <1>2, <3>1 DEF Commit, Rollback, Release, Unused
  <2> QED
    BY <2>1, <2>2, OthersStay DEF IInv, Structure
<1>3. CASE \A r \in Unused' : rlock'[r] # None => rlock'[r] = rlock[r]
  BY <1>1, <1>2, <1>3 DEF Inserting
<1>4. CASE /\ RegisterInsert(w)
           /\ \E f \in RegIds : rlock'[f] = w /\ \A r \in RegIds \ {f} : rlock'[r] = rlock[r]
  <2>1. PICK f \in RegIds : rlock'[f] = w /\ \A r \in RegIds \ {f} : rlock'[r] = rlock[r]
    BY <1>4
  <2>2. pc[w] = "insert" /\ pc'[w] = "commit" /\ req'[w].op = "register"
    BY <1>4, CourseOf DEF RegisterInsert, Goto, IInv, Structure, TypeOK
  <2>3. \A r \in Unused : rlock[r] # w
    BY <1>0, <2>2 DEF Inserting
  <2>4. \A r \in Unused' : r \in RegIds
    BY DEF Unused
  <2>5. ASSUME NEW r \in Unused', rlock'[r] # None
        PROVE  pc'[rlock'[r]] = "commit" /\ req'[rlock'[r]].op = "register"
    BY <1>1, <1>2, <2>1, <2>2, <2>4, <2>5
  <2>6. ASSUME NEW r \in Unused', NEW s \in Unused', rlock'[r] # None, rlock'[s] = rlock'[r]
        PROVE  r = s
    BY <1>1, <2>1, <2>3, <2>4, <2>6 DEF Inserting
  <2> QED
    BY <2>5, <2>6 DEF Inserting
<1> QED
  BY <1>3, <1>4, OnlyInsertUses

\* Every registration that is asked for has a row left.
RoomInv == Inserting /\ Cardinality(Registering) <= Cardinality(Unused)

\* The sets counted are finite.
LEMMA RoomFinite ==
  /\ IsFiniteSet(Registering) /\ Cardinality(Registering) \in Nat
  /\ IsFiniteSet(Unused) /\ Cardinality(Unused) \in Nat
<1>1. Registering \subseteq Workers /\ Unused \subseteq RegIds
  BY DEF Registering, Unused
<1>2. IsFiniteSet(Registering)
  BY <1>1, WorkersAssumption, FS_Subset
<1> QED
  BY <1>1, <1>2, IdsFinite, FS_CardinalityType

\* The commit of a registration uses one row, and ends one of the requests that need one.
LEMMA RoomCommit ==
  ASSUME IInv, CourseInv, RoomInv, NEW w \in Workers, Commit(w)
  PROVE  Cardinality(Registering)' <= Cardinality(Unused)'
<1>0. w # None /\ StepOf(w) /\ pc[w] = "commit"
  BY NoneAssumption DEF StepOf, Local, Commit
<1>1. Unused' = {r \in Unused : rlock[r] # w}
  BY <1>0, UnusedShrinks
<1>2. \A v \in Workers \ {w} : req'[v] = req[v]
  BY <1>0, OthersStay DEF IInv, Structure
<1>3. CASE req[w].op = "register"
  <2>1. req'[w].op = "none"
    <3>1. req[w].promoted = {}
      BY <1>3, CourseOf
    <3> QED
      BY <3>1 DEF Commit, Note, NoRequest, IInv, Structure, TypeOK
  <2>2. Registering' = Registering \ {w} /\ w \in Registering
    BY <1>2, <1>3, <2>1 DEF Registering
  <2>3. Cardinality(Registering)' = Cardinality(Registering) - 1
    BY <2>2, RoomFinite, FS_RemoveElement
  <2>4. CASE \A r \in Unused : rlock[r] # w
    <3>1. Unused' = Unused
      BY <1>1, <2>4
    <3> QED
      BY <2>3, <3>1, RoomFinite DEF RoomInv
  <2>5. CASE \E r \in Unused : rlock[r] = w
    <3>1. PICK r \in Unused : rlock[r] = w
      BY <2>5
    <3>2. Unused' = Unused \ {r}
      BY <1>0, <1>1, <3>1 DEF RoomInv, Inserting
    <3>3. Cardinality(Unused)' = Cardinality(Unused) - 1
      BY <3>1, <3>2, RoomFinite, FS_RemoveElement
    <3> QED
      BY <2>3, <3>3, RoomFinite DEF RoomInv
  <2> QED
    BY <2>4, <2>5
<1>4. CASE req[w].op # "register"
  <2>1. req'[w].op # "register"
    <3>1. req'[w] = NoRequest \/ req' = req
      BY DEF Commit, Note, IInv, Structure, TypeOK
    <3> QED
      BY <1>4, <3>1 DEF NoRequest
  <2>2. Registering' = Registering
    BY <1>2, <1>4, <2>1 DEF Registering
  <2>3. Unused' = Unused
    BY <1>0, <1>1, <1>4 DEF RoomInv, Inserting
  <2> QED
    BY <2>2, <2>3 DEF RoomInv
<1> QED
  BY <1>3, <1>4

\* A request for a registration begins only while a row is left for it.
LEMMA RoomStep ==
  ASSUME IInv, CourseInv, RoomInv, NEW w \in Workers, StepOf(w)
  PROVE  RoomInv'
<1>1. CASE Commit(w)
  BY <1>1, RoomCommit, InsertingStep DEF RoomInv
<1>2. CASE ~Commit(w)
  <2>1. Unused' = Unused
    BY <1>2, UnusedShrinks
  <2>2. \A v \in Workers \ {w} : req'[v] = req[v]
    BY OthersStay DEF IInv, Structure
  <2>3. CASE req'[w].op = "register" => req[w].op = "register"
    <3>1. Registering' \subseteq Registering
      BY <2>2, <2>3 DEF Registering
    <3>2. Cardinality(Registering)' <= Cardinality(Registering) /\ Cardinality(Registering)' \in Nat
      BY <3>1, RoomFinite, FS_Subset, FS_CardinalityType
    <3> QED
      BY <2>1, <3>2, InsertingStep, RoomFinite DEF RoomInv
  <2>4. CASE req'[w].op = "register" /\ req[w].op # "register"
    <3>1. Start(w)
      BY <2>4, OperationKept DEF NoRequest
    <3>2. Cardinality(Registering) < Cardinality(Unused)
      BY <2>4, <3>1, StartCourse DEF RoomForRow, Registering, Unused
    <3>3. Registering' = Registering \cup {w} /\ w \notin Registering
      BY <2>2, <2>4 DEF Registering
    <3>4. Cardinality(Registering)' = Cardinality(Registering) + 1
      BY <3>3, RoomFinite, FS_AddElement
    <3> QED
      BY <2>1, <3>2, <3>4, InsertingStep, RoomFinite DEF RoomInv
  <2> QED
    BY <2>3, <2>4
<1> QED
  BY <1>1, <1>2

-----------------------------------------------------------------------------
(* Nobody is stuck.                                                        *)

FoundInv == OrphanInv /\ CourseInv /\ GoneInv /\ RoomInv

\* Initially nothing is deleted and nothing asked for.
LEMMA FoundInit == Init => GoneInv /\ RoomInv
<1> SUFFICES ASSUME Init PROVE GoneInv /\ RoomInv
  OBVIOUS
<1>1. Registering = {}
  BY DEF Init, NoRequest, Registering
<1>2. Cardinality(Registering) <= Cardinality(Unused)
  BY <1>1, FS_EmptySet, RoomFinite
<1>3. GoneInv
  BY DEF Init, GoneInv, GoneOK, CascadeDeletes, AbsentReg
<1>4. Inserting
  BY DEF Init, Inserting, Unused
<1> QED
  BY <1>2, <1>3, <1>4 DEF RoomInv

\* GoneInv and RoomInv are inductive on the states of the others.
LEMMA FoundNext ==
  IInv /\ FoundInv /\ [Next]_vars => GoneInv' /\ RoomInv'
<1> SUFFICES ASSUME IInv, FoundInv, [Next]_vars PROVE GoneInv' /\ RoomInv'
  OBVIOUS
<1> USE DEF FoundInv
<1>1. ASSUME NEW w \in Workers, StepOf(w) PROVE GoneInv' /\ RoomInv'
  BY <1>1, GoneStep, RoomStep
<1>2. CASE UNCHANGED <<rowVars, pc, req>>
  <2>1. UNCHANGED <<Unused, Registering>>
    BY <1>2 DEF Unused, Registering, rowVars
  <2> QED
    BY <1>2, <2>1 DEF GoneInv, GoneOK, CascadeDeletes, RoomInv, Inserting, rowVars
<1>3. ASSUME NEW f \in Events, NEW dto \in NewEvents, Create(f, dto) PROVE GoneInv' /\ RoomInv'
  <2>1. /\ events' = [events EXCEPT ![f] = NewRow(dto)] /\ events[f].status = "ABSENT"
        /\ UNCHANGED <<edirty, elock, regs, dirty, rlock, pc, req>>
    BY <1>3 DEF Create
  <2>2. UNCHANGED <<Unused, Registering>>
    BY <2>1 DEF Unused, Registering
  <2>3. ASSUME NEW r \in RegIds, regs[r].status = "DELETED"
        PROVE  events'[regs[r].event].status = "DELETED"
    <3>1. events[regs[r].event].status = "DELETED" /\ regs[r].event \in Events
      BY <2>3 DEF GoneInv, GoneOK, IInv, Structure, RowInv
    <3> QED
      BY <2>1, <3>1 DEF IInv, Structure, TypeOK
  <2> QED
    BY <2>1, <2>2, <2>3 DEF GoneInv, GoneOK, CascadeDeletes, RoomInv, Inserting
<1> QED
  BY <1>1, <1>2, <1>3, NextCases DEF Tick, vars, rowVars

\* All of them hold.
LEMMA FoundInvariance == Spec => [](IInv /\ FoundInv)
<1>1. Init => GoneInv /\ RoomInv
  BY FoundInit
<1>2. IInv /\ FoundInv /\ [Next]_vars => GoneInv' /\ RoomInv'
  BY FoundNext
<1> QED
  BY <1>1, <1>2, OrphanInvariance, CourseInvariance, PTL DEF Spec, FoundInv

\* The last check of a registration finds an outcome or a refusal.
LEMMA DecisionMade ==
  ASSUME NEW event \in EventRows, NEW time, NEW count
  PROVE  decideRegistration(event, time, count) \in ActiveStatuses \cup REGISTRATION_REFUSALS
  BY DEF decideRegistration, ActiveStatuses, REGISTRATION_REFUSALS

\* The people who wait for an event are a queue with tickets.
LEMMA WaitersQueue ==
  ASSUME IInv, NEW w \in Workers, NEW S \in SUBSET RegIds
  PROVE  /\ Queue(S, Ticket(w)) /\ WaitingTickets(w) \in SUBSET Nat
         /\ IsFiniteSet(WaitingTickets(w))
<1>1. \A r \in RegIds : Ticket(w)[r] \in Nat \cup {Null}
  BY VisibleType DEF Ticket, RegRows, IInv, Structure
<1>2. IsFiniteSet(S) /\ S \subseteq Nat
  BY IdsFinite DEF RegIds
<1> DEFINE line == Rows(w, req[w].event, "WAITLISTED")
           all  == {Ticket(w)[r] : r \in line}
<1>3. line \in SUBSET RegIds /\ IsFiniteSet(line)
  BY IdsFinite DEF Rows
<1>4. IsFiniteSet(all)
  <2> DEFINE T == line
  <2> HIDE DEF line
  <2>1. IsFiniteSet({Ticket(w)[r] : r \in T})
    BY <1>3, FiniteImage
  <2> QED
    BY <2>1
<1>5. WaitingTickets(w) = all \ {Null}
  BY DEF WaitingTickets
<1>6. IsFiniteSet(WaitingTickets(w))
  BY <1>4, <1>5, FS_Subset
<1>7. WaitingTickets(w) \in SUBSET Nat
  BY <1>1, <1>3, <1>5
<1> QED
  BY <1>1, <1>2, <1>6, <1>7 DEF Queue

\* Whoever inserts finds a row: no more rows are being inserted than there are others
\* who asked for one.
LEMMA RoomToInsert ==
  ASSUME IInv, CourseInv, RoomInv, NEW w \in Workers, pc[w] = "insert"
  PROVE  Fresh # {}
<1> DEFINE locked == {r \in Unused : rlock[r] # None}
           others == Registering \ {w}
           holder == [r \in locked |-> rlock[r]]
<1>1. \A r \in locked : rlock[r] \in others
  <2> SUFFICES ASSUME NEW r \in locked PROVE rlock[r] \in others
    OBVIOUS
  <2>1. rlock[r] \in Workers /\ pc[rlock[r]] = "commit" /\ req[rlock[r]].op = "register"
    BY DEF RoomInv, Inserting, Unused, IInv, Structure, TypeOK
  <2> QED
    BY <2>1 DEF Registering
<1>2. \A r, s \in locked : rlock[r] = rlock[s] => r = s
  BY DEF RoomInv, Inserting
<1>3. w \in Registering
  BY CourseOf DEF Registering
<1>4. IsFiniteSet(others) /\ Cardinality(others) = Cardinality(Registering) - 1
  BY <1>3, RoomFinite, FS_RemoveElement
<1>5. Unused = locked \cup Fresh
  BY DEF Unused, Fresh
<1>6. IsFiniteSet(locked) /\ Cardinality(locked) <= Cardinality(others)
  <2> DEFINE S == locked
             T == others
  <2>1. holder \in [S -> T] /\ \A r, s \in S : holder[r] = holder[s] => r = s
    BY <1>1, <1>2
  <2> HIDE DEF S, T, holder
  <2>2. holder \in Injection(S, T)
    BY <2>1 DEF Injection, IsInjective
  <2>3. IsFiniteSet(T)
    BY <1>4 DEF T
  <2>4. IsFiniteSet(S) /\ Cardinality(S) <= Cardinality(T)
    BY <2>2, <2>3, FS_Injection
  <2> QED
    BY <2>4 DEF S, T
<1> HIDE DEF locked, others
<1>7. Fresh = {} => Unused = locked
  BY <1>5
<1> QED
  BY <1>4, <1>6, <1>7, RoomFinite DEF RoomInv

\* A row that is not free is held by another request, which is then waited for.
LEMMA HeldByAnother ==
  ASSUME TypeOK, NEW w \in Workers
  PROVE  /\ \A e \in Events : ~EventFree(w, e) => elock[e] \in Workers \ {w}
         /\ \A r \in RegIds : ~RowFree(w, r) => rlock[r] \in Workers \ {w}
  BY DEF TypeOK, EventFree, RowFree

\* Before its first lock, and where it may have to wait for a registration, a request goes
\* on or waits.
LEMMA LockingReady ==
  ASSUME IInv, FoundInv, NEW w \in Workers,
         pc[w] \in {"lock", "publish", "delete", "sweep", "cascade", "insert", "cancelRow",
                   "promoteRow"}
  PROVE  Ready(w) \/ WaitsFor(w) # {}
<1> USE DEF FoundInv
<1>0. /\ req[w].event \in Events /\ RequestOK(w) /\ req[w].todo \in SUBSET RegIds
      /\ w # None
  BY NoneAssumption DEF IInv, Structure, RequestInv, RequestOK, TypeOK, Requests
<1>1. \A r \in RegIds : ~RowFree(w, r) => rlock[r] \in Workers \ {w} /\ rlock[r] # None
  BY HeldByAnother, NoneAssumption DEF IInv, Structure
<1>2. CASE pc[w] \in {"lock", "publish", "delete"} \/ (pc[w] = "sweep" /\ req[w].todo = {})
  <2>1. ~EventFree(w, req[w].event) => elock[req[w].event] \in Workers \ {w}
    BY <1>0, HeldByAnother DEF IInv, Structure
  <2>2. EventFree(w, req[w].event) => Ready(w)
    BY <1>2 DEF Ready
  <2>3. WaitsFor(w) = {elock[req[w].event]} \ {None, w}
    BY <1>2 DEF WaitsFor
  <2> QED
    BY <2>1, <2>2, <2>3, NoneAssumption
<1>3. CASE pc[w] \in {"sweep", "cascade"} /\ req[w].todo # {}
  <2>1. CASE \E r \in req[w].todo : RowFree(w, r)
    BY <1>3, <2>1 DEF Ready
  <2>2. CASE \A r \in req[w].todo : ~RowFree(w, r)
    <3>1. WaitsFor(w) = {rlock[r] : r \in req[w].todo} \ {None, w}
      BY <1>3, <2>2 DEF WaitsFor
    <3> QED
      BY <1>0, <1>1, <1>3, <2>2, <3>1
  <2> QED
    BY <2>1, <2>2
<1>4. CASE pc[w] = "cascade" /\ req[w].todo = {}
  BY <1>4 DEF Ready
<1>5. CASE pc[w] = "insert"
  <2>1. Fresh # {}
    BY <1>5, RoomToInsert
  <2>2. InDoubt(w) = {} => Ready(w)
    BY <1>5, <2>1 DEF Ready
  <2>3. WaitsFor(w) = {rlock[r] : r \in InDoubt(w)} \ {None, w}
    BY <1>5 DEF WaitsFor
  <2>4. \A r \in InDoubt(w) : r \in RegIds /\ ~RowFree(w, r)
    BY DEF InDoubt
  <2> QED
    BY <1>1, <2>2, <2>3, <2>4
<1>6. CASE pc[w] = "cancelRow"
  <2>1. req[w].reg \in RegIds
    BY <1>0, <1>6 DEF RequestOK, OfEvent
  <2>2. RowFree(w, req[w].reg) => Ready(w)
    BY <1>6 DEF Ready
  <2>3. WaitsFor(w) = {rlock[r] : r \in {req[w].reg}} \ {None, w}
    BY <1>6 DEF WaitsFor
  <2> QED
    BY <1>1, <2>1, <2>2, <2>3
<1>7. CASE pc[w] = "promoteRow"
  <2>1. req[w].todo # {}
    BY <1>7 DEF CourseInv, CourseOK
  <2>2. Queue(req[w].todo, Ticket(w))
    BY <1>0, WaitersQueue
  <2>3. PICK r \in req[w].todo : \A s \in req[w].todo \ {r} : Before(Ticket(w), r, s)
    BY <2>1, <2>2, FrontExists
  <2>4. r \in NextPromoted(w) /\ r \in RegIds
    BY <1>0, <2>3 DEF NextPromoted
  <2>5. RowFree(w, r) => Ready(w)
    BY <1>7, <2>4 DEF Ready
  <2>6. WaitsFor(w) = {rlock[s] : s \in NextPromoted(w)} \ {None, w}
    BY <1>7 DEF WaitsFor
  <2> QED
    BY <1>1, <2>4, <2>5, <2>6
<1> QED
  BY <1>2, <1>3, <1>4, <1>5, <1>6, <1>7

\* The other statements never wait, and find what they need.
LEMMA LocalReady ==
  ASSUME IInv, FoundInv, NEW w \in Workers,
         pc[w] \in {"decide", "position", "reread", "promote", "check", "write", "snapshot",
                   "commit", "announce"}
  PROVE  Ready(w)
<1> USE DEF FoundInv
<1>1. CASE pc[w] = "decide"
  <2>1. VisibleEvent(w, req[w].event) \in EventRows
    BY <1>1, Holding DEF HoldsEvent
  <2>2. Decision(w) \in ActiveStatuses \cup REGISTRATION_REFUSALS
    BY <2>1, DecisionMade DEF Decision
  <2> QED
    BY <1>1, <2>2 DEF Ready
<1>2. CASE pc[w] = "position"
  <2>1. nextWaitlistPosition(WaitingTickets(w)) # {}
    <3>1. WaitingTickets(w) \in SUBSET Nat /\ IsFiniteSet(WaitingTickets(w))
      BY WaitersQueue
    <3>2. \E next \in Nat : nextWaitlistPosition(WaitingTickets(w)) = {next}
      BY <3>1, NextTicket
    <3> QED
      BY <3>2
  <2> QED
    BY <1>2, <2>1 DEF Ready
<1>3. CASE pc[w] = "reread"
  <2> DEFINE r == req[w].reg
             e == req[w].event
  <2>1. OfEvent(w, r) /\ elock[e] = w /\ e \in Events
    BY <1>3, Holding DEF HoldsEvent, RequestOK
  <2>2. r \in RegIds /\ Visible(w, r) \in RegRows /\ Visible(w, r).status # "ABSENT"
        /\ Visible(w, r).event = e
    BY <2>1, OwnRow DEF OfEvent
  <2>3. Visible(w, r).status # "DELETED"
    <3>1. CASE rlock[r] = w
      BY <1>3, <2>2, <3>1, NoneAssumption DEF Visible, GoneInv, GoneOK
    <3>2. CASE rlock[r] # w
      <4>1. Exists(e)
        BY <2>1, NoneAssumption DEF OrphanInv, LockedExists
      <4>2. Visible(w, r) = regs[r]
        BY <3>2 DEF Visible
      <4> QED
        BY <2>2, <4>1, <4>2 DEF GoneInv, GoneOK, Exists, EventStatuses
    <3> QED
      BY <3>1, <3>2
  <2>4. Visible(w, r).status \in ActiveStatuses \cup {"CANCELLED"}
    BY <2>2, <2>3 DEF RegRows
  <2> QED
    BY <1>3, <2>4 DEF Ready
<1>4. CASE pc[w] = "promote"
  <2> DEFINE e == req[w].event
             seats == seatsAvailable(VisibleEvent(w, e).capacity, Cardinality(Rows(w, e, "CONFIRMED")))
  <2>1. Rows(w, e, "WAITLISTED") \in SUBSET RegIds
    BY DEF Rows
  <2>2. Queue(Rows(w, e, "WAITLISTED"), Ticket(w))
    BY <2>1, WaitersQueue
  <2>3. VisibleEvent(w, e).capacity \in Nat /\ Cardinality(Rows(w, e, "CONFIRMED")) \in Nat
    BY <1>4, Holding, RowsFinite DEF HoldsEvent
  <2>4. seats \in Nat
    BY <2>3 DEF seatsAvailable
  <2> HIDE DEF seats
  <2>5. selectForPromotion(Rows(w, e, "WAITLISTED"), Ticket(w), seats) # {}
    BY <2>2, <2>4, SelectionExists
  <2> QED
    BY <1>4, <2>5 DEF Ready, seats
<1>5. CASE pc[w] \in {"check", "write", "snapshot", "commit", "announce"}
  BY <1>5 DEF Ready
<1> QED
  BY <1>1, <1>2, <1>3, <1>4, <1>5

\* Whoever cannot go on waits for another request, never for something it failed to find.
LEMMA ReadyOrWaits == IInv /\ FoundInv => NothingStuck
<1> SUFFICES ASSUME IInv, FoundInv, NEW w \in Workers, pc[w] # "idle"
             PROVE  Ready(w) \/ WaitsFor(w) # {}
  BY DEF NothingStuck
<1>1. pc[w] \in Labels
  BY DEF IInv, Structure, TypeOK
<1> QED
  BY <1>1, LockingReady, LocalReady DEF Labels

\* A request that has begun can always go on, unless another one holds a row it needs:
\* nothing it has read, and nobody it meant to promote, is gone when its turn comes.
THEOREM NobodyStuck == Spec => []NothingStuck
  BY ReadyOrWaits, FoundInvariance, PTL

-----------------------------------------------------------------------------
(* Who is waited for.                                                      *)

\* A registration of the request's event is locked by a request about the same event.
LEMMA RowHolder ==
  ASSUME IInv, NEW w \in Workers, NEW r \in RegIds, rlock[r] \notin {None, w},
         \/ OfEvent(w, r)
         \/ regs[r].event = req[w].event /\ regs[r].status # "ABSENT"
         \/ dirty[r].event = req[w].event
  PROVE  /\ req[rlock[r]].event = req[w].event
         /\ pc[rlock[r]] \in HoldsEvent \cup {"sweep"}
<1>1. /\ pc[rlock[r]] \in HoldsEvent \cup {"sweep"}
      /\ dirty[r].event = req[rlock[r]].event
      /\ regs[r].status # "ABSENT" => regs[r].event = dirty[r].event
  BY DEF IInv, Structure, RowInv
<1>2. OfEvent(w, r) => regs[r].event = req[w].event /\ regs[r].status # "ABSENT"
  BY DEF OfEvent, Visible
<1> QED
  BY <1>1, <1>2

\* A request waits only for requests about its own event, which have locked it, or are
\* sweeping its registrations.
LEMMA WaitedFor ==
  ASSUME IInv, NEW w \in Workers, NEW v \in WaitsFor(w)
  PROVE  /\ v \in Workers \ {w} /\ req[v].event = req[w].event
         /\ pc[v] \in HoldsEvent \cup {"sweep"}
<1>0. v \notin {None, w}
  BY DEF WaitsFor
<1>1. \A r \in RegIds : rlock[r] \in Workers \cup {None}
  BY DEF IInv, Structure, TypeOK
<1>2. RequestOK(w) /\ req[w].todo \in SUBSET RegIds
  BY DEF IInv, Structure, RequestInv, TypeOK, Requests
<1>3. CASE pc[w] \in {"lock", "publish", "delete"} \/ (pc[w] = "sweep" /\ req[w].todo = {})
  <2>1. v = elock[req[w].event]
    BY <1>3 DEF WaitsFor
  <2>2. req[w].event \in Events
    BY <1>2, <1>3 DEF RequestOK
  <2> QED
    BY <1>0, <2>1, <2>2 DEF IInv, Structure, LockInv, TypeOK
<1>4. ASSUME NEW r \in RegIds, v = rlock[r],
             \/ OfEvent(w, r)
             \/ regs[r].event = req[w].event /\ regs[r].status # "ABSENT"
             \/ dirty[r].event = req[w].event
      PROVE  /\ v \in Workers \ {w} /\ req[v].event = req[w].event
             /\ pc[v] \in HoldsEvent \cup {"sweep"}
  BY <1>0, <1>1, <1>4, RowHolder
<1>5. CASE pc[w] = "insert"
  <2>1. PICK r \in InDoubt(w) : v = rlock[r]
    BY <1>5 DEF WaitsFor
  <2>2. r \in RegIds /\ (SameBooking(w, regs[r]) \/ SameBooking(w, dirty[r]))
    BY <2>1 DEF InDoubt
  <2>3. \/ regs[r].event = req[w].event /\ regs[r].status # "ABSENT"
        \/ dirty[r].event = req[w].event
    BY <2>2 DEF SameBooking, ActiveStatuses
  <2> QED
    BY <1>4, <2>1, <2>2, <2>3
<1>6. CASE pc[w] = "cancelRow"
  <2>1. v = rlock[req[w].reg]
    BY <1>6 DEF WaitsFor
  <2>2. OfEvent(w, req[w].reg) /\ req[w].reg \in RegIds
    BY <1>2, <1>6 DEF RequestOK, OfEvent
  <2> QED
    BY <1>4, <2>1, <2>2
<1>7. CASE pc[w] = "promoteRow"
  <2>1. PICK r \in NextPromoted(w) : v = rlock[r]
    BY <1>7 DEF WaitsFor
  <2>2. r \in req[w].todo
    BY <2>1 DEF NextPromoted
  <2>3. OfEvent(w, r) /\ r \in RegIds
    BY <1>2, <1>7, <2>2 DEF RequestOK
  <2> QED
    BY <1>4, <2>1, <2>3
<1>8. CASE pc[w] \in {"sweep", "cascade"} /\ req[w].todo # {}
  <2>1. PICK r \in req[w].todo : v = rlock[r]
    BY <1>8 DEF WaitsFor
  <2>2. OfEvent(w, r) /\ r \in RegIds
    BY <1>2, <1>8, <2>1 DEF RequestOK
  <2> QED
    BY <1>4, <2>1, <2>2
<1> QED
  BY <1>3, <1>5, <1>6, <1>7, <1>8 DEF WaitsFor

\* A request whose event no other request is about can go on, whatever locks the others
\* hold: a rush on one event is felt at that event alone.
THEOREM RushStaysLocal == Spec => []RushIsLocal
<1>1. IInv /\ FoundInv => RushIsLocal
  <2> SUFFICES ASSUME IInv, FoundInv, NEW w \in Workers, pc[w] # "idle",
                      \A v \in Workers \ {w} : req[v].event # req[w].event
               PROVE  Ready(w)
    BY DEF RushIsLocal
  <2>1. WaitsFor(w) = {}
    BY WaitedFor
  <2> QED
    BY <2>1, ReadyOrWaits DEF NothingStuck
<1> QED
  BY <1>1, FoundInvariance, PTL

\* Whoever holds an event waits for nobody: all the rows it still needs are of its event,
\* and only the holder of the event locks those.
LEMMA HolderGoesOn ==
  ASSUME IInv, NoSweep, NEW w \in Workers, pc[w] \in HoldsEvent
  PROVE  WaitsFor(w) = {}
<1> SUFFICES ASSUME NEW v \in WaitsFor(w) PROVE FALSE
  OBVIOUS
<1>1. v \in Workers \ {w} /\ req[v].event = req[w].event /\ pc[v] \in HoldsEvent
  BY WaitedFor DEF NoSweep
<1> QED
  BY <1>1, Holding

\* While no event is called off, no set of requests wait for each other: whoever is waited
\* for holds the event, and whoever holds the event waits for nobody.
THEOREM NoCircle ==
  ASSUME "cancelEvent" \notin Menu
  PROVE  Spec => []NoWaitCycle
<1>1. IInv /\ NoSweep => NoWaitCycle
  <2> SUFFICES ASSUME IInv, NoSweep, NEW S \in SUBSET Workers, WaitCycle(S) PROVE FALSE
    BY DEF NoWaitCycle
  <2>1. PICK w \in S : w \in Workers /\ WaitsFor(w) \cap S # {}
    BY DEF WaitCycle
  <2>2. PICK v \in S : w \in WaitsFor(v) /\ v \in Workers
    BY <2>1 DEF WaitCycle
  <2>3. pc[w] \in HoldsEvent
    BY <2>2, WaitedFor DEF NoSweep
  <2> QED
    BY <2>1, <2>3, HolderGoesOn
<1> QED
  BY <1>1, NoSweepInvariance, PTL

-----------------------------------------------------------------------------
(* The line.                                                               *)

\* Who is in a line, by place.
LEMMA InLineAt ==
  ASSUME NEW S, NEW q \in Seq(S)
  PROVE  /\ DOMAIN q = 1..Len(q) /\ Len(q) \in Nat
         /\ ToSet(q) = {q[i] : i \in 1..Len(q)}
         /\ ToSet(q) \subseteq S
<1>1. DOMAIN q = 1..Len(q) /\ Len(q) \in Nat /\ \A i \in 1..Len(q) : q[i] \in S
  BY LenProperties
<1>2. ToSet(q) = {q[i] : i \in 1..Len(q)}
  BY <1>1 DEF ToSet
<1> QED
  BY <1>1, <1>2

\* Whoever joins stands at the end.
LEMMA JoinLine ==
  ASSUME NEW S, NEW q \in Seq(S), OnePlaceEach(q), NEW c \in S, c \notin ToSet(q)
  PROVE  /\ Append(q, c) \in Seq(S) /\ OnePlaceEach(Append(q, c))
         /\ ToSet(Append(q, c)) = ToSet(q) \cup {c}
<1> DEFINE p == Append(q, c)
           n == Len(q)
<1>1. /\ p \in Seq(S) /\ Len(p) = n + 1 /\ p[n + 1] = c
      /\ \A i \in 1..n : p[i] = q[i]
  BY AppendProperties
<1>2. /\ DOMAIN q = 1..n /\ n \in Nat
      /\ ToSet(q) = {q[i] : i \in 1..n}
  BY InLineAt
<1> HIDE DEF p, n
<1>3. DOMAIN p = 1..(n + 1) /\ ToSet(p) = {p[i] : i \in 1..(n + 1)}
  BY <1>1, InLineAt
<1>4. ToSet(p) = ToSet(q) \cup {c}
  <2>1. 1..(n + 1) = 1..n \cup {n + 1}
    BY <1>2
  <2> QED
    BY <1>1, <1>2, <1>3, <2>1
<1>5. OnePlaceEach(p)
  <2> SUFFICES ASSUME NEW i \in 1..(n + 1), NEW j \in 1..(n + 1), p[i] = p[j], p[i] # None
               PROVE  i = j
    BY <1>3 DEF OnePlaceEach
  <2>1. CASE i \in 1..n /\ j \in 1..n
    BY <1>1, <1>2, <2>1 DEF OnePlaceEach
  <2>2. CASE i = n + 1 \/ j = n + 1
    <3>1. \A k \in 1..n : p[k] # c
      BY <1>1, <1>2
    <3> QED
      BY <1>1, <1>2, <2>2, <3>1
  <2> QED
    BY <1>2, <2>1, <2>2
<1> QED
  BY <1>1, <1>4, <1>5 DEF p

\* Whoever gives up is in the line no more, and its place stays.
LEMMA LeavePlace ==
  ASSUME NEW S, NEW q \in Seq(S \cup {None}), OnePlaceEach(q), NEW i \in 1..Len(q), q[i] # None
  PROVE  LET p == [q EXCEPT ![i] = None]
         IN  /\ p \in Seq(S \cup {None}) /\ OnePlaceEach(p)
             /\ \A c : c # None => (c \in ToSet(p) <=> c \in ToSet(q) /\ c # q[i])
<1> DEFINE p == [q EXCEPT ![i] = None]
           n == Len(q)
<1>1. /\ DOMAIN q = 1..n /\ n \in Nat /\ i \in 1..n
      /\ ToSet(q) = {q[j] : j \in 1..n}
      /\ \A j \in 1..n : q[j] \in S \cup {None}
  BY InLineAt, LenProperties
<1>2. DOMAIN p = 1..n /\ p[i] = None /\ \A j \in 1..n : j # i => p[j] = q[j]
  BY <1>1
<1>3. p \in Seq(S \cup {None}) /\ Len(p) = n
  BY ExceptSeq
<1> HIDE DEF p, n
<1>4. ToSet(p) = {p[j] : j \in 1..n}
  BY <1>3, InLineAt
<1>5. OnePlaceEach(p)
  <2> SUFFICES ASSUME NEW j \in 1..n, NEW k \in 1..n, p[j] = p[k], p[j] # None PROVE j = k
    BY <1>2 DEF OnePlaceEach
  <2>1. q[j] = p[j] /\ q[k] = p[k]
    BY <1>2
  <2> QED
    BY <1>1, <2>1 DEF OnePlaceEach
<1>6. ASSUME NEW c, c # None PROVE c \in ToSet(p) <=> c \in ToSet(q) /\ c # q[i]
  <2>1. ASSUME NEW j \in 1..n, q[j] = q[i] PROVE j = i
    BY <1>1, <2>1 DEF OnePlaceEach
  <2> QED
    BY <1>1, <1>2, <1>4, <1>6, <2>1
<1> QED
  BY <1>3, <1>5, <1>6 DEF p

\* The head goes and the others move up.
LEMMA ServeLine ==
  ASSUME NEW S, NEW q \in Seq(S), OnePlaceEach(q), q # <<>>
  PROVE  /\ Tail(q) \in Seq(S) /\ OnePlaceEach(Tail(q)) /\ Head(q) \in ToSet(q)
         /\ \A c : c # None => (c \in ToSet(Tail(q)) <=> c \in ToSet(q) /\ c # Head(q))
<1> DEFINE p == Tail(q)
           n == Len(q)
<1>1. /\ Head(q) = q[1] /\ p \in Seq(S) /\ Len(p) = n - 1 /\ n # 0
      /\ \A j \in 1..(n - 1) : p[j] = q[j + 1]
  BY HeadTailProperties, EmptySeq
<1>2. /\ DOMAIN q = 1..n /\ n \in Nat /\ ToSet(q) = {q[j] : j \in 1..n}
  BY InLineAt
<1> HIDE DEF p, n
<1>3. DOMAIN p = 1..(n - 1) /\ ToSet(p) = {p[j] : j \in 1..(n - 1)}
  BY <1>1, InLineAt
<1>4. \A j, k \in 1..n : q[j] = q[k] /\ q[j] # None => j = k
  BY <1>2 DEF OnePlaceEach
<1>5. ASSUME NEW c \in ToSet(p), c # None PROVE c \in ToSet(q) /\ c # q[1]
  <2>1. PICK j \in 1..(n - 1) : c = q[j + 1]
    BY <1>1, <1>3
  <2>2. j + 1 \in 1..n /\ j + 1 # 1 /\ 1 \in 1..n
    BY <1>2
  <2> QED
    BY <1>2, <1>4, <1>5, <2>1, <2>2
<1>6. ASSUME NEW c \in ToSet(q), c # q[1] PROVE c \in ToSet(p)
  <2>1. PICK k \in 1..n : c = q[k] /\ k # 1
    BY <1>2, <1>6
  <2>2. k - 1 \in 1..(n - 1) /\ (k - 1) + 1 = k
    BY <1>2, <2>1
  <2>3. p[k - 1] = c
    BY <1>1, <2>1, <2>2
  <2> QED
    BY <1>3, <2>2, <2>3
<1>7. OnePlaceEach(p)
  <2> SUFFICES ASSUME NEW j \in 1..(n - 1), NEW k \in 1..(n - 1), p[j] = p[k], p[j] # None
               PROVE  j = k
    BY <1>3 DEF OnePlaceEach
  <2>1. j + 1 \in 1..n /\ k + 1 \in 1..n /\ q[j + 1] = q[k + 1] /\ q[j + 1] # None
    BY <1>1, <1>2
  <2>2. j + 1 = k + 1
    BY <1>4, <2>1
  <2> QED
    BY <1>2, <2>2
<1>8. Head(q) \in ToSet(q)
  BY <1>1, <1>2
<1> QED
  BY <1>1, <1>5, <1>6, <1>7, <1>8 DEF p

-----------------------------------------------------------------------------
(* The pool delays, and adds nothing.                                      *)

\* Every step of the service over its pool is a step of Booking, or leaves the rows
\* and the requests alone.
LEMMA PoolStep == [PoolNext]_allVars => [Next]_vars
<1> SUFFICES ASSUME [PoolNext]_allVars PROVE [Next]_vars
  OBVIOUS
<1>1. ASSUME NEW w \in Workers, PoolCreate(w) PROVE Next
  BY <1>1 DEF PoolCreate, Next
<1>2. ASSUME NEW w \in Workers,
             PoolStart(w) \/ Statement(w) \/ PoolAnnounce(w) \/ PoolFail(w) \/ GiveUp(w)
      PROVE  Next
  <2>1. PoolStart(w) => Start(w)
    BY DEF PoolStart, Start
  <2> QED
    BY <1>2, <2>1 DEF Statement, PoolAnnounce, PoolFail, GiveUp, Local, Next
<1>3. ASSUME NEW c, Arrive(c) \/ Answered(c) \/ Ask(c) \/ Connect(c) PROVE UNCHANGED vars
  BY <1>3 DEF Arrive, Answered, Ask, Connect
<1>4. CASE ConnectLate \/ Discard \/ AskHealth \/ AnswerHealth
  BY <1>4 DEF ConnectLate, Discard, AskHealth, AnswerHealth
<1>5. CASE Tick /\ UNCHANGED poolVars
  BY <1>5 DEF Next
<1>6. CASE UNCHANGED allVars
  BY <1>6 DEF allVars
<1> QED
  BY <1>1, <1>2, <1>3, <1>4, <1>5, <1>6 DEF PoolNext

\* Requests over a pool of connections do nothing that requests could not do without:
\* waiting for a connection is waiting.
THEOREM PoolIsBooking == PoolSpec => Spec
<1>1. PoolInit => Init
  BY DEF PoolInit
<1> QED
  BY <1>1, PoolStep, PTL DEF PoolSpec, Spec

-----------------------------------------------------------------------------
(* Who has a connection, and who waits for one.                            *)

\* What the steps of the pool preserve.
LineInv ==
  /\ waiting \in Seq(Clients \cup {None}) /\ IsFiniteSet(holds)
  /\ PoolTypeOK

\* Initially nobody waits and nobody has a connection.
LEMMA PoolStarts == PoolInit => LineInv
<1> SUFFICES ASSUME PoolInit PROVE LineInv
  OBVIOUS
<1>1. waiting \in Seq(Clients \cup {None}) /\ Len(waiting) = 0
  BY EmptySeq DEF PoolInit
<1>2. DOMAIN waiting = {} /\ ToSet(waiting) = {}
  <2>1. DOMAIN waiting = 1..0 /\ ToSet(waiting) = {waiting[i] : i \in 1..0}
    BY <1>1, InLineAt
  <2>2. 1..0 = {}
    OBVIOUS
  <2> QED
    BY <2>1, <2>2
<1>3. OnePlaceEach(waiting)
  BY <1>2 DEF OnePlaceEach
<1>4. IsFiniteSet(holds) /\ Cardinality(holds) = 0
  BY FS_EmptySet DEF PoolInit
<1>5. discarded \in Nat /\ InUse <= PoolMax
  BY <1>4, PoolMaxAssumption DEF PoolInit, InUse
<1>6. holds = {} /\ looking = {} /\ \A w \in Workers : pc[w] = "idle"
  BY DEF PoolInit, Init
<1> QED
  BY <1>1, <1>2, <1>3, <1>4, <1>5, <1>6 DEF LineInv, PoolTypeOK, PlaceOK, InPool, Done

\* The name of a client is not the mark of a place that was given up.
LEMMA ClientNamed == None \notin Clients /\ Probe \in Clients /\ Probe \notin Workers
  BY NoneAssumption, ProbeAssumption DEF Clients

\* Whoever joins the line is in it once, and has a reason to be.
LEMMA JoinKeeps ==
  ASSUME LineInv, NEW c \in Clients, ~InPool(c), Join(c), UNCHANGED <<pc, holds, discarded>>,
         \/ looking' = looking /\ (c \in Workers => pc[c] \in Opening)
         \/ looking' = looking \cup {c} /\ pc[c] = "idle"
  PROVE  LineInv'
<1>1. c \notin holds /\ c \notin ToSet(waiting)
  BY DEF InPool
<1>2. /\ waiting' \in Seq(Clients \cup {None}) /\ OnePlaceEach(waiting')
      /\ ToSet(waiting') = ToSet(waiting) \cup {c}
  BY <1>1, JoinLine DEF LineInv, PoolTypeOK, Join
<1>3. ASSUME NEW w \in Workers PROVE PlaceOK(w)'
  BY <1>2 DEF LineInv, PoolTypeOK, PlaceOK, InPool, Opening, Done
<1>4. InUse' = InUse
  BY DEF InUse
<1> QED
  BY <1>1, <1>2, <1>3, <1>4 DEF LineInv, PoolTypeOK

\* The head of the line gets a connection while one is free.
LEMMA ConnectServes ==
  ASSUME LineInv, NEW c \in Clients, Connect(c)
  PROVE  LineInv'
<1>1. /\ waiting # <<>> /\ c = Head(waiting) /\ InUse < PoolMax
      /\ holds' = holds \cup {c} /\ waiting' = Tail(waiting) /\ pc' = pc
      /\ UNCHANGED <<looking, discarded>>
  BY DEF Connect, vars
<1>2. /\ waiting' \in Seq(Clients \cup {None}) /\ OnePlaceEach(waiting') /\ c \in ToSet(waiting)
      /\ \A v : v # None => (v \in ToSet(waiting') <=> v \in ToSet(waiting) /\ v # c)
  BY <1>1, ServeLine DEF LineInv, PoolTypeOK
<1>3. IsFiniteSet(holds') /\ InUse' <= PoolMax
  <2>1. c \notin holds
    BY <1>2 DEF LineInv, PoolTypeOK
  <2>2. IsFiniteSet(holds) /\ Cardinality(holds) \in Nat /\ discarded \in Nat
    BY FS_CardinalityType DEF LineInv, PoolTypeOK
  <2>3. IsFiniteSet(holds \cup {c}) /\ Cardinality(holds \cup {c}) = Cardinality(holds) + 1
    BY <2>1, <2>2, FS_AddElement
  <2> QED
    BY <1>1, <2>2, <2>3, PoolMaxAssumption DEF InUse
<1>4. ToSet(waiting') \subseteq (Clients \cup {None}) \ holds'
  <2>1. ToSet(waiting') \subseteq Clients \cup {None}
    BY <1>2, InLineAt
  <2> QED
    BY <1>1, <1>2, <2>1, ClientNamed DEF LineInv, PoolTypeOK
<1>5. ASSUME NEW w \in Workers PROVE PlaceOK(w)'
  <2>1. InPool(w)' <=> InPool(w)
    BY <1>1, <1>2, ClientNamed DEF InPool, Clients
  <2> QED
    BY <1>1, <2>1 DEF LineInv, PoolTypeOK, PlaceOK
<1> QED
  BY <1>1, <1>2, <1>3, <1>4, <1>5 DEF LineInv, PoolTypeOK

\* A connection for somebody who has given up counts as taken until it is discarded.
LEMMA LateServes ==
  ASSUME LineInv, ConnectLate \/ Discard
  PROVE  LineInv'
<1>1. pc' = pc /\ holds' = holds /\ looking' = looking
  BY DEF ConnectLate, Discard, vars
<1>2. IsFiniteSet(holds) /\ Cardinality(holds) \in Nat /\ discarded \in Nat
  BY FS_CardinalityType DEF LineInv, PoolTypeOK
<1>3. discarded' \in Nat /\ InUse' <= PoolMax
  <2>1. CASE ConnectLate
    BY <1>1, <1>2, <2>1, PoolMaxAssumption DEF ConnectLate, InUse
  <2>2. CASE Discard
    BY <1>1, <1>2, <2>2, PoolMaxAssumption DEF Discard, InUse, LineInv, PoolTypeOK
  <2> QED
    BY <2>1, <2>2
<1>4. /\ waiting' \in Seq(Clients \cup {None}) /\ OnePlaceEach(waiting')
      /\ \A v : v # None => (v \in ToSet(waiting') <=> v \in ToSet(waiting))
  <2>1. CASE ConnectLate
    BY <2>1, ServeLine DEF ConnectLate, LineInv, PoolTypeOK
  <2>2. CASE Discard
    BY <2>2 DEF Discard, LineInv, PoolTypeOK
  <2> QED
    BY <2>1, <2>2
<1>5. ToSet(waiting') \subseteq (Clients \cup {None}) \ holds'
  <2>1. ToSet(waiting') \subseteq Clients \cup {None}
    BY <1>4, InLineAt
  <2> QED
    BY <1>1, <1>4, <2>1, ClientNamed DEF LineInv, PoolTypeOK
<1>6. ASSUME NEW w \in Workers PROVE PlaceOK(w)'
  <2>1. InPool(w)' <=> InPool(w)
    BY <1>1, <1>4, NoneAssumption DEF InPool
  <2> QED
    BY <1>1, <2>1 DEF LineInv, PoolTypeOK, PlaceOK
<1> QED
  BY <1>1, <1>2, <1>3, <1>4, <1>5, <1>6 DEF LineInv, PoolTypeOK

\* Whoever gives a connection back needs none any more, and leaves no more of them taken.
LEMMA BackKeeps ==
  ASSUME LineInv, NEW c \in Clients, holds' \in {holds, holds \ {c}},
         UNCHANGED <<waiting, discarded>>,
         looking' \in {looking, looking \ {c}},
         \A w \in Workers \ {c} : pc'[w] = pc[w],
         c \in Workers => PlaceOK(c)'
  PROVE  LineInv'
<1>1. IsFiniteSet(holds) /\ Cardinality(holds) \in Nat /\ discarded \in Nat /\ InUse <= PoolMax
  BY FS_CardinalityType DEF LineInv, PoolTypeOK
<1>2. holds' \subseteq holds
  OBVIOUS
<1>3. IsFiniteSet(holds') /\ Cardinality(holds') \in Nat /\ Cardinality(holds') <= Cardinality(holds)
  BY <1>1, <1>2, FS_Subset, FS_CardinalityType
<1>4. InUse' <= PoolMax
  BY <1>1, <1>3, PoolMaxAssumption DEF InUse
<1>5. ASSUME NEW w \in Workers, w # c PROVE PlaceOK(w)'
  BY <1>5 DEF LineInv, PoolTypeOK, PlaceOK, InPool
<1> QED
  BY <1>1, <1>2, <1>3, <1>4, <1>5 DEF LineInv, PoolTypeOK

\* A look-up ends, and gives back what it borrowed; an update needs none.
LEMMA LookupKeeps ==
  ASSUME LineInv, pc \in [Workers -> Labels], NEW w \in Workers,
         PoolStart(w) \/ PoolCreate(w) \/ Answered(w)
  PROVE  LineInv'
<1>1. /\ pc[w] = "idle" /\ pc'[w] \in Opening \cup {"idle"}
      /\ \A v \in Workers \ {w} : pc'[v] = pc[v]
  <2>1. CASE PoolStart(w)
    BY <2>1 DEF PoolStart, Start, StartRegister, StartCancelRegistration, StartUpdate,
                StartPublish, StartCancelEvent, StartRemove, Begin, Goto, Opening
  <2>2. CASE PoolCreate(w) \/ Answered(w)
    BY <2>2 DEF PoolCreate, Answered, EndLookup, Create, vars, LineInv, PoolTypeOK, PlaceOK
  <2> QED
    BY <2>1, <2>2
<1>2. \/ EndLookup(w)
      \/ w \notin looking /\ UNCHANGED poolVars
  BY DEF PoolStart, PoolCreate, Answered
<1>3. w \in Clients
  BY DEF Clients
<1>4. CASE EndLookup(w)
  <2>1. /\ w \in holds /\ holds' = holds \ {w} /\ looking' = looking \ {w}
        /\ UNCHANGED <<waiting, discarded>>
    BY <1>4 DEF EndLookup
  <2>2. ~InPool(w)' /\ w \notin looking'
    BY <2>1 DEF InPool, LineInv, PoolTypeOK
  <2>3. PlaceOK(w)'
    BY <1>1, <2>2 DEF PlaceOK, Opening, Done
  <2> QED
    BY <1>1, <1>3, <2>1, <2>3, BackKeeps
<1>5. CASE w \notin looking /\ UNCHANGED poolVars
  <2>1. ~InPool(w)
    BY <1>1, <1>5 DEF LineInv, PoolTypeOK, PlaceOK, Done
  <2>2. UNCHANGED <<waiting, holds, looking, discarded>>
    BY <1>5 DEF poolVars
  <2>3. PlaceOK(w)'
    BY <1>1, <1>5, <2>1, <2>2 DEF PlaceOK, InPool, Opening, Done
  <2> QED
    BY <1>1, <1>3, <2>2, <2>3, BackKeeps
<1> QED
  BY <1>2, <1>4, <1>5

\* A statement is sent by a request that has a connection, which keeps it until it is
\* done with it.
LEMMA StatementKeeps ==
  ASSUME LineInv, IInv, NEW w \in Workers, Statement(w)
  PROVE  LineInv'
<1>1. /\ w \in holds /\ holds' = IF pc'[w] \in Done THEN holds \ {w} ELSE holds
      /\ UNCHANGED <<waiting, looking, discarded>> /\ StepOf(w) /\ w \in Clients
  BY DEF Statement, StepOf, Clients
<1>2. \A v \in Workers \ {w} : pc'[v] = pc[v]
  BY <1>1, OthersStay DEF IInv, Structure
<1>3. w \notin ToSet(waiting)
  BY <1>1 DEF LineInv, PoolTypeOK
<1>4. pc[w] # "idle"
  <2>1. Locking(w) \/ Local(w)
    BY DEF Statement
  <2>2. Locking(w) => pc[w] # "idle"
    BY DEF Locking, LockEvent, EventGone, RegisterInsert, RegisterDuplicate, CancelRow,
           PromoteRow, Publish, SweepRow, SkipRow, CancelEvent, DeleteEvent, CascadeRow
  <2>3. Local(w) => pc[w] # "idle"
    BY DEF Local, RegisterDecide, RegisterRefused, RegisterPosition, Reread, AlreadyCancelled,
           Promote, UpdateCheck, UpdateRefused, UpdateRejected, UpdateWrite, Snapshot,
           CascadeDone, Commit, Announce
  <2> QED
    BY <2>1, <2>2, <2>3
<1>5. w \notin looking
  BY <1>4 DEF LineInv, PoolTypeOK, PlaceOK
<1>6. PlaceOK(w)'
  BY <1>1, <1>3, <1>5 DEF PlaceOK, InPool
<1> QED
  BY <1>1, <1>2, <1>6, BackKeeps

\* The announcement needs no connection, and whoever dies with one gives it back.
LEMMA EndKeeps ==
  ASSUME LineInv, IInv, NEW w \in Workers, PoolAnnounce(w) \/ PoolFail(w)
  PROVE  LineInv'
<1>1. /\ pc[w] # "idle" /\ pc'[w] = "idle" /\ \A v \in Workers \ {w} : pc'[v] = pc[v]
      /\ UNCHANGED <<waiting, looking, discarded>> /\ w \in Clients
  BY DEF PoolAnnounce, PoolFail, Announce, Fail, Rollback, Goto, poolVars, Clients,
         IInv, Structure, TypeOK
<1>2. w \notin looking
  BY <1>1 DEF LineInv, PoolTypeOK, PlaceOK
<1>3. ~InPool(w)' /\ holds' \in {holds, holds \ {w}}
  <2>1. CASE PoolAnnounce(w)
    BY <1>2, <2>1 DEF PoolAnnounce, Announce, poolVars, LineInv, PoolTypeOK, PlaceOK, InPool, Done
  <2>2. CASE PoolFail(w)
    BY <2>2 DEF PoolFail, InPool
  <2> QED
    BY <2>1, <2>2
<1>4. PlaceOK(w)'
  BY <1>1, <1>2, <1>3 DEF PlaceOK, Done
<1> QED
  BY <1>1, <1>3, <1>4, BackKeeps

\* Whoever gives up waiting is in the line no more.
LEMMA GiveUpKeeps ==
  ASSUME LineInv, IInv, NEW w \in Workers, GiveUp(w)
  PROVE  LineInv'
<1>1. /\ pc[w] # "idle" /\ pc'[w] = "idle" /\ \A v \in Workers \ {w} : pc'[v] = pc[v]
      /\ UNCHANGED <<holds, looking, discarded>> /\ w \in Clients /\ w # None
  BY NoneAssumption DEF GiveUp, Fail, Rollback, Goto, Clients, IInv, Structure, TypeOK
<1>2. DOMAIN waiting = 1..Len(waiting) /\ waiting \in Seq(Clients \cup {None})
  BY InLineAt DEF LineInv
<1>3. PICK i \in 1..Len(waiting) : waiting[i] = w /\ waiting' = [waiting EXCEPT ![i] = None]
  BY <1>2 DEF GiveUp
<1>4. /\ waiting' \in Seq(Clients \cup {None}) /\ OnePlaceEach(waiting')
      /\ \A c : c # None => (c \in ToSet(waiting') <=> c \in ToSet(waiting) /\ c # w)
  BY <1>1, <1>2, <1>3, LeavePlace DEF LineInv, PoolTypeOK
<1>5. w \in ToSet(waiting)
  BY <1>2, <1>3, InLineAt
<1>6. ToSet(waiting') \subseteq (Clients \cup {None}) \ holds'
  <2>1. ToSet(waiting') \subseteq Clients \cup {None}
    BY <1>4, InLineAt
  <2> QED
    BY <1>1, <1>4, <2>1, ClientNamed DEF LineInv, PoolTypeOK
<1>7. ASSUME NEW v \in Workers PROVE PlaceOK(v)'
  <2>1. CASE v = w
    <3>1. w \notin holds /\ w \notin looking
      BY <1>1, <1>5 DEF LineInv, PoolTypeOK, PlaceOK
    <3> QED
      BY <1>1, <1>4, <2>1, <3>1 DEF PlaceOK, InPool, Done
  <2>2. CASE v # w
    <3>1. InPool(v)' <=> InPool(v)
      BY <1>1, <1>4, <2>2, NoneAssumption DEF InPool
    <3> QED
      BY <1>1, <2>2, <3>1 DEF LineInv, PoolTypeOK, PlaceOK
  <2> QED
    BY <2>1, <2>2
<1>8. InUse' = InUse
  BY <1>1 DEF InUse
<1> QED
  BY <1>1, <1>4, <1>6, <1>7, <1>8 DEF LineInv, PoolTypeOK

\* Who comes to the line: a request with its first statement, one that goes on from there,
\* and the health check.
LEMMA ComersKeep ==
  ASSUME LineInv, (\E w \in Workers : Arrive(w) \/ Ask(w)) \/ AskHealth
  PROVE  LineInv'
<1>1. ASSUME NEW w \in Workers, Arrive(w) PROVE LineInv'
  <2>1. ~InPool(w)
    BY <1>1 DEF Arrive, LineInv, PoolTypeOK, PlaceOK, Done
  <2> QED
    BY <1>1, <2>1, JoinKeeps DEF Arrive, vars, Clients
<1>2. ASSUME NEW w \in Workers, Ask(w) PROVE LineInv'
  BY <1>2, JoinKeeps DEF Ask, vars, Clients
<1>3. CASE AskHealth
  BY <1>3, JoinKeeps, ClientNamed DEF AskHealth, vars
<1> QED
  BY <1>1, <1>2, <1>3

\* LineInv is inductive on the states of IInv.
LEMMA LineNext == IInv /\ LineInv /\ [PoolNext]_allVars => LineInv'
<1> SUFFICES ASSUME IInv, LineInv, [PoolNext]_allVars PROVE LineInv'
  OBVIOUS
<1>1. pc \in [Workers -> Labels]
  BY DEF IInv, Structure, TypeOK
<1>2. CASE AnswerHealth
  BY <1>2, BackKeeps, ClientNamed DEF AnswerHealth, vars
<1>3. ASSUME UNCHANGED <<poolVars, pc>> PROVE LineInv'
  BY <1>3 DEF poolVars, LineInv, PoolTypeOK, PlaceOK, InPool, InUse
<1>4. CASE (Tick /\ UNCHANGED poolVars) \/ UNCHANGED allVars
  BY <1>3, <1>4 DEF Tick, allVars, vars
<1>5. ASSUME NEW w \in Workers,
             \/ PoolStart(w) \/ PoolCreate(w) \/ Answered(w) \/ Connect(w)
             \/ Statement(w) \/ PoolAnnounce(w) \/ PoolFail(w) \/ GiveUp(w)
      PROVE  LineInv'
  BY <1>1, <1>5, LookupKeeps, ConnectServes, StatementKeeps, EndKeeps, GiveUpKeeps DEF Clients
<1>6. CASE Connect(Probe)
  BY <1>6, ConnectServes, ClientNamed
<1> QED
  BY <1>2, <1>4, <1>5, <1>6, LateServes, ComersKeep DEF PoolNext

\* Both invariants hold of the requests over their pool.
LEMMA LineInvariance == PoolSpec => [](IInv /\ LineInv)
  BY PoolIsBooking, Invariance, PoolStarts, LineNext, PTL DEF PoolSpec

\* Every request is in the line once, or has one connection, or needs none, and there
\* are never more connections than the pool may open: whoever gives up waiting leaves
\* the line, and no connection is lost with a request that dies.
THEOREM PoolCorrect == PoolSpec => []PoolTypeOK
<1>1. LineInv => PoolTypeOK
  BY DEF LineInv
<1> QED
  BY <1>1, LineInvariance, PTL

\* Only a request that has a connection keeps others from a row: nobody who waits for a
\* connection is waited for.
THEOREM LocksConnected == PoolSpec => []LocksAreConnected
<1>1. IInv /\ LineInv => LocksAreConnected
  <2> SUFFICES ASSUME IInv, LineInv PROVE LocksAreConnected
    OBVIOUS
  <2>1. ASSUME NEW w \in Workers, pc[w] \in HoldsEvent \cup {"sweep"} PROVE w \in holds
    BY <2>1 DEF LineInv, PoolTypeOK, PlaceOK, HoldsEvent, Opening, Done
  <2>2. /\ \A e \in Events : elock[e] # None => elock[e] \in Workers
        /\ \A r \in RegIds : rlock[r] # None => rlock[r] \in Workers
    BY DEF IInv, Structure, TypeOK
  <2> QED
    BY <2>1, <2>2 DEF LocksAreConnected, IInv, Structure, LockInv, RowInv
<1> QED
  BY <1>1, LineInvariance, PTL

\* While no event is called off, the requests never use up the connections for waiting:
\* look-ups and discarded transactions give theirs back, and when only transactions have
\* them, one of those can send its next statement.
THEOREM PoolGoesOn ==
  ASSUME "cancelEvent" \notin Menu
  PROVE  PoolSpec => []PoolMovesOn
<1>1. IInv /\ FoundInv /\ NoSweep /\ LineInv => PoolMovesOn
  <2> SUFFICES ASSUME IInv, FoundInv, NoSweep, LineInv, InUse = PoolMax, ~(discarded > 0),
                      \A c \in holds : c \notin looking \cup {Probe}
               PROVE  \E c \in holds : Ready(c)
    BY DEF PoolMovesOn, OnServiceClient
  <2>1. holds # {}
    <3>1. discarded = 0
      BY DEF LineInv, PoolTypeOK
    <3>2. holds = {} => Cardinality(holds) = 0
      BY FS_EmptySet
    <3> QED
      BY <3>1, <3>2, PoolMaxAssumption DEF InUse
  <2>2. PICK w \in holds : w \in Workers /\ pc[w] # "idle"
    BY <2>1 DEF LineInv, PoolTypeOK, PlaceOK, InPool, Clients, Done
  <2>3. CASE WaitsFor(w) = {}
    BY <2>2, <2>3, ReadyOrWaits DEF NothingStuck
  <2>4. ASSUME NEW v \in WaitsFor(w) PROVE v \in holds /\ Ready(v)
    <3>1. v \in Workers /\ pc[v] \in HoldsEvent
      BY <2>2, WaitedFor DEF NoSweep
    <3>2. v \in holds
      BY <3>1 DEF LineInv, PoolTypeOK, PlaceOK, HoldsEvent, Opening, Done
    <3>3. WaitsFor(v) = {} /\ pc[v] # "idle"
      BY <3>1, HolderGoesOn DEF HoldsEvent
    <3> QED
      BY <3>1, <3>2, <3>3, ReadyOrWaits DEF NothingStuck
  <2> QED
    BY <2>2, <2>3, <2>4
<1>2. Spec => [](IInv /\ NoSweep)
  BY NoSweepInvariance
<1> QED
  BY <1>1, <1>2, PoolIsBooking, FoundInvariance, LineInvariance, PTL
=============================================================================
