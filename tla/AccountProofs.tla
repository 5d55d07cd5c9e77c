---------------------------- MODULE AccountProofs ----------------------------
(***************************************************************************)
(* Proofs about who books and what is answered, in Booking and Accounts:   *)
(*   BookedOnce            Spec => []OneBooking                            *)
(*   AccountsAreBooking    AccountsSpec => Spec                            *)
(*   OneSeatPerPerson      AccountsSpec => []OnePersonOneSeat              *)
(*   AnswersDeclared       AccountsSpec => EveryAnswerDeclared, if no      *)
(*                         PATCH has a null where there may be none        *)
(* The index on active registrations is asked for the rows in doubt as     *)
(* well, so that no two versions of two rows, committed or not, are the    *)
(* same booking; the index on addresses tells people apart.                *)
(***************************************************************************)
EXTENDS Answers, RowProofs

-----------------------------------------------------------------------------
(* Versions of a row.                                                      *)

\* The committed version of a registration and, while it is locked, the other one.
Held(r) == {regs[r]} \cup {row \in {dirty[r]} : rlock[r] # None}

\* `y' is what an edit makes of the version `x': the same booking, and active only if
\* `x' is.
Heir(y, x) ==
  /\ y.event = x.event /\ y.attendee = x.attendee
  /\ x.status = "ABSENT" <=> y.status = "ABSENT"
  /\ y.status \in ActiveStatuses => x.status \in ActiveStatuses

\* What cancelling, promoting and deleting leave of a row.
LEMMA EditKeeps ==
  ASSUME NEW row \in RegRows, row.status # "ABSENT"
  PROVE  /\ Heir(Vacated(row), row)
         /\ row.status \in ActiveStatuses => Heir(Seated(row), row)
         /\ Heir([row EXCEPT !.status = "DELETED"], row)
  BY DEF Heir, Vacated, Seated, RegRows, ActiveStatuses

\* What a request sees of a row is one of its versions.
LEMMA SeenIsHeld ==
  ASSUME NEW w \in Workers, NEW r \in RegIds
  PROVE  Visible(w, r) \in Held(r) /\ regs[r] \in Held(r)
  BY NoneAssumption DEF Visible, Held

\* A write adds one version to one row.
LEMMA HeldAfterWrite ==
  ASSUME TypeOK, NEW w \in Workers, NEW r \in RegIds, NEW row, WriteRow(w, r, row),
         UNCHANGED regs
  PROVE  /\ Held(r)' = {regs[r], row}
         /\ \A s \in RegIds \ {r} : Held(s)' = Held(s)
  BY NoneAssumption DEF WriteRow, Held, TypeOK

\* A write of an heir leaves nothing but heirs.
LEMMA HeirsAfterWrite ==
  ASSUME TypeOK, NEW w \in Workers, NEW r \in RegIds, NEW row, WriteRow(w, r, row),
         UNCHANGED regs, NEW x \in Held(r), Heir(row, x)
  PROVE  \A s \in RegIds : \A y \in Held(s)' : \E z \in Held(s) : Heir(y, z)
<1>1. \A z : Heir(z, z)
  BY DEF Heir
<1>2. regs[r] \in Held(r)
  BY DEF Held
<1> QED
  BY <1>1, <1>2, HeldAfterWrite

\* Only register makes a booking; every other statement edits one, commits it or takes
\* it back.
LEMMA RowHistory ==
  ASSUME IInv, PInv, NEW w \in Workers, StepOf(w)
  PROVE  \/ RegisterInsert(w)
         \/ \A s \in RegIds : \A y \in Held(s)' : \E z \in Held(s) : Heir(y, z)
<1> USE DEF IInv, Structure
<1>0. \A z : Heir(z, z)
  BY DEF Heir
<1>1. \A r \in RegIds : Visible(w, r) \in RegRows /\ regs[r] \in RegRows
  BY VisibleType DEF TypeOK
<1>2. CASE CancelRow(w)
  <2> DEFINE r == req[w].reg
  <2>1. r \in RegIds /\ Visible(w, r).status # "ABSENT"
    BY <1>2 DEF CancelRow, RequestInv, RequestOK, OfEvent
  <2>2. WriteRow(w, r, Vacated(Visible(w, r))) /\ UNCHANGED regs
    BY <1>2 DEF CancelRow
  <2>3. Heir(Vacated(Visible(w, r)), Visible(w, r))
    BY <1>1, <2>1, EditKeeps
  <2> QED
    BY <2>1, <2>2, <2>3, SeenIsHeld, HeirsAfterWrite
<1>3. CASE PromoteRow(w)
  <2>1. PICK r \in req[w].todo : WriteRow(w, r, Seated(Visible(w, r)))
    BY <1>3 DEF PromoteRow, NextPromoted
  <2>2. r \in RegIds /\ UNCHANGED regs /\ Visible(w, r).status = "WAITLISTED"
    BY <1>3 DEF PromoteRow, TypeOK, Requests, PInv, Workerwise, WorkerOK
  <2>3. Heir(Seated(Visible(w, r)), Visible(w, r))
    BY <1>1, <2>2, EditKeeps DEF ActiveStatuses
  <2> QED
    BY <2>1, <2>2, <2>3, SeenIsHeld, HeirsAfterWrite
<1>4. CASE SweepRow(w)
  <2>1. PICK r \in req[w].todo : WriteRow(w, r, Vacated(regs[r])) /\ regs[r].status \in ActiveStatuses
    BY <1>4 DEF SweepRow
  <2>2. r \in RegIds /\ UNCHANGED regs /\ regs[r].status # "ABSENT"
    BY <1>4, <2>1 DEF SweepRow, TypeOK, Requests, ActiveStatuses
  <2>3. Heir(Vacated(regs[r]), regs[r])
    BY <1>1, <2>2, EditKeeps
  <2> QED
    BY <2>1, <2>2, <2>3, SeenIsHeld, HeirsAfterWrite
<1>5. CASE CascadeRow(w)
  <2>1. PICK r \in req[w].todo : WriteRow(w, r, [Visible(w, r) EXCEPT !.status = "DELETED"])
    BY <1>5 DEF CascadeRow
  <2>2. r \in RegIds /\ UNCHANGED regs /\ Visible(w, r).status # "ABSENT"
    BY <1>5 DEF CascadeRow, TypeOK, Requests, RequestInv, RequestOK, OfEvent
  <2>3. Heir([Visible(w, r) EXCEPT !.status = "DELETED"], Visible(w, r))
    BY <1>1, <2>2, EditKeeps
  <2> QED
    BY <2>1, <2>2, <2>3, SeenIsHeld, HeirsAfterWrite
<1>6. CASE \/ Reads(w) \/ Publish(w)
           \/ LockEvent(w) \/ CancelEvent(w) \/ DeleteEvent(w) \/ UpdateWrite(w)
  <2>1. UNCHANGED <<regs, dirty, rlock>>
    BY <1>6 DEF Reads, rowVars, Publish, LockEvent, CancelEvent, DeleteEvent, UpdateWrite
  <2> QED
    BY <1>0, <2>1 DEF Held
<1>7. CASE Ends(w) \/ Commit(w)
  <2>1. ASSUME NEW s \in RegIds PROVE Held(s)' \subseteq Held(s)
    <3>1. \/ rlock'[s] = None /\ regs'[s] \in Held(s)
          \/ rlock'[s] = rlock[s] /\ dirty'[s] = dirty[s] /\ regs'[s] = regs[s]
      BY <1>7, NoneAssumption DEF Ends, Commit, Release, Visible, Held
    <3> QED
      BY <3>1 DEF Held
  <2> QED
    BY <1>0, <2>1
<1> QED
  BY <1>2, <1>3, <1>4, <1>5, <1>6, <1>7, Kinds

-----------------------------------------------------------------------------
(* The index on active registrations.                                      *)

SamePlace(x, y) ==
  /\ x.status \in ActiveStatuses /\ y.status \in ActiveStatuses
  /\ x.event = y.event /\ x.attendee = y.attendee

\* No two rows are, or may become by a commit, the same active booking.
IndexInv ==
  \A r, s \in RegIds : \A x \in Held(r), y \in Held(s) : SamePlace(x, y) => r = s

\* A request that registers has written nothing before it inserts.
Registering == {"decide", "position", "insert"}

BlankInv ==
  \A w \in Workers : pc[w] \in Registering =>
    req[w].op = "register" /\ \A r \in RegIds : rlock[r] # w

\* The statements before an insert.
LEMMA RegisterSteps ==
  ASSUME IInv, NEW w \in Workers, StepOf(w), pc'[w] \in Registering
  PROVE  LockEvent(w) \/ RegisterDecide(w) \/ RegisterPosition(w)
<1> USE DEF Goto, IInv, Structure, TypeOK, Registering
<1>1. CASE Start(w)
  BY <1>1 DEF Start, StartRegister, StartCancelRegistration, StartUpdate, StartPublish,
              StartCancelEvent, StartRemove, Begin
<1>2. CASE Locking(w) /\ ~LockEvent(w)
  BY <1>2 DEF Locking, EventGone, RegisterInsert, RegisterDuplicate, CancelRow, PromoteRow,
              Publish, SweepRow, SkipRow, CancelEvent, DeleteEvent, CascadeRow, Rollback
<1>3. CASE Local(w)
  BY <1>3 DEF Local, RegisterRefused, Reread, AlreadyCancelled, Promote, UpdateCheck,
              UpdateRefused, UpdateRejected, UpdateWrite, Snapshot, CascadeDone, Commit,
              Announce, Rollback
<1>4. CASE Fail(w)
  BY <1>4 DEF Fail, Rollback
<1> QED
  BY <1>1, <1>2, <1>3, <1>4 DEF StepOf

\* Initially there are no rows.
LEMMA IndexInit == Init => IndexInv /\ BlankInv
<1> SUFFICES ASSUME Init PROVE IndexInv /\ BlankInv
  OBVIOUS
<1>1. \A r \in RegIds : Held(r) = {AbsentReg}
  BY DEF Init, Held
<1>2. AbsentReg.status \notin ActiveStatuses
  BY DEF AbsentReg, ActiveStatuses
<1>3. IndexInv
  BY <1>1, <1>2 DEF IndexInv, SamePlace
<1> QED
  BY <1>3 DEF Init, BlankInv, Registering

\* The insert finds nothing in its place, neither committed nor in doubt.
LEMMA IndexInsert ==
  ASSUME IInv, IndexInv, BlankInv, NEW w \in Workers, RegisterInsert(w)
  PROVE  IndexInv'
<1> DEFINE row == [status |-> req[w].status, event |-> req[w].event,
                   attendee |-> req[w].attendee, position |-> req[w].position]
<1>1. PICK r \in Fresh : WriteRow(w, r, row)
  BY DEF RegisterInsert
<1>2. /\ r \in RegIds /\ regs[r].status = "ABSENT" /\ UNCHANGED regs
      /\ pc[w] = "insert" /\ InDoubt(w) = {} /\ Taken(w) = {}
  BY DEF RegisterInsert, Fresh
<1>3. row.event = req[w].event /\ row.attendee = req[w].attendee
  OBVIOUS
<1> HIDE DEF row
<1>4. Held(r)' = {regs[r], row} /\ \A s \in RegIds \ {r} : Held(s)' = Held(s)
  BY <1>1, <1>2, HeldAfterWrite DEF IInv, Structure
<1>5. \A s \in RegIds : \A y \in Held(s) : ~SamePlace(row, y) /\ ~SamePlace(y, row)
  <2> SUFFICES ASSUME NEW s \in RegIds, NEW y \in Held(s), SameBooking(w, y) PROVE FALSE
    BY <1>3 DEF SamePlace, SameBooking
  <2>1. rlock[s] # w
    BY <1>2 DEF BlankInv, Registering
  <2>2. CASE RowFree(w, s)
    <3>1. Visible(w, s) = y
      BY <2>1, <2>2 DEF RowFree, Visible, Held
    <3> QED
      BY <1>2, <2>2, <3>1 DEF Taken
  <2>3. CASE ~RowFree(w, s)
    BY <1>2, <2>3 DEF InDoubt, Held
  <2> QED
    BY <2>2, <2>3
<1>6. ASSUME NEW y PROVE ~SamePlace(regs[r], y) /\ ~SamePlace(y, regs[r])
  BY <1>2 DEF SamePlace, ActiveStatuses
<1> QED
  BY <1>2, <1>4, <1>5, <1>6 DEF IndexInv

\* IndexInv and BlankInv are inductive on the states of the other invariants.
LEMMA IndexNext == IInv /\ PInv /\ IndexInv /\ BlankInv /\ [Next]_vars => IndexInv' /\ BlankInv'
<1> SUFFICES ASSUME IInv, PInv, IndexInv, BlankInv, [Next]_vars PROVE IndexInv' /\ BlankInv'
  OBVIOUS
<1>1. ASSUME NEW w \in Workers, StepOf(w) PROVE IndexInv'
  <2>1. CASE RegisterInsert(w)
    BY <2>1, IndexInsert
  <2>2. CASE \A s \in RegIds : \A y \in Held(s)' : \E z \in Held(s) : Heir(y, z)
    <3> SUFFICES ASSUME NEW r \in RegIds, NEW s \in RegIds, NEW x \in Held(r)', NEW y \in Held(s)',
                        SamePlace(x, y)
                 PROVE  r = s
      BY DEF IndexInv
    <3>1. PICK a \in Held(r) : Heir(x, a)
      BY <2>2
    <3>2. PICK b \in Held(s) : Heir(y, b)
      BY <2>2
    <3>3. SamePlace(a, b)
      BY <3>1, <3>2 DEF Heir, SamePlace
    <3> QED
      BY <3>3 DEF IndexInv
  <2> QED
    BY <1>1, <2>1, <2>2, RowHistory
<1>2. ASSUME NEW w \in Workers, StepOf(w) PROVE BlankInv'
  <2> SUFFICES ASSUME NEW v \in Workers, pc'[v] \in Registering
               PROVE  req'[v].op = "register" /\ \A r \in RegIds : rlock'[r] # v
    BY DEF BlankInv
  <2>1. CASE v # w
    <3>1. pc'[v] = pc[v] /\ req'[v] = req[v]
      BY <1>2, <2>1, OthersStay DEF IInv, Structure
    <3>2. \A r \in RegIds : rlock'[r] = v => rlock[r] = v
      BY <1>2, <2>1, OthersKeep, NoneAssumption
    <3> QED
      BY <3>1, <3>2 DEF BlankInv
  <2>2. CASE v = w
    <3>1. LockEvent(w) \/ RegisterDecide(w) \/ RegisterPosition(w)
      BY <1>2, <2>2, RegisterSteps
    <3>2. rlock' = rlock
      BY <3>1 DEF LockEvent, RegisterDecide, RegisterPosition, rowVars
    <3>3. CASE LockEvent(w)
      <4>1. pc[w] = "lock" /\ req'[w] = req[w] /\ pc'[w] = AfterLock(req[w].op)
            /\ req[w].op \in {"register", "cancelRegistration", "update"}
        BY <3>3 DEF LockEvent, Goto, IInv, Structure, TypeOK, RequestInv, RequestOK
      <4>2. req[w].op = "register"
        BY <2>2, <4>1 DEF AfterLock, Registering
      <4>3. \A r \in RegIds : rlock[r] # w
        BY <4>1, NoneAssumption DEF IInv, Structure, RowInv, HoldsEvent
      <4> QED
        BY <2>2, <3>2, <4>1, <4>2, <4>3
    <3>4. CASE RegisterDecide(w) \/ RegisterPosition(w)
      <4>1. req[w] \in Requests
        BY DEF IInv, Structure, TypeOK
      <4>2. \/ \E status : req'[w] = [req[w] EXCEPT !.status = status]
            \/ \E position : req'[w] = [req[w] EXCEPT !.position = position]
        <5>1. \A new : Note(w, new) => req'[w] = new
          BY DEF Note, IInv, Structure, TypeOK
        <5> QED
          BY <3>4, <5>1 DEF RegisterDecide, RegisterPosition
      <4>3. req'[w].op = req[w].op
        BY <4>1, <4>2 DEF Requests
      <4>4. pc[w] \in Registering
        BY <3>4 DEF RegisterDecide, RegisterPosition, Registering
      <4> QED
        BY <2>2, <3>2, <4>3, <4>4 DEF BlankInv
    <3> QED
      BY <3>1, <3>3, <3>4
  <2> QED
    BY <2>1, <2>2
<1>3. CASE UNCHANGED <<regs, dirty, rlock, pc, req>>
  BY <1>3 DEF IndexInv, BlankInv, Held
<1>4. (\E e \in Events, dto \in NewEvents : Create(e, dto)) \/ Tick \/ UNCHANGED vars
        => UNCHANGED <<regs, dirty, rlock, pc, req>>
  BY DEF Create, Tick, vars, rowVars
<1> QED
  BY <1>1, <1>2, <1>3, <1>4, NextCases

\* The index as the database declares it, on what is committed.
OneBooking ==
  \A r, s \in RegIds : SamePlace(regs[r], regs[s]) => r = s

\* What the proofs about accounts need of Booking.
LEMMA IndexInvariance == Spec => [](IInv /\ PInv /\ IndexInv /\ BlankInv)
  BY PromotionInvariance, IndexInit, IndexNext, PTL DEF Spec

\* No attendee ever has two active registrations for one event: two requests that insert
\* at the same time wait for each other's row, and the later one is refused.
THEOREM BookedOnce == Spec => []OneBooking
<1>1. IndexInv => OneBooking
  BY DEF IndexInv, OneBooking, Held
<1> QED
  BY <1>1, IndexInvariance, PTL

-----------------------------------------------------------------------------
(* Accounts.                                                               *)

\* Creating an account is not a step of Booking, and every other step of Accounts is.
LEMMA AccountStep ==
  ASSUME [AccountsNext]_accountVars
  PROVE  /\ [Next]_vars
         /\ \/ /\ UNCHANGED vars
               /\ \E a \in Attendees, address \in Addresses : CreateAttendee(a, address)
            \/ UNCHANGED email /\ \E w \in Workers : StepOf(w) /\ (Start(w) => Known(w)')
            \/ UNCHANGED <<email, regs, dirty, rlock, pc, req>>
<1>1. ASSUME NEW w \in Workers, StartKnown(w)
      PROVE  Next /\ UNCHANGED email /\ StepOf(w) /\ Known(w)'
  BY <1>1 DEF StartKnown, Next, StepOf
<1>2. ASSUME NEW w \in Workers, UNCHANGED email, Locking(w) \/ Local(w) \/ Fail(w)
      PROVE  Next /\ StepOf(w) /\ ~Start(w)
  <2>1. pc[w] # "idle"
    BY <1>2 DEF Locking, LockEvent, EventGone, RegisterInsert, RegisterDuplicate, CancelRow,
                PromoteRow, Publish, SweepRow, SkipRow, CancelEvent, DeleteEvent, CascadeRow,
                Local, RegisterDecide, RegisterRefused, RegisterPosition, Reread,
                AlreadyCancelled, Promote, UpdateCheck, UpdateRefused, UpdateRejected,
                UpdateWrite, Snapshot, CascadeDone, Commit, Announce, Fail
  <2>2. Start(w) => pc[w] = "idle"
    BY DEF Start, StartRegister, StartCancelRegistration, StartUpdate, StartPublish,
           StartCancelEvent, StartRemove, Begin
  <2> QED
    BY <1>2, <2>1, <2>2 DEF Next, StepOf
<1>3. CASE UNCHANGED email /\ (Tick \/ \E e \in Events, dto \in NewEvents : Create(e, dto))
  BY <1>3 DEF Next, Tick, Create, rowVars
<1>4. CASE UNCHANGED accountVars
  BY <1>4 DEF accountVars, vars
<1>5. ASSUME NEW a, NEW address, CreateAttendee(a, address) PROVE UNCHANGED vars
  BY <1>5 DEF CreateAttendee
<1> QED
  BY <1>1, <1>2, <1>3, <1>4, <1>5 DEF AccountsNext

\* Accounts only adds attendees to Booking: what is proved of Spec holds beside the
\* creation of accounts.
THEOREM AccountsAreBooking == AccountsSpec => Spec
<1>1. AccountsInit => Init
  BY DEF AccountsInit
<1>2. [AccountsNext]_accountVars => [Next]_vars
  BY AccountStep
<1> QED
  BY <1>1, <1>2, PTL DEF AccountsSpec, Spec

\* An address is known by its owner: the pipe has folded the ways to write it.
LEMMA FoldedAddress ==
  ASSUME NEW x \in Addresses, NEW y \in Addresses
  PROVE  x.who = y.who => lowerEmail(x) = lowerEmail(y)
  BY DEF Addresses, normaliseEmail, Spellings, lowerEmail

\* Nobody has two accounts, and whoever registers or is registered has one.
AccountInv ==
  /\ email \in [Attendees -> Addresses \cup {None}]
  /\ \A a, b \in Attendees :
       email[a] # None /\ email[b] # None /\ email[a].who = email[b].who => a = b
  /\ \A w \in Workers : req[w].op = "register" =>
       req[w].attendee \in Attendees /\ email[req[w].attendee] # None
  /\ \A r \in RegIds : \A x \in Held(r) : x.status # "ABSENT" =>
       x.attendee \in Attendees /\ email[x.attendee] # None

\* Initially nobody has an account, and nobody needs one.
LEMMA AccountInit == AccountsInit => AccountInv
<1> SUFFICES ASSUME AccountsInit PROVE AccountInv
  OBVIOUS
<1>1. \A r \in RegIds : Held(r) = {AbsentReg}
  BY DEF AccountsInit, Init, Held
<1>2. AbsentReg.status = "ABSENT"
  BY DEF AbsentReg
<1>3. \A w \in Workers : req[w].op # "register"
  BY DEF AccountsInit, Init, NoRequest
<1>4. \A a \in Attendees : email[a] = None
  BY DEF AccountsInit
<1> QED
  BY <1>1, <1>2, <1>3, <1>4 DEF AccountInv, AccountsInit

\* A request keeps its operation and its attendee from its start to its end.
LEMMA RequestKeeps ==
  ASSUME IInv, NEW w \in Workers, StepOf(w), ~Start(w), req'[w].op = "register"
  PROVE  req[w].op = "register" /\ req'[w].attendee = req[w].attendee
<1>1. \A new : Note(w, new) => req'[w] = new
  BY DEF Note, IInv, Structure, TypeOK
<1>2. \/ req'[w] = req[w] \/ req'[w] = NoRequest
      \/ \E status : req'[w] = [req[w] EXCEPT !.status = status]
      \/ \E position : req'[w] = [req[w] EXCEPT !.position = position]
      \/ \E todo : req'[w] = [req[w] EXCEPT !.todo = todo]
      \/ \E todo, promoted : req'[w] = [req[w] EXCEPT !.todo = todo, !.promoted = promoted]
  <2>1. CASE \/ LockEvent(w) \/ RegisterInsert(w) \/ CancelRow(w) \/ CancelEvent(w)
             \/ UpdateCheck(w) \/ UpdateWrite(w) \/ CascadeDone(w)
    BY <2>1 DEF LockEvent, RegisterInsert, CancelRow, CancelEvent, UpdateCheck, UpdateWrite,
                CascadeDone
  <2>2. CASE \/ EventGone(w) \/ RegisterDuplicate(w) \/ RegisterRefused(w) \/ Publish(w)
             \/ AlreadyCancelled(w) \/ UpdateRefused(w) \/ UpdateRejected(w) \/ Fail(w)
             \/ Announce(w) \/ Commit(w)
    BY <1>1, <2>2 DEF EventGone, RegisterDuplicate, RegisterRefused, Publish, AlreadyCancelled,
                UpdateRefused, UpdateRejected, Fail, Announce, Commit, Rollback
  <2>3. CASE RegisterDecide(w) \/ Reread(w) \/ RegisterPosition(w) \/ Promote(w)
    BY <1>1, <2>3 DEF RegisterDecide, Reread, RegisterPosition, Promote
  <2>4. CASE PromoteRow(w) \/ Snapshot(w) \/ SweepRow(w) \/ SkipRow(w) \/ CascadeRow(w)
             \/ DeleteEvent(w)
    BY <1>1, <2>4 DEF PromoteRow, Snapshot, SweepRow, SkipRow, CascadeRow, DeleteEvent
  <2> QED
    BY <2>1, <2>2, <2>3, <2>4 DEF StepOf, Locking, Local
<1>3. req[w] \in Requests
  BY DEF IInv, Structure, TypeOK
<1>4. NoRequest.op # "register"
  BY DEF NoRequest
<1> QED
  BY <1>2, <1>3, <1>4 DEF Requests

\* A request that starts is about an attendee whom register has looked up.
LEMMA StartLooksUp ==
  ASSUME IInv, NEW w \in Workers, Start(w), req'[w].op = "register"
  PROVE  req'[w].attendee \in Attendees
<1>1. \A op, label, request : Begin(w, op, label, request) => req'[w] = [request EXCEPT !.op = op]
  BY DEF Begin, Note, IInv, Structure, TypeOK
<1>2. ASSUME NEW e, NEW a \in Attendees, StartRegister(w, e, a) PROVE req'[w].attendee \in Attendees
  <2>1. req'[w] = [[NoRequest EXCEPT !.event = e, !.attendee = a] EXCEPT !.op = "register"]
    BY <1>1, <1>2 DEF StartRegister
  <2> QED
    BY <2>1 DEF NoRequest
<1>3. ASSUME NEW e, NEW patch, StartUpdate(w, e, patch) PROVE FALSE
  <2>1. req'[w] = [[NoRequest EXCEPT !.event = e, !.patch = patch] EXCEPT !.op = "update"]
    BY <1>1, <1>3 DEF StartUpdate
  <2> QED
    BY <2>1 DEF NoRequest
<1>4. ASSUME NEW r, StartCancelRegistration(w, r) PROVE FALSE
  <2>1. req'[w] = [[NoRequest EXCEPT !.reg = r, !.event = regs[r].event]
                     EXCEPT !.op = "cancelRegistration"]
    BY <1>1, <1>4 DEF StartCancelRegistration
  <2> QED
    BY <2>1 DEF NoRequest
<1>5. ASSUME NEW e, StartPublish(w, e) \/ StartCancelEvent(w, e) \/ StartRemove(w, e)
      PROVE  FALSE
  <2>1. \E op \in {"publish", "cancelEvent", "remove"} :
          req'[w] = [[NoRequest EXCEPT !.event = e] EXCEPT !.op = op]
    BY <1>1, <1>5 DEF StartPublish, StartCancelEvent, StartRemove
  <2> QED
    BY <2>1 DEF NoRequest
<1> QED
  BY <1>2, <1>3, <1>4, <1>5 DEF Start

\* AccountInv is inductive on the states of the other invariants.
LEMMA AccountNext ==
  IInv /\ PInv /\ BlankInv /\ AccountInv /\ [AccountsNext]_accountVars => AccountInv'
<1> SUFFICES ASSUME IInv, PInv, BlankInv, AccountInv, [AccountsNext]_accountVars
             PROVE  AccountInv'
  OBVIOUS
<1>1. ASSUME NEW a \in Attendees, NEW address \in Addresses, UNCHANGED vars,
             CreateAttendee(a, address)
      PROVE  AccountInv'
  <2>1. /\ email[a] = None /\ email' = [email EXCEPT ![a] = address]
        /\ \A b \in Attendees : email[b] # None => lowerEmail(email[b]) # lowerEmail(address)
    BY <1>1 DEF CreateAttendee, SameEmail
  <2>2. \A b \in Attendees : email'[b] = IF b = a THEN address ELSE email[b]
    BY <2>1 DEF AccountInv
  <2>3. \A b \in Attendees : email[b] # None => email'[b] = email[b]
    BY <2>1, <2>2
  <2>4. ASSUME NEW b \in Attendees, b # a, email[b] # None PROVE email[b].who # address.who
    BY <2>1, <2>4, FoldedAddress DEF AccountInv
  <2>5. \A b, c \in Attendees :
          email'[b] # None /\ email'[c] # None /\ email'[b].who = email'[c].who => b = c
    BY <2>2, <2>4 DEF AccountInv
  <2>6. \A r \in RegIds : Held(r)' = Held(r)
    BY <1>1 DEF vars, Held
  <2>7. req' = req
    BY <1>1 DEF vars
  <2> QED
    BY <2>1, <2>3, <2>5, <2>6, <2>7 DEF AccountInv
<1>2. ASSUME NEW w \in Workers, StepOf(w), UNCHANGED email, Start(w) => Known(w)'
      PROVE  AccountInv'
  <2>1. ASSUME NEW v \in Workers, req'[v].op = "register"
        PROVE  req'[v].attendee \in Attendees /\ email[req'[v].attendee] # None
    <3>1. CASE v # w
      BY <1>2, <2>1, <3>1, OthersStay DEF AccountInv, IInv, Structure
    <3>2. CASE v = w /\ Start(w)
      BY <1>2, <2>1, <3>2, StartLooksUp DEF Known
    <3>3. CASE v = w /\ ~Start(w)
      BY <1>2, <2>1, <3>3, RequestKeeps DEF AccountInv
    <3> QED
      BY <3>1, <3>2, <3>3
  <2>2. ASSUME NEW r \in RegIds, NEW x \in Held(r)', x.status # "ABSENT"
        PROVE  x.attendee \in Attendees /\ email[x.attendee] # None
    <3>1. CASE RegisterInsert(w)
      <4> DEFINE row == [status |-> req[w].status, event |-> req[w].event,
                         attendee |-> req[w].attendee, position |-> req[w].position]
      <4>1. PICK s \in Fresh : WriteRow(w, s, row)
        BY <3>1 DEF RegisterInsert
      <4>2. s \in RegIds /\ UNCHANGED regs /\ pc[w] = "insert"
        BY <3>1 DEF RegisterInsert, Fresh
      <4>3. row.attendee = req[w].attendee
        OBVIOUS
      <4>4. req[w].op = "register"
        BY <4>2 DEF BlankInv, Registering
      <4> HIDE DEF row
      <4>5. x = row \/ x \in Held(r)
        BY <4>1, <4>2, HeldAfterWrite, SeenIsHeld DEF IInv, Structure
      <4> QED
        BY <2>2, <4>3, <4>4, <4>5 DEF AccountInv
    <3>2. CASE \E z \in Held(r) : Heir(x, z)
      BY <2>2, <3>2 DEF Heir, AccountInv
    <3> QED
      BY <1>2, <3>1, <3>2, RowHistory
  <2> QED
    BY <1>2, <2>1, <2>2 DEF AccountInv
<1>3. CASE UNCHANGED <<email, regs, dirty, rlock, pc, req>>
  BY <1>3 DEF AccountInv, Held
<1> QED
  BY <1>1, <1>2, <1>3, AccountStep

\* All of it, of the requests beside the creation of accounts.
LEMMA AccountInvariance == AccountsSpec => [](IndexInv /\ AccountInv)
  BY AccountsAreBooking, IndexInvariance, AccountInit, AccountNext, PTL DEF AccountsSpec

\* Nobody holds two active registrations of one event, however the address is written,
\* however many requests book at once, and whoever cancels and comes back.
THEOREM OneSeatPerPerson == AccountsSpec => []OnePersonOneSeat
<1>1. IndexInv /\ AccountInv => OnePersonOneSeat
  <2> SUFFICES ASSUME IndexInv, AccountInv, NEW e \in Events,
                      NEW r \in UNION {Committed(e, status) : status \in ActiveStatuses},
                      NEW s \in UNION {Committed(e, status) : status \in ActiveStatuses},
                      email[regs[r].attendee].who = email[regs[s].attendee].who
               PROVE  r = s
    BY DEF OnePersonOneSeat
  <2>1. /\ r \in RegIds /\ regs[r].event = e /\ regs[r].status \in ActiveStatuses
        /\ s \in RegIds /\ regs[s].event = e /\ regs[s].status \in ActiveStatuses
    BY DEF Committed
  <2>2. regs[r] \in Held(r) /\ regs[s] \in Held(s)
    BY DEF Held
  <2>3. regs[r].attendee = regs[s].attendee
    BY <2>1, <2>2 DEF AccountInv, ActiveStatuses
  <2> QED
    BY <2>1, <2>2, <2>3 DEF IndexInv, SamePlace
<1> QED
  BY <1>1, AccountInvariance, PTL

-----------------------------------------------------------------------------
(* What the requests are answered with.                                    *)

\* A name of a handler belongs to one controller only.
LEMMA RouteIn ==
  ASSUME NEW controller \in Controllers, NEW name \in DOMAIN controller,
         \A c \in Controllers : name \in DOMAIN c => c = controller
  PROVE  Routes[name] = controller[name]
<1> DEFINE chosen == CHOOSE c \in Controllers : name \in DOMAIN c
<1>1. chosen \in Controllers /\ name \in DOMAIN chosen
  OBVIOUS
<1>2. chosen = controller
  BY <1>1
<1>3. name \in UNION {DOMAIN c : c \in Controllers}
  OBVIOUS
<1>4. Routes[name] = chosen[name]
  BY <1>3 DEF Routes
<1> QED
  BY <1>2, <1>4

\* What the operations of Booking and of Accounts declare.
LEMMA Declarations ==
  /\ {400, 404, 409} \subseteq Routes["register"].declares
  /\ {404, 409} \subseteq Routes["cancelRegistration"].declares
  /\ {400, 404, 409} \subseteq Routes["update"].declares
  /\ \A op \in {"publish", "cancelEvent", "remove"} : {404, 409} \subseteq Routes[op].declares
  /\ \A op \in {"findAttendee", "findRegistrations"} : 404 \in Routes[op].declares
  /\ 409 \in Routes["createAttendee"].declares
<1>1. /\ DOMAIN EventsController =
           {"findAll", "create", "findOne", "update", "publish", "cancelEvent", "remove"}
      /\ DOMAIN EventRegistrationsController = {"register", "findForEvent"}
      /\ DOMAIN EventWaitlistController = {"findWaitlist"}
      /\ DOMAIN RegistrationsController = {"findRegistration", "cancelRegistration"}
      /\ DOMAIN AttendeesController = {"createAttendee", "findAttendee", "findRegistrations"}
      /\ DOMAIN HealthController = {"check"}
  BY DEF EventsController, EventRegistrationsController, EventWaitlistController,
         RegistrationsController, AttendeesController, HealthController
<1>2. ASSUME NEW name \in {"update", "publish", "cancelEvent", "remove"}
      PROVE  Routes[name] = EventsController[name]
  BY <1>1, RouteIn DEF Controllers
<1>3. Routes["register"] = EventRegistrationsController["register"]
  BY <1>1, RouteIn DEF Controllers
<1>4. Routes["cancelRegistration"] = RegistrationsController["cancelRegistration"]
  BY <1>1, RouteIn DEF Controllers
<1>5. ASSUME NEW name \in {"createAttendee", "findAttendee", "findRegistrations"}
      PROVE  Routes[name] = AttendeesController[name]
  BY <1>1, RouteIn DEF Controllers
<1> QED
  BY <1>2, <1>3, <1>4, <1>5
     DEF EventsController, EventRegistrationsController, RegistrationsController,
         AttendeesController, Route

\* The statuses of the exceptions that are thrown.
LEMMA Statuses ==
  /\ toProblem(Domain("ResourceNotFoundError")) = 404
  /\ toProblem(Domain("ValidationFailedError")) = 400
  /\ toProblem(Domain("TransitionNotAllowedError")) = 409
  /\ toProblem(Domain("RuleViolationError")) = 409
  /\ toProblem(Driver("P2002")) = 409
  /\ toProblem(Driver("P2025")) = 404
<1>1. ASSUME NEW class \in DOMAIN DomainStatus
      PROVE  toProblem(Domain(class)) = DomainStatus[class]
  BY DEF toProblem, Domain
<1>2. ASSUME NEW code \in DOMAIN mapPrismaError
      PROVE  toProblem(Driver(code)) = DomainStatus[mapPrismaError[code]]
  BY DEF toProblem, Driver
<1> QED
  BY <1>1, <1>2 DEF DomainStatus, mapPrismaError

\* What is refused at the first look is declared.
LEMMA AtOnceDeclared == RefusedAtOnce
<1>1. ASSUME NEW op \in {"publish", "cancelEvent", "remove"}, NEW e \in Events
      PROVE  AreDeclared(op, ThrownAtOnce(op, e))
  BY Declarations, Statuses DEF AreDeclared, ThrownAtOnce
<1>2. ASSUME NEW op \in {"register", "findAttendee", "findRegistrations"}, NEW a \in Attendees
      PROVE  AreDeclared(op, ThrownAtLookup(a))
  BY Declarations, Statuses DEF AreDeclared, ThrownAtLookup
<1>3. ASSUME NEW address \in Addresses
      PROVE  AreDeclared("createAttendee", ThrownByCreate(address))
  BY Declarations, Statuses DEF AreDeclared, ThrownByCreate
<1> QED
  BY <1>1, <1>2, <1>3 DEF RefusedAtOnce

\* What ends a request later is declared for the operation that the request is in the
\* middle of.
LEMMA ThrownDeclared ==
  ASSUME IInv, CourseInv, NEW w \in Workers, \A patch \in Patches : Nulls(patch) = {}
  PROVE  AreDeclared(req[w].op, Thrown(w))
<1> DEFINE op == req[w].op
<1>1. CASE EventGone(w)
  <2>1. Thrown(w) = {IF pc[w] = "lock" THEN Domain("ResourceNotFoundError") ELSE Driver("P2025")}
    BY <1>1 DEF Thrown, EventGone, RegisterRefused, RegisterDuplicate, AlreadyCancelled,
                UpdateRefused, UpdateRejected
  <2>2. op \in {"register", "cancelRegistration", "update", "publish", "cancelEvent", "remove"}
    BY <1>1, CourseOf DEF EventGone, IInv, Structure, RequestInv, RequestOK
  <2> QED
    BY <2>1, <2>2, Declarations, Statuses DEF AreDeclared
<1>2. CASE RegisterRefused(w)
  <2>1. Thrown(w) = {Domain("RuleViolationError")}
    BY <1>2 DEF Thrown, EventGone, RegisterRefused, RegisterDuplicate, AlreadyCancelled,
                UpdateRefused, UpdateRejected
  <2>2. op = "register"
    BY <1>2, CourseOf DEF RegisterRefused
  <2> QED
    BY <2>1, <2>2, Declarations, Statuses DEF AreDeclared
<1>3. CASE RegisterDuplicate(w)
  <2>1. Thrown(w) = {Driver("P2002")}
    BY <1>3 DEF Thrown, EventGone, RegisterRefused, RegisterDuplicate, AlreadyCancelled,
                UpdateRefused, UpdateRejected
  <2>2. op = "register"
    BY <1>3, CourseOf DEF RegisterDuplicate
  <2> QED
    BY <2>1, <2>2, Declarations, Statuses DEF AreDeclared
<1>4. CASE AlreadyCancelled(w)
  <2>1. Thrown(w) = {Domain("TransitionNotAllowedError")}
    BY <1>4 DEF Thrown, EventGone, RegisterRefused, RegisterDuplicate, AlreadyCancelled,
                UpdateRefused, UpdateRejected
  <2>2. op = "cancelRegistration"
    BY <1>4, CourseOf DEF AlreadyCancelled
  <2> QED
    BY <2>1, <2>2, Declarations, Statuses DEF AreDeclared
<1>5. CASE UpdateRefused(w)
  <2>1. Thrown(w) = {Domain(UpdateError(w))}
    BY <1>5 DEF Thrown, EventGone, RegisterRefused, RegisterDuplicate, AlreadyCancelled,
                UpdateRefused, UpdateRejected
  <2>2. op = "update"
    BY <1>5, CourseOf DEF UpdateRefused
  <2>3. UpdateError(w) \in
          {"TransitionNotAllowedError", "ValidationFailedError", "RuleViolationError"}
    BY DEF UpdateError
  <2> QED
    BY <2>1, <2>2, <2>3, Declarations, Statuses DEF AreDeclared
<1>6. ~UpdateRejected(w)
  BY DEF UpdateRejected, IInv, Structure, RequestInv, RequestOK
<1>7. CASE ~(\/ EventGone(w) \/ RegisterRefused(w) \/ RegisterDuplicate(w)
            \/ AlreadyCancelled(w) \/ UpdateRefused(w))
  <2>1. Thrown(w) = {}
    BY <1>6, <1>7 DEF Thrown
  <2> QED
    BY <2>1 DEF AreDeclared
<1> QED
  BY <1>1, <1>2, <1>3, <1>4, <1>5, <1>7

\* Whatever a request is refused for, at its first look or in a race that it loses, the
\* status of the answer is one that the API document declares for the operation; the
\* one exception is a PATCH that puts a null where there may be none.
THEOREM AnswersDeclared ==
  ASSUME \A patch \in Patches : Nulls(patch) = {}
  PROVE  AccountsSpec => EveryAnswerDeclared
<1>1. IInv /\ CourseInv => \A w \in Workers : AreDeclared(req[w].op, Thrown(w))
  BY ThrownDeclared
<1> QED
  BY <1>1, AtOnceDeclared, AccountsAreBooking, CourseInvariance, PTL DEF EveryAnswerDeclared
=============================================================================
