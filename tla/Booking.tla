------------------------------- MODULE Booking -------------------------------
(***************************************************************************)
(* The write paths of the event-booking service over its PostgreSQL rows:  *)
(* EventsService, RegistrationsService and WaitlistService, statement by   *)
(* statement, for any number of requests in flight.                        *)
(*                                                                         *)
(* A worker is one in-flight HTTP request.  The database is modelled at    *)
(* READ COMMITTED: a statement sees the committed rows overlaid with the   *)
(* writes of its own transaction (Visible, VisibleEvent); a row written or *)
(* selected FOR UPDATE stays locked until the transaction ends, and a      *)
(* statement that needs a locked row waits.  Reads of rows that only the   *)
(* holder of the event lock can change are merged into one step            *)
(* (WritesUnderLock is the property that justifies it); every read that is *)
(* made before a lock is taken is a step of its own.                       *)
(***************************************************************************)
EXTENDS EventRules

CONSTANTS
  Workers,     \* requests in flight at the same time
  Events,      \* ids of events that may be created
  Attendees,   \* ids of the attendees that exist (none is ever deleted)
  None,        \* no worker, no event, no attendee
  MaxRegs,     \* BOUND: registrations ever inserted
  MaxTime,     \* BOUND: the clock stops here
  NewEvents,   \* CreateEventDto values: event records without a status
  Patches,     \* UpdateEventDto values: functions on the fields they carry
  Menu         \* which operations clients call

RegIds == 1..MaxRegs

EventRows ==
  [status : EventStatuses \cup {"ABSENT", "DELETED"}, capacity : Nat,
   waitlistEnabled : BOOLEAN, startsAt : Nat, endsAt : Nat,
   registrationOpensAt : Nat \cup {Null}, registrationClosesAt : Nat \cup {Null}]

RegRows ==
  [status : ActiveStatuses \cup {"CANCELLED", "ABSENT", "DELETED"},
   event : Events \cup {None}, attendee : Attendees \cup {None},
   position : Nat \cup {Null}]

AbsentEvent ==
  [status |-> "ABSENT", capacity |-> 0, waitlistEnabled |-> FALSE, startsAt |-> 0,
   endsAt |-> 0, registrationOpensAt |-> Null, registrationClosesAt |-> Null]

AbsentReg ==
  [status |-> "ABSENT", event |-> None, attendee |-> None, position |-> Null]

\* A field of a PATCH body: absent means "leave the column alone".
Given(patch, field, stored) == IF field \in DOMAIN patch THEN patch[field] ELSE stored

\* The columns that are NOT NULL.  UpdateEventDto is PartialType(CreateEventDto), whose
\* IsOptional lets a null through for them as well.  (A null for the venue or for
\* waitlistEnabled, which no rule looks at, is what one for the title is.)
NotNull == {"title", "startsAt", "endsAt", "capacity"}

Nulls(patch) == {field \in DOMAIN patch \cap NotNull : patch[field] = Null}

\* dto.field ?? existing.field
Kept(patch, field, stored) ==
  IF field \in Nulls(patch) THEN stored ELSE Given(patch, field, stored)

\* The row as it will be once the patch is written, and as the rules see it.
Merge(row, patch) ==
  [status |-> row.status,
   capacity |-> Kept(patch, "capacity", row.capacity),
   waitlistEnabled |-> Given(patch, "waitlistEnabled", row.waitlistEnabled),
   startsAt |-> Kept(patch, "startsAt", row.startsAt),
   endsAt |-> Kept(patch, "endsAt", row.endsAt),
   registrationOpensAt |-> Given(patch, "registrationOpensAt", row.registrationOpensAt),
   registrationClosesAt |-> Given(patch, "registrationClosesAt", row.registrationClosesAt)]

NewRow(dto) == [AbsentEvent EXCEPT
  !.status = "DRAFT", !.capacity = dto.capacity, !.waitlistEnabled = dto.waitlistEnabled,
  !.startsAt = dto.startsAt, !.endsAt = dto.endsAt,
  !.registrationOpensAt = dto.registrationOpensAt,
  !.registrationClosesAt = dto.registrationClosesAt]

NoPatch == [x \in {} |-> Null]

ASSUME WorkersAssumption == IsFiniteSet(Workers)
ASSUME MaxRegsAssumption == MaxRegs \in Nat
ASSUME NoneAssumption == None \notin Workers \cup Events \cup Attendees
ASSUME NewEventsAssumption ==
  \A dto \in NewEvents : NewRow(dto) \in EventRows /\ dto.capacity > 0
ASSUME PatchesAssumption ==
  \A patch \in Patches :
    LET Carries(field, values) == field \in DOMAIN patch => patch[field] \in values
    IN  /\ Carries("title", {Null})
        /\ Carries("capacity", (Nat \ {0}) \cup {Null})
        /\ Carries("waitlistEnabled", BOOLEAN)
        /\ Carries("startsAt", Nat \cup {Null})
        /\ Carries("endsAt", Nat \cup {Null})
        /\ Carries("registrationOpensAt", Nat \cup {Null})
        /\ Carries("registrationClosesAt", Nat \cup {Null})

Labels == {"idle", "lock", "decide", "position", "insert", "reread", "cancelRow",
           "promote", "promoteRow", "check", "write", "publish", "snapshot", "sweep",
           "delete", "cascade", "commit", "announce"}

Operations == {"register", "cancelRegistration", "update", "publish", "cancelEvent", "remove"}

Requests ==
  [op : Operations \cup {"none"}, event : Events \cup {None}, reg : RegIds \cup {None},
   attendee : Attendees \cup {None}, patch : Patches \cup {NoPatch},
   status : ActiveStatuses \cup {"none"}, position : Nat \cup {Null},
   todo : SUBSET RegIds, promoted : SUBSET RegIds]

NoRequest ==
  [op |-> "none", event |-> None, reg |-> None, attendee |-> None, patch |-> NoPatch,
   status |-> "none", position |-> Null, todo |-> {}, promoted |-> {}]

VARIABLES
  events,   \* committed rows of the events table
  edirty,   \* the uncommitted version of a locked event row
  elock,    \* the transaction that holds an event row, or None
  regs,     \* committed rows of the registrations table
  dirty,    \* the uncommitted version of a locked registration row
  rlock,    \* the transaction that holds a registration row, or None
  pc,       \* the next statement of each request
  req,      \* what each request was asked and has read so far
  mail,     \* how often the promotion of a registration was announced
  now       \* the Clock provider

vars == <<events, edirty, elock, regs, dirty, rlock, pc, req, mail, now>>
rowVars == <<events, edirty, elock, regs, dirty, rlock>>

TypeOK ==
  /\ events \in [Events -> EventRows]
  /\ edirty \in [Events -> EventRows]
  /\ elock \in [Events -> Workers \cup {None}]
  /\ regs \in [RegIds -> RegRows]
  /\ dirty \in [RegIds -> RegRows]
  /\ rlock \in [RegIds -> Workers \cup {None}]
  /\ pc \in [Workers -> Labels]
  /\ req \in [Workers -> Requests]
  /\ mail \in [RegIds -> Nat]
  /\ now \in Nat

Init ==
  /\ events = [e \in Events |-> AbsentEvent]
  /\ edirty = [e \in Events |-> AbsentEvent]
  /\ elock = [e \in Events |-> None]
  /\ regs = [r \in RegIds |-> AbsentReg]
  /\ dirty = [r \in RegIds |-> AbsentReg]
  /\ rlock = [r \in RegIds |-> None]
  /\ pc = [w \in Workers |-> "idle"]
  /\ req = [w \in Workers |-> NoRequest]
  /\ mail = [r \in RegIds |-> 0]
  /\ now = 0

-----------------------------------------------------------------------------
(* Statements.                                                             *)

Visible(w, r) == IF rlock[r] = w THEN dirty[r] ELSE regs[r]
VisibleEvent(w, e) == IF elock[e] = w THEN edirty[e] ELSE events[e]

\* The registrations of `e' with this status, as worker w's statements see them.
Rows(w, e, status) ==
  {r \in RegIds : Visible(w, r).event = e /\ Visible(w, r).status = status}

\* The same for a reader outside any transaction.
Committed(e, status) == {r \in RegIds : regs[r].event = e /\ regs[r].status = status}

Ticket(w) == [r \in RegIds |-> Visible(w, r).position]

Exists(e) == events[e].status \in EventStatuses

Goto(w, label) == pc' = [pc EXCEPT ![w] = label]
Note(w, new) == req' = [req EXCEPT ![w] = new]

\* Mutant of EventFree: the count and the insert in a transaction, but no row lock.
NoForUpdate(w, e) == TRUE

\* Mutant of EventFree: one lock for the whole table.
TableLock(w, e) == \A f \in Events : elock[f] \in {None, w}

\* SELECT ... FOR UPDATE, and any UPDATE or DELETE of an event row, waits here.
EventFree(w, e) == elock[e] \in {None, w}
RowFree(w, r) == rlock[r] \in {None, w}

TakeEvent(w, e, row) ==
  /\ elock' = [elock EXCEPT ![e] = w]
  /\ edirty' = [edirty EXCEPT ![e] = row]

WriteRow(w, r, row) ==
  /\ RowFree(w, r)
  /\ rlock' = [rlock EXCEPT ![r] = w]
  /\ dirty' = [dirty EXCEPT ![r] = row]

\* The end of a transaction gives every lock back.
Release(w) ==
  /\ elock' = [e \in Events |-> IF elock[e] = w THEN None ELSE elock[e]]
  /\ edirty' = [e \in Events |-> IF elock[e] = w THEN AbsentEvent ELSE edirty[e]]
  /\ rlock' = [r \in RegIds |-> IF rlock[r] = w THEN None ELSE rlock[r]]
  /\ dirty' = [r \in RegIds |-> IF rlock[r] = w THEN AbsentReg ELSE dirty[r]]

\* Mutant of Rollback: the request is answered and its transaction left open.
LeakedTransaction(w) ==
  /\ Goto(w, "idle")
  /\ Note(w, NoRequest)
  /\ UNCHANGED <<rowVars, mail, now>>

\* An exception inside $transaction: nothing of it is kept, the client is refused.
Rollback(w) ==
  /\ Release(w)
  /\ Goto(w, "idle")
  /\ Note(w, NoRequest)
  /\ UNCHANGED <<events, regs, mail, now>>

Begin(w, op, label, request) ==
  /\ pc[w] = "idle"
  /\ op \in Menu
  /\ Goto(w, label)
  /\ Note(w, [request EXCEPT !.op = op])
  /\ UNCHANGED <<rowVars, mail, now>>

-----------------------------------------------------------------------------
(* EventsService.create: one INSERT, no lock.                              *)

Create(e, dto) ==
  /\ "create" \in Menu
  /\ events[e].status = "ABSENT"
  /\ Coherent(dto)
  /\ events' = [events EXCEPT ![e] = NewRow(dto)]
  /\ UNCHANGED <<edirty, elock, regs, dirty, rlock, pc, req, mail, now>>

-----------------------------------------------------------------------------
(* SELECT id FROM events WHERE id = $1 FOR UPDATE, with which register,    *)
(* cancel and update open their transaction.                               *)

AfterLock(op) ==
  CASE op = "register" -> "decide"
    [] op = "cancelRegistration" -> "reread"
    [] op = "update" -> "check"

\* Mutant of LockEvent: a plain SELECT.
SelectEvent(w) ==
  /\ pc[w] = "lock"
  /\ Exists(req[w].event)
  /\ Goto(w, AfterLock(req[w].op))
  /\ UNCHANGED <<rowVars, req, mail, now>>

LockEvent(w) ==
  /\ pc[w] = "lock"
  /\ EventFree(w, req[w].event)
  /\ Exists(req[w].event)
  /\ TakeEvent(w, req[w].event, events[req[w].event])
  /\ Goto(w, AfterLock(req[w].op))
  /\ UNCHANGED <<events, regs, dirty, rlock, req, mail, now>>

\* The statement that needs the event row finds none: 404, nothing kept.
EventGone(w) ==
  /\ pc[w] \in {"lock", "publish", "delete"} \/ (pc[w] = "sweep" /\ req[w].todo = {})
  /\ EventFree(w, req[w].event)
  /\ ~Exists(req[w].event)
  /\ Rollback(w)

-----------------------------------------------------------------------------
(* RegistrationsService.register.  The attendee is looked up before the    *)
(* transaction; attendees are never deleted, so that read stays true.      *)

\* BOUND: a request starts only while a row is left for what it may insert.
RoomForRow ==
  Cardinality({w \in Workers : req[w].op = "register"})
    < Cardinality({r \in RegIds : regs[r].status = "ABSENT"})

StartRegister(w, e, a) ==
  /\ RoomForRow
  /\ Begin(w, "register", "lock", [NoRequest EXCEPT !.event = e, !.attendee = a])

Decision(w) ==
  decideRegistration(VisibleEvent(w, req[w].event), now,
                     Cardinality(Rows(w, req[w].event, "CONFIRMED")))

\* Mutant of RegisterDecide: the outcome is inserted without looking for a refusal.
DecideWithoutRefusal(w) ==
  /\ pc[w] = "decide"
  /\ Note(w, [req[w] EXCEPT !.status = Decision(w)])
  /\ Goto(w, IF Decision(w) = "WAITLISTED" THEN "position" ELSE "insert")
  /\ UNCHANGED <<rowVars, mail, now>>

RegisterDecide(w) ==
  /\ pc[w] = "decide"
  /\ Decision(w) \in ActiveStatuses
  /\ Note(w, [req[w] EXCEPT !.status = Decision(w)])
  /\ Goto(w, IF Decision(w) = "WAITLISTED" THEN "position" ELSE "insert")
  /\ UNCHANGED <<rowVars, mail, now>>

RegisterRefused(w) ==
  /\ pc[w] = "decide"
  /\ Decision(w) \in REGISTRATION_REFUSALS
  /\ Rollback(w)

\* The tickets of those who wait for the event of the request.
WaitingTickets(w) == {Ticket(w)[r] : r \in Rows(w, req[w].event, "WAITLISTED")} \ {Null}

RegisterPosition(w) ==
  /\ pc[w] = "position"
  /\ \E next \in nextWaitlistPosition(WaitingTickets(w)) :
       Note(w, [req[w] EXCEPT !.position = next])
  /\ Goto(w, "insert")
  /\ UNCHANGED <<rowVars, mail, now>>

\* ux_registration_active: the rows whose committed, or uncommitted, version
\* would collide with the row to insert.
SameBooking(w, row) ==
  row.event = req[w].event /\ row.attendee = req[w].attendee /\ row.status \in ActiveStatuses

InDoubt(w) == {r \in RegIds : ~RowFree(w, r) /\ (SameBooking(w, regs[r]) \/ SameBooking(w, dirty[r]))}
Taken(w)   == {r \in RegIds : RowFree(w, r) /\ SameBooking(w, Visible(w, r))}

Fresh == {r \in RegIds : regs[r].status = "ABSENT" /\ rlock[r] = None}

RegisterInsert(w) ==
  /\ pc[w] = "insert"
  /\ InDoubt(w) \cup Taken(w) = {}
  /\ \E r \in Fresh :
       /\ \A s \in Fresh : r <= s
       /\ WriteRow(w, r, [status |-> req[w].status, event |-> req[w].event,
                          attendee |-> req[w].attendee, position |-> req[w].position])
  /\ Goto(w, "commit")
  /\ UNCHANGED <<events, edirty, elock, regs, req, mail, now>>

\* P2002 on the partial index, answered 409.
RegisterDuplicate(w) ==
  /\ pc[w] = "insert"
  /\ InDoubt(w) = {} /\ Taken(w) # {}
  /\ Rollback(w)

-----------------------------------------------------------------------------
(* RegistrationsService.cancel and WaitlistService.promote.                *)

\* requireRegistration, outside the transaction: only the event id is kept.
StartCancelRegistration(w, r) ==
  /\ regs[r].status \in ActiveStatuses \cup {"CANCELLED"}
  /\ Begin(w, "cancelRegistration", "lock",
           [NoRequest EXCEPT !.reg = r, !.event = regs[r].event])

\* The re-read inside the lock.  The row is there: a locked event row exists and
\* its registrations go only with it.
Reread(w) ==
  /\ pc[w] = "reread"
  /\ Visible(w, req[w].reg).status \in ActiveStatuses
  /\ Note(w, [req[w] EXCEPT !.status = Visible(w, req[w].reg).status])
  /\ Goto(w, "cancelRow")
  /\ UNCHANGED <<rowVars, mail, now>>

AlreadyCancelled(w) ==
  /\ pc[w] = "reread"
  /\ Visible(w, req[w].reg).status = "CANCELLED"
  /\ Rollback(w)

\* Only a confirmed seat frees a seat.
FreesSeat(status) == status = "CONFIRMED"

Vacated(row) == [row EXCEPT !.status = "CANCELLED", !.position = Null]
Seated(row)  == [row EXCEPT !.status = "CONFIRMED", !.position = Null]

CancelRow(w) ==
  /\ pc[w] = "cancelRow"
  /\ WriteRow(w, req[w].reg, Vacated(Visible(w, req[w].reg)))
  /\ Goto(w, IF FreesSeat(req[w].status) THEN "promote" ELSE "commit")
  /\ UNCHANGED <<events, edirty, elock, regs, req, mail, now>>

\* capacity, confirmed count and queue, and the choice made from them.
Promote(w) ==
  /\ pc[w] = "promote"
  /\ LET e     == req[w].event
         seats == seatsAvailable(VisibleEvent(w, e).capacity,
                                 Cardinality(Rows(w, e, "CONFIRMED")))
     IN  \E chosen \in selectForPromotion(Rows(w, e, "WAITLISTED"), Ticket(w), seats) :
           /\ Note(w, [req[w] EXCEPT !.todo = chosen, !.promoted = chosen])
           /\ Goto(w, IF chosen = {} THEN "commit" ELSE "promoteRow")
  /\ UNCHANGED <<rowVars, mail, now>>

\* One UPDATE per chosen row, front of the queue first.
NextPromoted(w) ==
  {r \in req[w].todo : \A s \in req[w].todo \ {r} : Before(Ticket(w), r, s)}

\* Mutant of PromoteRow: the listener is told from inside the transaction.
PromoteAndAnnounce(w) ==
  /\ pc[w] = "promoteRow"
  /\ \E r \in NextPromoted(w) :
       /\ WriteRow(w, r, Seated(Visible(w, r)))
       /\ Note(w, [req[w] EXCEPT !.todo = @ \ {r}, !.promoted = @ \ {r}])
       /\ Goto(w, IF req[w].todo = {r} THEN "commit" ELSE "promoteRow")
       /\ mail' = [mail EXCEPT ![r] = @ + 1]
  /\ UNCHANGED <<events, edirty, elock, regs, now>>

PromoteRow(w) ==
  /\ pc[w] = "promoteRow"
  /\ \E r \in NextPromoted(w) :
       /\ WriteRow(w, r, Seated(Visible(w, r)))
       /\ Note(w, [req[w] EXCEPT !.todo = @ \ {r}])
       /\ Goto(w, IF req[w].todo = {r} THEN "commit" ELSE "promoteRow")
  /\ UNCHANGED <<events, edirty, elock, regs, mail, now>>

\* After the commit, never inside it.
Announce(w) ==
  /\ pc[w] = "announce"
  /\ mail' = [r \in RegIds |-> IF r \in req[w].promoted THEN mail[r] + 1 ELSE mail[r]]
  /\ Goto(w, "idle")
  /\ Note(w, NoRequest)
  /\ UNCHANGED <<rowVars, now>>

-----------------------------------------------------------------------------
(* EventsService.update.                                                   *)

StartUpdate(w, e, patch) ==
  Begin(w, "update", "lock", [NoRequest EXCEPT !.event = e, !.patch = patch])

Patched(w) == Merge(VisibleEvent(w, req[w].event), req[w].patch)

\* dto.capacity in a comparison, where null counts as 0.
AskedCapacity(w) == IF "capacity" \in Nulls(req[w].patch) THEN 0 ELSE Patched(w).capacity

\* capacity-covers-confirmed, consulted only when the capacity shrinks.
CapacityCovers(w) ==
  AskedCapacity(w) < VisibleEvent(w, req[w].event).capacity
    => Cardinality(Rows(w, req[w].event, "CONFIRMED")) <= AskedCapacity(w)

\* Mutant of UpdateAllowed: the schedule rules see only the fields of the PATCH.
ChecksBodyOnly(w) ==
  /\ VisibleEvent(w, req[w].event).status # "CANCELLED"
  /\ {"startsAt", "endsAt"} \subseteq DOMAIN req[w].patch => Coherent(Patched(w))
  /\ CapacityCovers(w)

UpdateAllowed(w) ==
  /\ VisibleEvent(w, req[w].event).status # "CANCELLED"
  /\ Coherent(Patched(w))
  /\ CapacityCovers(w)

UpdateCheck(w) ==
  /\ pc[w] = "check"
  /\ UpdateAllowed(w)
  /\ Goto(w, "write")
  /\ UNCHANGED <<rowVars, req, mail, now>>

UpdateRefused(w) ==
  /\ pc[w] = "check"
  /\ ~UpdateAllowed(w)
  /\ Rollback(w)

\* Mutant of GrewCapacity: an edit never serves the queue.
NeverGrew(w) == FALSE

GrewCapacity(w) == Patched(w).capacity > VisibleEvent(w, req[w].event).capacity

\* The client of the database refuses to build an UPDATE with a null for a column
\* that is NOT NULL: an exception of its own, without a code.
UpdateRejected(w) ==
  /\ pc[w] = "write"
  /\ Nulls(req[w].patch) # {}
  /\ Rollback(w)

UpdateWrite(w) ==
  /\ pc[w] = "write"
  /\ Nulls(req[w].patch) = {}
  /\ TakeEvent(w, req[w].event, Patched(w))
  /\ Goto(w, IF GrewCapacity(w) THEN "promote" ELSE "commit")
  /\ UNCHANGED <<events, regs, dirty, rlock, req, mail, now>>

-----------------------------------------------------------------------------
(* EventsService.runAction and remove.  Each decides on a status it read   *)
(* outside any transaction.                                                *)

StartPublish(w, e) ==
  /\ Exists(e) /\ applyAction(events[e].status, "publish") # {}
  /\ Begin(w, "publish", "publish", [NoRequest EXCEPT !.event = e])

\* One UPDATE by id, which commits by itself and does not look at the status.
Publish(w) ==
  /\ pc[w] = "publish"
  /\ EventFree(w, req[w].event)
  /\ Exists(req[w].event)
  /\ events' = [events EXCEPT ![req[w].event].status = "PUBLISHED"]
  /\ Goto(w, "idle")
  /\ Note(w, NoRequest)
  /\ UNCHANGED <<edirty, elock, regs, dirty, rlock, mail, now>>

StartCancelEvent(w, e) ==
  /\ Exists(e) /\ applyAction(events[e].status, "cancel") # {}
  /\ Begin(w, "cancelEvent", "snapshot", [NoRequest EXCEPT !.event = e])

\* registration.updateMany: the rows its snapshot finds, ...
Snapshot(w) ==
  /\ pc[w] = "snapshot"
  /\ Note(w, [req[w] EXCEPT !.todo = UNION {Rows(w, req[w].event, s) : s \in ActiveStatuses}])
  /\ Goto(w, "sweep")
  /\ UNCHANGED <<rowVars, mail, now>>

\* ... locked one after the other, each re-checked once its lock is granted.
SweepRow(w) ==
  /\ pc[w] = "sweep"
  /\ \E r \in req[w].todo :
       /\ regs[r].status \in ActiveStatuses
       /\ WriteRow(w, r, Vacated(regs[r]))
       /\ Note(w, [req[w] EXCEPT !.todo = @ \ {r}])
  /\ UNCHANGED <<events, edirty, elock, regs, pc, mail, now>>

SkipRow(w) ==
  /\ pc[w] = "sweep"
  /\ \E r \in req[w].todo :
       /\ RowFree(w, r)
       /\ regs[r].status \notin ActiveStatuses
       /\ Note(w, [req[w] EXCEPT !.todo = @ \ {r}])
  /\ UNCHANGED <<rowVars, pc, mail, now>>

\* event.update, by id, in the same transaction.
CancelEvent(w) ==
  /\ pc[w] = "sweep" /\ req[w].todo = {}
  /\ EventFree(w, req[w].event)
  /\ Exists(req[w].event)
  /\ TakeEvent(w, req[w].event, [events[req[w].event] EXCEPT !.status = "CANCELLED"])
  /\ Goto(w, "commit")
  /\ UNCHANGED <<events, regs, dirty, rlock, req, mail, now>>

StartRemove(w, e) ==
  /\ Exists(e) /\ canDelete(events[e].status)
  /\ Begin(w, "remove", "delete", [NoRequest EXCEPT !.event = e])

\* DELETE by id; the foreign key then deletes every registration of the event.
DeleteEvent(w) ==
  /\ pc[w] = "delete"
  /\ EventFree(w, req[w].event)
  /\ Exists(req[w].event)
  /\ TakeEvent(w, req[w].event, [events[req[w].event] EXCEPT !.status = "DELETED"])
  /\ Note(w, [req[w] EXCEPT !.todo = UNION {Rows(w, req[w].event, s) :
                                              s \in ActiveStatuses \cup {"CANCELLED"}}])
  /\ Goto(w, "cascade")
  /\ UNCHANGED <<events, regs, dirty, rlock, mail, now>>

CascadeRow(w) ==
  /\ pc[w] = "cascade"
  /\ \E r \in req[w].todo :
       /\ WriteRow(w, r, [Visible(w, r) EXCEPT !.status = "DELETED"])
       /\ Note(w, [req[w] EXCEPT !.todo = @ \ {r}])
  /\ UNCHANGED <<events, edirty, elock, regs, pc, mail, now>>

CascadeDone(w) ==
  /\ pc[w] = "cascade" /\ req[w].todo = {}
  /\ Goto(w, "commit")
  /\ UNCHANGED <<rowVars, req, mail, now>>

-----------------------------------------------------------------------------
(* The end of a request.                                                   *)

\* Mutant of Commit: what was promoted is not handed on to announce.
CommitQuietly(w) ==
  /\ pc[w] = "commit"
  /\ events' = [e \in Events |-> VisibleEvent(w, e)]
  /\ regs' = [r \in RegIds |-> Visible(w, r)]
  /\ Release(w)
  /\ Goto(w, "idle") /\ Note(w, NoRequest)
  /\ UNCHANGED <<mail, now>>

Commit(w) ==
  /\ pc[w] = "commit"
  /\ events' = [e \in Events |-> VisibleEvent(w, e)]
  /\ regs' = [r \in RegIds |-> Visible(w, r)]
  /\ Release(w)
  /\ IF req[w].promoted = {}
       THEN Goto(w, "idle") /\ Note(w, NoRequest)
       ELSE Goto(w, "announce") /\ UNCHANGED req
  /\ UNCHANGED <<mail, now>>

\* A request dies: the transaction exceeds TRANSACTION_OPTIONS, PostgreSQL picks it
\* as the victim of a deadlock, the connection drops, the process is killed.  The
\* transaction is rolled back; after the commit only the announcement is lost.
Fail(w) ==
  /\ "fail" \in Menu
  /\ pc[w] # "idle"
  /\ Rollback(w)

Tick ==
  /\ now < MaxTime
  /\ now' = now + 1
  /\ UNCHANGED <<rowVars, pc, req, mail>>

-----------------------------------------------------------------------------

Start(w) ==
  \/ \E e \in Events, a \in Attendees : StartRegister(w, e, a)
  \/ \E r \in RegIds : StartCancelRegistration(w, r)
  \/ \E e \in Events, patch \in Patches : StartUpdate(w, e, patch)
  \/ \E e \in Events : StartPublish(w, e)
  \/ \E e \in Events : StartCancelEvent(w, e)
  \/ \E e \in Events : StartRemove(w, e)

\* The statements that may have to wait for a row another transaction holds.
Locking(w) ==
  \/ LockEvent(w)
  \/ EventGone(w)
  \/ RegisterInsert(w)
  \/ RegisterDuplicate(w)
  \/ CancelRow(w)
  \/ PromoteRow(w)
  \/ Publish(w)
  \/ SweepRow(w)
  \/ SkipRow(w)
  \/ CancelEvent(w)
  \/ DeleteEvent(w)
  \/ CascadeRow(w)

\* The statements that never wait.
Local(w) ==
  \/ RegisterDecide(w)
  \/ RegisterRefused(w)
  \/ RegisterPosition(w)
  \/ Reread(w)
  \/ AlreadyCancelled(w)
  \/ Promote(w)
  \/ UpdateCheck(w)
  \/ UpdateRefused(w)
  \/ UpdateRejected(w)
  \/ UpdateWrite(w)
  \/ Snapshot(w)
  \/ CascadeDone(w)
  \/ Commit(w)
  \/ Announce(w)

Next ==
  \/ \E e \in Events, dto \in NewEvents : Create(e, dto)
  \/ \E w \in Workers : Start(w) \/ Locking(w) \/ Local(w) \/ Fail(w)
  \/ Tick

Spec == Init /\ [][Next]_vars

-----------------------------------------------------------------------------
(* Who waits for whom.                                                     *)

WaitsFor(w) ==
  LET eventHolder == {elock[e] : e \in {req[w].event}}
      holders(rows) == {rlock[r] : r \in rows}
  IN  ( CASE pc[w] \in {"lock", "publish", "delete"} -> eventHolder
          [] pc[w] = "sweep" /\ req[w].todo = {} -> eventHolder
          [] pc[w] = "insert" -> holders(InDoubt(w))
          [] pc[w] = "cancelRow" -> holders({req[w].reg})
          [] pc[w] = "promoteRow" -> holders(NextPromoted(w))
          [] pc[w] \in {"sweep", "cascade"} /\ req[w].todo # {}
               /\ \A r \in req[w].todo : ~RowFree(w, r) -> holders(req[w].todo)
          [] OTHER -> {} ) \ {None, w}

\* The next statement of a request can be executed: the rows it needs are free, and what
\* it finds in them leads on.
Ready(w) ==
  LET e    == req[w].event
      todo == req[w].todo
      seats == seatsAvailable(VisibleEvent(w, e).capacity, Cardinality(Rows(w, e, "CONFIRMED")))
      Free(rows) == \E r \in rows : RowFree(w, r)
  IN  CASE pc[w] = "idle" -> FALSE
        [] pc[w] \in {"lock", "publish", "delete"} -> EventFree(w, e)
        [] pc[w] = "sweep" /\ todo = {} -> EventFree(w, e)
        [] pc[w] \in {"sweep", "cascade"} /\ todo # {} -> Free(todo)
        [] pc[w] = "decide" -> Decision(w) \in ActiveStatuses \cup REGISTRATION_REFUSALS
        [] pc[w] = "position" -> nextWaitlistPosition(WaitingTickets(w)) # {}
        [] pc[w] = "insert" -> InDoubt(w) = {} /\ Taken(w) \cup Fresh # {}
        [] pc[w] = "reread" ->
             Visible(w, req[w].reg).status \in ActiveStatuses \cup {"CANCELLED"}
        [] pc[w] = "cancelRow" -> Free({req[w].reg})
        [] pc[w] = "promote" ->
             selectForPromotion(Rows(w, e, "WAITLISTED"), Ticket(w), seats) # {}
        [] pc[w] = "promoteRow" -> Free(NextPromoted(w))
        [] OTHER -> TRUE

\* A set of requests each of which waits for another one of the set: no statement
\* of any of them can ever be granted.
WaitCycle(S) ==
  /\ S # {}
  /\ \A w \in S : WaitsFor(w) \cap S # {} /\ \E v \in S : w \in WaitsFor(v)

-----------------------------------------------------------------------------
(* Properties.                                                             *)

\* No event ever has more confirmed seats than capacity, whatever registrations,
\* cancellations, promotions and capacity edits run at the same time.
NoOverbooking ==
  \A e \in Events : Cardinality(Committed(e, "CONFIRMED")) <= events[e].capacity

\* Nobody is kept waiting beside a free seat: every commit that frees a seat or
\* adds one serves the queue in the same transaction.
QueueServed ==
  \A e \in Events : Committed(e, "WAITLISTED") # {} =>
    Cardinality(Committed(e, "CONFIRMED")) >= events[e].capacity

\* Everybody who waits holds a ticket, and no two people hold the same place in
\* the queue of an event.
DistinctTickets ==
  \A e \in Events : \A r, s \in Committed(e, "WAITLISTED") :
    /\ regs[r].position # Null
    /\ regs[r].position = regs[s].position => r = s

\* What a step does to the committed status of a registration.
Becomes(r, from, to) == regs[r].status \in from /\ regs'[r].status \in to

\* A promotion takes the front of the queue: whoever held a lower ticket has left
\* the queue by the time the promotion is visible.
ServedInOrder ==
  [][\A r, s \in RegIds :
       /\ Becomes(r, {"WAITLISTED"}, {"CONFIRMED"})
       /\ Becomes(s, {"WAITLISTED"}, {"WAITLISTED"})
       /\ regs[r].event = regs[s].event
       => Before([q \in RegIds |-> regs[q].position], r, s)]_vars

\* Whoever writes a registration has locked its event first: the order in which
\* rows are locked, which keeps requests from waiting for each other in a circle.
\* Cancelling an event is the one operation that does not follow it.
EventLockedFirst ==
  \A r \in RegIds : rlock[r] # None => elock[dirty[r].event] = rlock[r]

\* A cancelled registration is never revived, by a promotion that chose it before
\* it was cancelled or by anything else.
NoRevival ==
  [][\A r \in RegIds : ~Becomes(r, {"CANCELLED"}, ActiveStatuses)]_vars

\* The announcement of a promotion is made once, and only of a promotion that is
\* in the database.
AnnouncedOnceWhenTrue ==
  \A r \in RegIds :
    /\ mail[r] <= 1
    /\ mail[r] = 1 => regs[r].status \in {"CONFIRMED", "CANCELLED", "DELETED"}

\* Every promotion that is committed leaves a request that has yet to announce it:
\* what is not announced was lost by a process that died after its commit.
PromotionOwed ==
  [][\A r \in RegIds : Becomes(r, {"WAITLISTED"}, {"CONFIRMED"}) =>
       \E w \in Workers : pc'[w] = "announce" /\ r \in req'[w].promoted]_vars

\* In a step of request w its transaction commits, with this version of registration r.
CommitsRow(w, r) ==
  /\ pc[w] = "commit" /\ pc'[w] \in {"idle", "announce"}
  /\ rlock[r] = w /\ regs'[r] = dirty[r]

\* The committed registrations of an event change only in the commit of the very
\* transaction that holds the event row: what a transaction that holds it has read about
\* them changes by nobody else's writes.
WritesUnderLock ==
  [][\A r \in RegIds : regs'[r] # regs[r] =>
       \E w \in Workers : CommitsRow(w, r) /\ elock[regs'[r].event] = w]_vars

\* PATCHes of single fields, interleaved, never leave an event with a schedule
\* that a POST of the same event would have refused.
ScheduleStaysCoherent ==
  \A e \in Events : Exists(e) => Coherent(events[e])

\* Every registration that exists belongs to an event that exists.
NoOrphans ==
  \A r \in RegIds : regs[r].status \in ActiveStatuses \cup {"CANCELLED"} => Exists(regs[r].event)

\* A rush on one event does not delay another: a request whose event no other
\* request is about never waits.
RushIsLocal ==
  \A w \in Workers :
    /\ pc[w] # "idle"
    /\ \A v \in Workers \ {w} : req[v].event # req[w].event
    => Ready(w)

\* A request that has begun can go on, or waits for a row that another one holds: what it
\* finds never leaves it without a next statement, as a registration deleted under a
\* cancellation would, or a promotion of nobody.
NothingStuck ==
  \A w \in Workers : pc[w] # "idle" => Ready(w) \/ WaitsFor(w) # {}

-----------------------------------------------------------------------------
(* What the repository says and the code does not keep; see the README.    *)

\* README: "Cancels the event and every registration on it".
CancelledEventEmpty ==
  \A e \in Events : events[e].status = "CANCELLED" =>
    \A s \in ActiveStatuses : Committed(e, s) = {}

\* event-status.ts: "CANCELLED is terminal -- it cannot be republished".
CancelledIsTerminal ==
  [][\A e \in Events : events[e].status = "CANCELLED" => events'[e].status = "CANCELLED"]_vars

\* event-status.ts: "Deleting is allowed only while the event is a draft", since
\* "a delete would cascade [registrations] away without a trace".
RegistrationsKept ==
  [][\A r \in RegIds : ~Becomes(r, ActiveStatuses \cup {"CANCELLED"}, {"DELETED"})]_vars

\* README: "FOR UPDATE makes contenders wait instead of fail".
NoWaitCycle == \A S \in SUBSET Workers : ~WaitCycle(S)
=============================================================================
