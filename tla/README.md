# Event booking: specification, model checking and proofs

TLA+ specifications of the event-booking service in `src/`: a NestJS application that lets
organisers publish events and attendees book seats, over PostgreSQL through Prisma. What makes
the service hard is not its rules, which are short, but that several requests apply them to the
same rows at once. The specifications therefore follow the write paths statement by statement,
with the row locks and the isolation level PostgreSQL gives them.

Paths below are relative to `src/`; the TypeScript sources are in its subdirectory `src/`.

## 1. The system

| Component | State it keeps | Operations | Where |
| --- | --- | --- | --- |
| Events | rows of `events`: status, capacity, waitlistEnabled, schedule | `create`, `update`, `publish`, `cancel`, `remove`, `findAll`, `findOne` | `src/events/events.service.ts` |
| Registrations | rows of `registrations`: status, event, attendee, ticket | `register`, `cancel`, and reads | `src/registrations/registrations.service.ts` |
| Waitlist | none of its own; rows of `registrations` | `promote` (inside the caller's transaction), `announce` (after it) | `src/registrations/waitlist.service.ts` |
| Rules | none: pure functions | state machine, schedule rules, registration decision, queue order | `src/events/event-status.ts`, `event-schedule.ts`, `src/registrations/policy/*` |
| Promotion listener | none; writes a log line | handles `registration.promoted` | `src/registrations/events/*` |
| Database schema | row locks, versions, cascade, partial unique index | | `prisma/schema.prisma`, `prisma/migrations` |
| Clock | the time | `now` | `src/common/clock` |
| Listing | none | sort and page parameters, page, total, counts | `src/common/dto/*`, `events.service.ts` |
| Attendees | rows of `attendees`, unique by `lower(email)` | `create`, reads; looked up by `register` | `src/attendees` |
| Connection pool | `poolMax` connections and the line for them | a statement borrows one, a `$transaction` keeps one: it waits `maxWait` for it and has `timeout` to finish | `src/prisma/prisma.service.ts` |
| HTTP surface and error mapping | none that changes after start | guards, pipes, exception filter | controllers, `src/configure-app.ts`, `src/common` |
| Health | none | `GET /health`: one query through the same pool | `src/health` |
| Configuration | none that changes after start | | `src/config` |

**How they interact.** A controller calls one service method. `register`, `cancel` of a
registration and `update` open a transaction with `SELECT ... FOR UPDATE` on the event row, read
what they need, decide by the rules, write, and commit. `cancel` and `update` call
`WaitlistService.promote` inside their transaction, and `announce` after it, which emits an event to
the listener in the same process. `publish`, `cancel` of an event and `remove` are different: they
read the status of the event first, outside any transaction, decide on it, and then write by id.
The services share nothing but the rows and the
connections they reach them by.

**What is hard.**

- Two transactions on one event: the count of seats, the insert, the promotion and the capacity
  check are all reads followed by writes, and only the row lock makes them true together.
- State read before the lock and used after it: the event a registration belongs to, the status
  that `publish`, `cancel` and `remove` decide on.
- Locks taken in different orders: cancelling an event locks registrations first, the event last;
  everybody else the other way round.
- Failures at any statement: the transaction's 10 s run out, PostgreSQL aborts a deadlock victim,
  the process dies between the commit and the announcement.
- A pool of connections that is smaller than the number of requests: a request that waits for a row
  keeps its connection while it waits, and the one that holds the row must not need a second one.
- Order: tickets, ids and the queue that is sorted in memory; pages of a table whose sort keys are
  equal.
- A sequence of PATCHes, each of one field, that are checked against the merged row.

**What makes each part correct.** Events: a schedule that `POST` would refuse is never reached by
`PATCH`; a cancelled event stays cancelled and has no active registration; a delete loses no
registration. Registrations: no more confirmed seats than capacity; one active registration per
attendee and event; a cancelled registration is never revived. Attendees: one person, however the
address is written, has one row and one seat. Waitlist: nobody waits beside a free seat; the front
of the queue is served first; an announcement is made at most once, and only of what is in the
database, and every promotion that is committed leaves a request that owes one. Pool: the requests
that have the connections are never all stuck. Everything: every request is answered, and a rush on
one event does not delay another.

## 2. Modules

| Module | What it is |
| --- | --- |
| `EventRules` | the pure rules as operators: `applyAction`, `canDelete`, `ScheduleViolations`, `decideRegistration`, `selectForPromotion`, `Before`, `nextWaitlistPosition` |
| `Booking` | all write paths over the rows, for any number of requests in flight |
| `Accounts` | `Booking` beside the creation of attendees: the address, its normalisation, the unique index, and the look-up in `register` |
| `Pool` | `Booking` over `PoolMax` connections, with the line for them, `maxWait` and the health check |
| `SeatLedger` | the abstract specification: seats and a line, one atomic step per arrival, departure, change of capacity or closing; no rows, locks, tickets or requests |
| `BookingLedger` | the refinement mapping from `Booking` to `SeatLedger` |
| `Listing` | `Booking` with a reader: `findAll` and `findOne` as the separate statements they are |
| `Paging` | sort parameter, page size, page arithmetic, and the orders in which the database may return rows; pure operators |
| `Problems` | the routes with what they require and declare, the guards and pipes before a handler, and the exception filter; pure operators |
| `Answers` | for each statement that ends a request of `Booking` or `Accounts`, the exception the code throws and the status it becomes |
| `RulesCheck` | `EventRules`, `Paging` and `Problems` checked rule against rule and against second definitions |
| `RuleProofs` | lemmas about sequences that list a set in an order, and about the rules of the queue: its order, the choice, the next ticket |
| `BookingProofs` | the inductive invariant `IInv`, the theorems that follow from it, and lemmas about any one step: which shapes it may have, what it leaves to the other requests, and which statements an operation goes through |
| `RowProofs` | the theorems about the rows: of events (dates, foreign keys), of promotions, and of the queue |
| `LedgerProofs` | the steps of the refinement of `SeatLedger` |
| `WaitProofs` | who waits for whom: `Booking` and `Pool` never get stuck, and `Pool` only delays `Booking` |
| `AccountProofs`, `ListingProofs` | that `Accounts` and `Listing` do nothing to the rows that `Booking` does not, and the theorems about people, answers and responses |
| `RulesCheckProofs` | the theorems about the rules of `RulesCheck`, for any number of instants, entries and rows |
| `MCBooking`, `MCLedger`, `MCPool`, `MCListing` | values of the constants for the model checker |

`Accounts`, `Pool`, `Listing` and `BookingLedger` each extend `Booking`; `Answers` extends `Accounts`
and `Problems`; `MCLedger` puts `Accounts`, `Answers` and `BookingLedger` together.

### How `Booking` corresponds to the code

A **worker** is one HTTP request in flight. Its program counter `pc[w]` is its next SQL statement
(or the `announce` after the commit), and `req[w]` holds its parameters and what it has read so
far: the local variables of the service method.

| Variable | In the system |
| --- | --- |
| `events`, `regs` | the committed rows; status `"ABSENT"` is a row not inserted yet, `"DELETED"` one that is gone |
| `elock`, `rlock` | which transaction holds a row: `FOR UPDATE`, `UPDATE`, `DELETE` or an uncommitted `INSERT` |
| `edirty`, `dirty` | the version of a locked row its transaction has written; kept at a fixed value when nothing is locked |
| `mail` | how many times the promotion of a registration was announced |
| `now` | the `Clock` provider |

PostgreSQL is modelled at READ COMMITTED, the level the service runs at: `Visible` and
`VisibleEvent` give the committed row, or the transaction's own version of it. A statement that
needs a locked row is not enabled until the row is free. `Commit` installs the versions and gives
back the locks; `Rollback` gives back the locks.

| Code | Actions |
| --- | --- |
| `EventsService.create` | `Create` |
| `register` | `StartRegister`, `LockEvent` or `EventGone`, `RegisterDecide` or `RegisterRefused`, `RegisterPosition` (when waitlisted), `RegisterInsert` or `RegisterDuplicate`, `Commit` |
| `cancel` of a registration | `StartCancelRegistration` (the read before the lock), `LockEvent`, `Reread` or `AlreadyCancelled`, `CancelRow`, then `Promote` and `PromoteRow` if a seat came free, `Commit`, `Announce` |
| `update` | `StartUpdate`, `LockEvent`, `UpdateCheck` or `UpdateRefused`, `UpdateWrite` or `UpdateRejected` (a `null` for a column that is not nullable), then `Promote` and `PromoteRow` if the capacity grew, `Commit`, `Announce` |
| `publish` | `StartPublish` (read and check), `Publish` (update by id) |
| `cancel` of an event | `StartCancelEvent` (read and check), `Snapshot`, `SweepRow` or `SkipRow` for each row the `updateMany` found, `CancelEvent`, `Commit` |
| `remove` | `StartRemove` (read and check), `DeleteEvent`, `CascadeRow` for each registration, `CascadeDone`, `Commit` |
| any exception, timeout, lost connection, kill | `Fail` |

Three points deserve a word.

- *Merged reads.* `RegisterDecide` reads the event and the count in one step, and `Promote` the
  capacity, the count and the queue, though the code has a statement for each. They are made under
  the event lock, and `WritesUnderLock` (checked, and proved for all instances) says that a
  registration changes only in the commit of the very request that has locked it and holds the row
  of its event. While one request reads under that lock, no other one can change what it reads, so
  nobody can tell the difference. Reads made *before* a lock are steps of their own.
- *`updateMany`* is one SQL statement, but it locks rows one after the other and re-checks each
  when its lock is granted, so it is a snapshot followed by one step per row.
- *The unique index.* An insert that would duplicate an uncommitted row waits for that
  transaction (`InDoubt`), then fails (`RegisterDuplicate`) or goes on.

`Accounts` adds the column `email`. An address is a person and a way to write it (upper case, spaces
around it). `CreateAttendee` normalises it as the DTO does and inserts it unless the index on
`lower(email)` finds it already there; `register` starts only for an attendee whose row is there
(`StartKnown`), as the look-up before its transaction demands. Attendees are never deleted, so that
look-up stays true; `Booking` alone treats them as a constant set.

`Pool` adds `holds`, the requests that have a connection, and `waiting`, the line for one, which
`pg` serves first come first. A request comes with a look-up outside any transaction, or it is a
read or the `INSERT` of `create`: that statement stands in the line as its own (`Arrive`, with the
request in `looking`), gets a connection (`Connect`) and gives it back when it ends. What it finds
decides: the request goes on (`PoolStart`), has inserted its event (`PoolCreate`), or is answered
(`Answered`: no such row, a status that does not allow it, or a `GET`). Only `update` has no look-up.
A request that goes on asks for a connection again (`Ask`), for its `$transaction` or for the one write by id of `publish` and `remove`, and others
may have come between. It runs each statement on the connection it gets (`Statement`) and gives it
back with the one that ends the transaction; `announce` runs without one. The transaction's timeout
and a lost connection are `PoolFail`, at any moment once it has begun. `OnServiceClient` names the statements inside a
transaction that are sent on `this.prisma` instead of `tx`; there is none, and `PoolMovesOn` shows
what the first one would do. The health check (`Probe`) is a client like the others.

`maxWait` is `GiveUp`: the request is refused, and its place stays in the line, for nobody (`None`),
because `prisma.service.ts` gives `pg` no `connectionTimeoutMillis`. When its turn comes, `pg` hands it a
connection all the same (`ConnectLate`). That Prisma then rolls back what it has begun and gives
the connection back (`Discard`) is an assumption about the library; until then the connection counts
as taken. Statements outside a transaction have no `maxWait` and wait without a limit.

In `SeatLedger` a hall opens (`Open`), people join, leave and are served, the hall is resized, and it
closes for good (`Close`), which is what deleting an event looks like from outside.

Not in the model: titles, venues, time stamps and messages; validation of the fields of a request
body (the inputs are the bodies that pass it, a `PATCH` with a `null` included).

## 3. Runs

| Run | Checks | Bounds |
| --- | --- | --- |
| `seats` | `TypeOK`, `NoOverbooking`, `NoOrphans`, `AnnouncedOnceWhenTrue`, `NoRevival`, `ServedInOrder`, `WritesUnderLock`, `PromotionOwed`, `NothingStuck` under every operation, with failures at every statement | 2 requests at once, 1 event, 3 attendees, 3 registrations, before and after the event starts |
| `ledger` | `QueueServed`, `DistinctTickets`, `OnePersonOneSeat`, `EveryAnswerDeclared`, and that `Booking` implements `SeatLedger`, while no event is called off | 2 requests, 3 attendees, 3 people, 4 registrations |
| `pool` | `PoolTypeOK`, `PoolMovesOn`, `LocksAreConnected`, `EventLockedFirst`, `NoWaitCycle`, `RushIsLocal` | 3 requests, 2 connections, 1 abandoned place in the line, 2 events, 2 attendees, 2 registrations; publish, register, cancel, a `PATCH`, reads, failures, before and after the event starts |
| `live` | `EveryRequestEnds`, `HealthIsAnswered` | 2 requests, 2 connections and the health check, 1 abandoned place, 2 attendees, 2 registrations; every operation but `update` |
| `listing` | `NoQueueBesideFreeSeat`: the counts of a response belong together, whatever happens between the statements of a query; `ScheduleStaysCoherent` under PATCHes of one or two dates | 2 writers, 1 reader, 3 patches |
| `rules` | `CoherentEventsOpen`, `CloseTimeIsReportedFirst`, `SelectionIsSlice`, `NewTicketIsLast`, `WalkSeesEachRowOnce`, `NoEmptyPage`, `KeyedAsDeclared` | 5 instants; queues of 3 with missing and repeated tickets; tables of 0 to 4 rows, sizes below, at and above the ceiling; every route and every kind of call |

The runs `call_off`, `republish`, `draft_delete`, `cross_locks`, `page_total` and `null_patch` look
for a counterexample; see section 4.

**Why these bounds are enough to be interesting.** A seat race needs two requests and one seat; a
queue whose order can be wrong needs two people waiting behind one that is seated, which is three
registrations; a ticket that is issued twice needs a fourth. The capacity starts at 1 and moves
between 1 and 2 (`Resize`), so events are full, grow and shrink. A third request finds
both connections taken: in `pool`, its look-up stands in the line behind two transactions, of which
one waits for the other's row; or it has done its look-up, asks for its transaction and
finds the connections gone; or one connection is taken by a place nobody waits at any more
(`MaxGone` bounds how many requests that have given up are still served at once). The third request
may also be the only one about another event. Two registrations are enough there: the queue is the business of `seats`. The
`PATCH` of `pool` (`Refusable`) has dates that are refused once the event is locked, because what
matters there is the transaction without a look-up before it. A person needs two attendees to be one
person twice. Registrations are inserted at most `MaxRegs` times (`RoomForRow` starts no more inserts than there are rows left), the
clock stops at `MaxTime`, and requests are unbounded: a worker that has finished starts again.
Attendees, workers and people are interchangeable and never compared, so they are a symmetry set in
the runs without liveness; in `pool`, so are the two events. The event of the runs starts at 1: `MaxTime = 1` has bookings and refusals
on both sides of that instant, and `MaxTime = 0` is used where the schedule plays no role.

Deadlock is checked in every passing run but `listing`, where nothing more can be asked once every row
is used up and no operation is left in the menu; it is switched off there and in the runs that look
for a counterexample. In `pool` and `live` it says little, because another `GET` can always come:
that the requests go on is said by `PoolMovesOn` and `EveryRequestEnds`.

**`Ready`.** Whether a request can send its next statement is written out in `Ready(w)`: the rows it
needs are free, and what it finds in them leads on. `NothingStuck`, `RushIsLocal` and `PoolMovesOn` are
stated with it, and not with `ENABLED`, so that they can be proved. `EveryAnswerDeclared` speaks of
the step that throws, for the same reason.

**Menus.** `Menu` restricts what clients call. `ledger` leaves out cancelling events, and `listing`
also edits of the capacity: with the first, findings 1 and 2 below would be what is found; with the
second, a response puts a new count beside an old capacity, which the service does not promise to
avoid. No request dies in `ledger`: a rollback commits nothing, `seats` has it at every statement, and
the theorems about the properties of `ledger` hold with it. `pool`
leaves out cancelling and deleting events: `EventLockedFirst` holds only while no event is cancelled
(finding 4), and without that order two requests can hold each other's rows and both connections
until PostgreSQL breaks the circle, so `PoolMovesOn` would not hold either; a `DELETE` waits
like a publish, and `seats` and `live` have it. `live` cancels events,
and the circle is broken there. It leaves out `update`, which would wait as cancelling a
registration does, for one event row and then for nobody; `pool` has it.

### Fairness

`EveryRequestEnds` and `HealthIsAnswered` are checked under `PoolFairSpec`, whose conjuncts are

- `SF_allVars(Statement(w))`: the next statement of a request that has a connection is executed if
  it waits for nobody, and gets a row it waits for if the row is free again and again. Node's event
  loop and the server run what is ready; PostgreSQL queues the waiters of a row and serves them in
  order, where weak fairness would let new requests overtake for ever.
- `WF_allVars(Connect(w) \/ Answered(w) \/ Ask(w) \/ PoolAnnounce(w))`: a free connection is handed to
  the head of the line, a look-up comes back (if not with something to go on with, then with an
  answer), and the event loop goes on, from the look-up to the transaction and after a commit.
- `WF_allVars(ConnectLate)`, `WF_allVars(Discard)`: the same for a place nobody waits at any more,
  and the assumption about Prisma above.
- `WF_allVars(Connect(Probe) \/ AnswerHealth)`: the same for the health check, whose query waits for
  no row.
- `WF_allVars(PoolVictim)`: a circle of waiting transactions is broken. PostgreSQL looks for one
  after `deadlock_timeout` and aborts one of them. Without this conjunct the properties fail,
  because of finding 4.

`EveryRequestEnds` does not lean on `maxWait` or on the transaction's timeout: no request has to
fail for it. It speaks of a request from the moment its first statement stands in the line.

Clients are not fair: nobody has to start a request.

## 4. What the repository says and the code does not keep

Each of these runs checks one sentence of the repository, and the model checker finds an execution
of the code that contradicts it.

1. `call_off`: "Cancelling an event cancels everyone's place in it, and the two must happen
   together" (`src/events/events.service.ts:296`). `updateMany` runs before the event row is locked, so a
   registration whose transaction commits in between is neither swept nor refused: it stays
   confirmed at a cancelled event. Taking the row lock first, as `register` does, would close this
   and number 4.
2. `republish`: "CANCELLED is terminal" (`src/events/event-status.ts:46`). `publish` decides on a
   status it read outside any transaction and updates by id. If another client publishes and
   cancels the event in between, the cancelled event is published again.
3. `draft_delete`: "Deleting is allowed only while the event is a draft"
   (`src/events/event-status.ts:85`). `remove` has the same gap, and what is lost is every booking
   made after the event was published, by the cascade.
4. `cross_locks`: "`FOR UPDATE` makes contenders wait instead of fail" (`README.md:232`).
   Cancelling an event locks its registrations first and the event last, `cancel` of a
   registration the event first. Each holds what the other needs, and PostgreSQL aborts one: a
   500 for a request that was in order.
5. `page_total`: "One transaction, so the count and the page agree"
   (`src/events/events.service.ts:85`). At READ COMMITTED every statement has its own snapshot, inside a
   transaction or not. An event published or deleted between the two statements leaves the filter,
   and the page holds more events than the total.
6. `null_patch`: "a validator tightened there cannot stay loose here"
   (`src/events/dto/update-event.dto.ts:12`). `PartialType` makes every field optional, and an
   optional field may also be `null`. `PATCH {"startsAt": null}` passes the pipe; the checks take
   the stored date for it (`??`), and the write hands the `null` to the database client, which
   refuses it with an exception the filter does not know: a 500 for a request that should be a 400.
   No row is touched.

Four sentences are not kept and need no run.

"a rush on one event does not delay another by a microsecond"
(`src/registrations/registrations.service.ts:58`) is true of row locks, which is what `RushIsLocal`
checks. It is not true of connections: `poolMax` requests that wait for one event hold every
connection, and the look-up of a request about another event stands in the line until one of them ends. `PoolMovesOn`
says that this always ends by itself. The health check stands in the same line: during such a rush
`GET /health` is late, not down (`HealthIsAnswered`).

"Every one of these is declared in the OpenAPI document" (`README.md:125`). An id that is not a
version 7 uuid is answered 400 by `ParseUUIDPipe`, and `publish`, `cancel` and `remove` of an event,
`cancel` of a registration, the roster, the waitlist and an attendee's registrations do not declare
a 400: it can be read off the routes in `Problems`. `KeyedAsDeclared` therefore speaks of calls with
a well-formed id.

"A failed request still gets its id assigned and echoed" (`src/configure-app.ts:54`). Guards run
before interceptors, so a call that is refused with 401 or 429 has no id when the filter looks for
it.

"Tickets only ever increase"
(`src/registrations/policy/waitlist.ts:17`). The next ticket is one past the highest ticket *still
waiting*, so when its holder leaves, the same ticket is issued again. `DistinctTickets` and
`ServedInOrder` hold all the same: two people never hold it at once.

## 5. Proofs

Proved for any finite set of workers, any sets of events and attendees, any number of registrations,
any request bodies that satisfy the assumptions, and any menu (failures included):

| Theorem | Module | States |
| --- | --- | --- |
| `TypeCorrect` | `BookingProofs` | `Spec => []TypeOK` |
| `NeverOverbooked` | `BookingProofs` | `Spec => []NoOverbooking` |
| `ReadsStayTrue` | `BookingProofs` | `Spec => WritesUnderLock` |
| `LockOrder` | `BookingProofs` | `Spec => []EventLockedFirst`, assuming that no event is ever cancelled |
| `SchedulesHold` | `RowProofs` | `Spec => []ScheduleStaysCoherent` |
| `RowsHaveEvents` | `RowProofs` | `Spec => []NoOrphans` |
| `NobodyRevived` | `RowProofs` | `Spec => NoRevival` |
| `PromotionsOwed` | `RowProofs` | `Spec => PromotionOwed` |
| `AnnouncementsTrue` | `RowProofs` | `Spec => []AnnouncedOnceWhenTrue` |
| `FrontOfQueue` | `RowProofs` | `Spec => ServedInOrder` |
| `TicketsDistinct` | `RowProofs` | `Spec => []DistinctTickets` |
| `NobodyWaitsBesideASeat` | `RowProofs` | `Spec => []QueueServed`, assuming that no event is ever cancelled |
| `LedgerImplemented` | `LedgerProofs` | `Spec => ImplementsLedger`, assuming that no event is ever cancelled |
| `NobodyStuck` | `WaitProofs` | `Spec => []NothingStuck` |
| `RushStaysLocal` | `WaitProofs` | `Spec => []RushIsLocal` |
| `NoCircle` | `WaitProofs` | `Spec => []NoWaitCycle`, assuming that no event is ever cancelled |
| `PoolIsBooking` | `WaitProofs` | `PoolSpec => Spec` |
| `PoolCorrect` | `WaitProofs` | `PoolSpec => []PoolTypeOK` |
| `LocksConnected` | `WaitProofs` | `PoolSpec => []LocksAreConnected` |
| `PoolGoesOn` | `WaitProofs` | `PoolSpec => []PoolMovesOn`, assuming that no event is ever cancelled |
| `BookedOnce` | `AccountProofs` | `Spec => []OneBooking`: no attendee has two active registrations for one event |
| `AccountsAreBooking` | `AccountProofs` | `AccountsSpec => Spec` |
| `OneSeatPerPerson` | `AccountProofs` | `AccountsSpec => []OnePersonOneSeat` |
| `AnswersDeclared` | `AccountProofs` | `AccountsSpec => EveryAnswerDeclared`, assuming that no `PATCH` has a `null` where there may be none |
| `ListingIsBooking` | `ListingProofs` | `ListSpec => Spec` |
| `NoSeatHidden` | `ListingProofs` | `ListSpec => []NoQueueBesideFreeSeat`, assuming that no event is ever cancelled and no `PATCH` has a capacity |
| `CoherentOpens` | `RulesCheckProofs` | `Spec => []CoherentEventsOpen`, here and below of `RulesCheck` |
| `CloseIsFirst` | `RulesCheckProofs` | `Spec => []CloseTimeIsReportedFirst` |
| `SelectionSliced` | `RulesCheckProofs` | `Spec => []SelectionIsSlice` |
| `NewTicketLast` | `RulesCheckProofs` | `Spec => []NewTicketIsLast` |
| `WalkComplete` | `RulesCheckProofs` | `Spec => []WalkSeesEachRowOnce` |
| `PagesFilled` | `RulesCheckProofs` | `Spec => []NoEmptyPage` |
| `KeysDeclared` | `RulesCheckProofs` | `Spec => []KeyedAsDeclared` |

By `PoolIsBooking`, `AccountsAreBooking` and `ListingIsBooking`, whatever is proved of `Spec` holds
of the service over a pool of connections, beside the creation of attendees, and beside readers as
well. The theorems with an assumption on the menu need it: findings 1, 2 and 4 show what happens
without it, finding 6 shows it for `AnswersDeclared`, and without its second assumption
`NoSeatHidden` would be false too, of a new count beside an old capacity.

`TicketsDistinct` holds while events are called off as well, which the run `ledger` leaves out.

Assumptions (all checked on every run): `None` is not a worker, event or attendee; there are finitely
many requests at a time; `MaxRegs` is a natural number; the bodies of `POST` and `PATCH` have the
types that validation lets through, a `PATCH` of the capacity at least 1; a listing asks for events
by statuses that exist; the bounds of `RulesCheck` are natural numbers and its page sizes integers.

**The argument.** `NoOverbooking` speaks of committed rows, but what a commit will make true is
decided statements earlier, by a transaction that has counted, decided and not yet written. The
inductive invariant `IInv` says what such a transaction still owes:

- `LockInv`: an event row is held exactly by the transactions that are past their first lock
  (`HoldsEvent`) and about that event.
- `RowInv`: a locked registration belongs to the event its transaction is about; its holder holds
  the event too, or is sweeping, and then what it has written is a cancellation. A row never moves
  to another event.
- `SeatInv`: while `w` holds event `e`, the confirmed rows *as `w` sees them* fit into the capacity
  `w` is about to commit, with one to spare if `w` is about to insert a confirmed row, with as
  many to spare as it still has rows to promote, and within the new capacity if it is about to
  write one.
- `RequestInv`, `TypeOK`, `AbsentInv`: what makes the others type-check. A request carries what its
  next statement needs, and an event that does not exist has no capacity.

The count is taken once (`RegisterDecide`, `Promote`, `UpdateCheck`) and used later. What keeps it
true is that the set of rows `w` sees as confirmed can only change by `w`'s own writes or by a
sweep, which only lowers it: by `RowInv` and `LockInv` nobody else can commit a row of `e` that is
not cancelled. At `Commit`, what `w` sees becomes what is committed, and `SeatInv` becomes
`NoOverbooking`.

The proof has one frame lemma for each kind of step (a read, a rollback, a write of one row,
taking the event, a commit, the creation of an event), each preserving `IInv` under conditions the
actions then meet one by one. Counting rests on `FiniteSetTheorems`. `WritesUnderLock` follows
because only `Commit` changes `regs`, a row it changes is one the committing request has locked, and by
`RowInv` that request holds the event too. `LockOrder` adds
one conjunct, that nobody is sweeping.

**The other invariants** stand on `IInv` and on the lemmas about one step, which do the
work of a case distinction over thirty actions once. A step of a request has one of five shapes
(`Shapes`): it reads (`Reads`), writes one registration (`Writes`), locks or writes its event (`Takes`), gives everything
back (`Ends`) or commits, and publishing is the one `UPDATE` outside a transaction. From
the shapes follows what a step leaves to the other requests: their program counter and request
(`OthersStay`), what they have locked (`OthersHeld`), and what they see of an event they hold
(`OthersSee`). What remains for each invariant is what the request that steps does to its own.

- `ScheduleInv`: besides the committed rows, the version of a locked event is coherent, and so is
  the merged row of a request that stands at its write. The second is the check, the first carries
  it to the commit; nobody can write the event in between, because the request holds it.
- `OrphanInv`: a locked event exists; and a transaction that has deleted its event has every
  registration of it, as it sees them, still in hand, or none left when it commits. That the
  snapshot of the `DELETE` is complete is the point: an insert needs the event lock, so none can
  come after it.
- `PInv`: whoever a request has chosen still waits, committed, and is either written as confirmed
  by it or still to be written; once the request has committed, none of them waits, and none was
  announced; two requests that announce have chosen different rows. The three theorems about
  promotions are read off it.
- `Orderly`: while a request holds a choice, whoever it still sees waiting and has not chosen is
  behind all of the chosen by the committed tickets. This needs `PInv`: the tickets the choice was
  made by are the committed ones, because what a promoting request sees as waiting it has not
  written itself.
- `TicketInv`: the tickets are distinct among the committed rows and among the rows the holder of an
  event sees, and a request about to insert has a ticket above all it sees.
- `FillInv`: `QueueServed` for the committed rows and for what the holder of an event sees, except
  while it promotes or deletes the event. A request about to insert a row that waits has seen the
  event full; one that promotes has the whole line in hand, or as many of it as fill the event.
  Each stays true because only the holder changes what it counted. A sweep frees seats without
  holding the event when it decides whose: somebody waitlisted after its snapshot is left waiting
  beside them. Hence the assumption.
- `ShapeInv`: what a transaction has written, told from the committed rows. A
  registration adds one row and changes none; a cancellation vacates one row that was active
  and promotes the front of the line; a `PATCH` changes the event's row and may promote; a `DELETE`
  takes the event with all its rows. With `Orderly` (the promoted are the front of the line),
  `TicketInv` (the line is one sequence: `Line` chooses the only list in ticket order) and
  `FillInv` (as many are promoted as there is room for), each shape is one step of `SeatLedger` at
  the commit. Lemmas about sequences say what leaving, joining and serving do to the list.
- `LineInv`, over `Pool`: `PoolTypeOK`, with the line as a sequence. The line names nobody twice but
  the places nobody waits at; whoever is in it has no connection; a request is in the
  pool only while a look-up or a transaction of it needs a connection, and has one from the first
  statement of its transaction to the last; and those who have one, with the connections to be
  discarded, are never more than `PoolMax`. So a row is only ever locked by a request that has its
  connection.
- `IndexInv`: of *all versions* of all rows, committed or in doubt, no two are the same active
  booking. An insert is made against every version (it waits for the row of another transaction
  before it is refused), and every other statement leaves an heir: the same booking, active only if
  it was before. So neither a commit nor a rollback can bring a second one to light.
- `AccountInv`: the index on `lower(email)`, the addresses are folded, and a request that registers
  refers to an attendee it has looked up. Attendees are never deleted and never change
  their address, so the look-up stays true.
- `PageInv`: the rows of a query in flight are of events that exist or existed, and give the capacity
  these have *now* (`CapacityInv`: no uncommitted version has another one). So when the counts are
  read, `QueueServed` of that instant speaks of the capacity in the response.

- `CourseInv`: the statement a request stands at is one of its own operation (`Course`), with somebody
  left to promote while it promotes. It is what ties a place in the code to the operation that the
  answer must be declared for, and `AnswersDeclared` rests on it.
- `FoundInv`, which is `OrphanInv` and `CourseInv` with two more: a registration is deleted only
  with its event, by the transaction that deletes both, so that one read under the lock of a live
  event is there (`GoneInv`); and there is a row left for every registration that has been asked
  for (`RoomInv`, about the bound `MaxRegs`). So whatever a request finds leads on (`NothingStuck`). Who waits, waits for an event row or, in a sweep or
  an insert, for a registration whose holder has the event; and who has the event waits for nobody,
  as long as nobody sweeps. Hence no circle (`NoCircle`), and with `LineInv` one of those who have the
  connections can go on (`PoolGoesOn`): a look-up waits for no row, a discarded connection comes back
  by itself, and of the rest, whoever waits, waits for a request that has a connection too
  (`LocksConnected`), waits for nobody, and needs no second connection for any of its statements.
- `Asked`, over `RulesCheck`: the arguments of a question have their types. All the rest is what the
  rules do with them. `SelectionIsSlice` and the walks over pages compare two ways to sort: the sorted
  sequence is determined by its set (`RuleProofs`), because ties are broken by the id.

**Only model-checked.** `EveryRequestEnds` and `HealthIsAnswered` (liveness under fairness) are out
of the proof system's reach; every other property of a passing run is a theorem. The second definitions in `RulesCheck` sort by choosing the sorted sequence, not by
an algorithm: that PostgreSQL and `Array.prototype.sort` sort is taken for granted. Where a
theorem assumes that no event is called off, the service that does call events off is model-checked by the runs that look for a counterexample.

## 6. Not modelled

- **Opening and closing the pool, `query-counter.ts`**: they run before the first request, after the
  last one, and in tests. The time limits of a transaction are not clocks: running out of time is
  `GiveUp` in the line and `PoolFail` afterwards, at any moment.
- **The database being down**, and what the health check says then.
- **The text of a problem document, the fields of a body, the throttle's counter, logging**:
  `Problems` keeps the status of an answer, which parts of a request are validated, and whether the
  limit is used up. No state of the bookings depends on the rest. `EveryAnswerDeclared` does not
  speak of requests that die (`Fail`): those are answered 500, if at all.
- **Configuration, bootstrap**: what runs once, but for the bounds of `DATABASE_POOL_MAX`, which are
  the assumption on `PoolMax`. **Seed, scripts, containers**: tooling around the service.
- **The announcement is not delivered at least once**, and the code does not try: a process that
  dies between the commit and `announce` tells nobody. `Fail` at `announce` is that crash, and
  `PromotionOwed` says that nothing else loses one.
- **Counts in the response of a write**: the same two reads as `findOne`, with a row of the
  request's own transaction; the service promises nothing about them that `Listing` does not check.
  They are made after the request has given its connection back, and wait for one like a `GET`.

## 7. Plan

1. *(done)* `EventRules`, `Booking`, its runs, and the proofs of the type invariant and of
   `NoOverbooking`.
2. *(done)* `SeatLedger` and the refinement; `Listing` and `Paging`; `RulesCheck`.
3. *(done)* `Pool`: the connections, the line for them, `maxWait`, and the health check.
4. *(done)* `Accounts`: the creation of attendees beside registrations that refer to them.
5. *(done)* `Problems` and `Answers`: which answer a client gets for each way a request can end,
   with the guards and pipes before it.
6. *(done)* Proofs of `ScheduleStaysCoherent`, `NoOrphans`, `NoRevival`, `PromotionOwed`,
   `AnnouncedOnceWhenTrue`, `ServedInOrder` and `DistinctTickets`.
7. *(done)* Proofs of `QueueServed` and of the refinement while no event is cancelled, of
   `PoolTypeOK` and `LocksAreConnected`, of `OnePersonOneSeat` and of `NoQueueBesideFreeSeat`.
8. *(done)* Proofs of everything `RulesCheck` says of the rules; of `NothingStuck`, `NoWaitCycle`,
   `RushIsLocal` and `PoolMovesOn`, restated with `Ready`; and of `EveryAnswerDeclared`.
