-------------------------------- MODULE Pool --------------------------------
(***************************************************************************)
(* The connections of PrismaService under the requests of Booking.  A      *)
(* statement on the service's client borrows a connection for itself, a    *)
(* $transaction keeps the one it was given until it ends; who finds none   *)
(* free waits, and pg serves the waiting in order.  The look-up before a   *)
(* transaction and the transaction each wait for a connection of their     *)
(* own.  The health check asks the same pool.                              *)
(***************************************************************************)
EXTENDS Booking, SequencesExt

CONSTANTS
  PoolMax,  \* DATABASE_POOL_MAX
  Probe,    \* the health check, a client of the pool like the requests
  MaxGone   \* BOUND: requests that have given up while pg still serves them

ASSUME PoolMaxAssumption == PoolMax \in 1..100
ASSUME ProbeAssumption == Probe \notin Workers \cup {None}

VARIABLES
  waiting,   \* the line, first come first; None in a place whose request has given up
  holds,     \* the clients that have a connection
  looking,   \* the requests at their first statement, which no transaction contains
  discarded  \* how many connections were given to requests that had given up

poolVars == <<waiting, holds, looking, discarded>>
allVars == <<vars, poolVars>>

Clients == Workers \cup {Probe}

PoolInit == Init /\ waiting = <<>> /\ holds = {} /\ looking = {} /\ discarded = 0

InUse == Cardinality(holds) + discarded

InPool(c) == c \in holds \cup ToSet(waiting)

\* Mutant of OnServiceClient: nextWaitlistPosition runs on this.prisma.
PositionOutside == {"position"}

\* The statements inside a transaction that are sent on this.prisma and not on tx:
\* there is none.  Such a statement needs a second connection.
OnServiceClient == {}

\* A second connection, for a request that has one.
OneIsFree == InUse < PoolMax /\ waiting = <<>>

-----------------------------------------------------------------------------
(* The pool.                                                               *)

Join(c) == waiting' = Append(waiting, c)

\* pg hands a connection to whoever has waited longest.
Connect(c) ==
  /\ waiting # <<>> /\ c = Head(waiting)
  /\ InUse < PoolMax
  /\ holds' = holds \cup {c}
  /\ waiting' = Tail(waiting)
  /\ UNCHANGED <<vars, looking, discarded>>

\* Also to a request that has given up: pg is given no connectionTimeoutMillis, so its
\* place stays in the line.
ConnectLate ==
  /\ waiting # <<>> /\ Head(waiting) = None
  /\ InUse < PoolMax
  /\ discarded' = discarded + 1
  /\ waiting' = Tail(waiting)
  /\ UNCHANGED <<vars, holds, looking>>

\* ASSUMED of Prisma: a transaction that begins after its maxWait is rolled back, and the
\* connection given back.
Discard ==
  /\ discarded > 0
  /\ discarded' = discarded - 1
  /\ UNCHANGED <<vars, waiting, holds, looking>>

-----------------------------------------------------------------------------
(* Requests.                                                               *)

\* A request comes, and its first statement waits for a connection: the attendee to
\* register, the registration to cancel, the event to publish, cancel or remove, the
\* INSERT of a new event, or what a GET asks for.
Arrive(w) ==
  /\ pc[w] = "idle" /\ w \notin looking
  /\ looking' = looking \cup {w}
  /\ Join(w)
  /\ UNCHANGED <<vars, holds, discarded>>

\* The first statement gives its connection back.
EndLookup(w) ==
  /\ w \in looking \cap holds
  /\ looking' = looking \ {w}
  /\ holds' = holds \ {w}
  /\ UNCHANGED <<waiting, discarded>>

\* It has found what the request needs.  Only update has no such statement: it comes to
\* the pool with its transaction.
PoolStart(w) ==
  \/ EndLookup(w) /\ Start(w) /\ req'[w].op # "update"
  \/ /\ w \notin looking
     /\ \E e \in Events, patch \in Patches : StartUpdate(w, e, patch)
     /\ UNCHANGED poolVars

PoolCreate(w) ==
  /\ EndLookup(w)
  /\ \E e \in Events, dto \in NewEvents : Create(e, dto)

\* The answer needs nothing more: there is no such row, its status does not allow what is
\* asked, or the request only reads.
Answered(w) == EndLookup(w) /\ UNCHANGED vars

\* The first statement of a transaction, or the one write that needs none.
Opening == {"lock", "publish", "snapshot", "delete"}

\* $transaction, or the write by id, asks for a connection; others may have come between.
Ask(w) ==
  /\ pc[w] \in Opening /\ ~InPool(w)
  /\ Join(w)
  /\ UNCHANGED <<vars, holds, looking, discarded>>

\* After these a request needs its connection no longer.
Done == {"idle", "announce"}

Statement(w) ==
  /\ w \in holds
  /\ pc[w] \in OnServiceClient => OneIsFree
  /\ Locking(w) \/ Local(w)
  /\ holds' = IF pc'[w] \in Done THEN holds \ {w} ELSE holds
  /\ UNCHANGED <<waiting, looking, discarded>>

PoolAnnounce(w) == Announce(w) /\ UNCHANGED poolVars

\* The timeout of the transaction, a lost connection, a deadlock: the connection is given
\* back.
PoolFail(w) ==
  /\ w \notin ToSet(waiting)
  /\ Fail(w)
  /\ holds' = holds \ {w}
  /\ UNCHANGED <<waiting, looking, discarded>>

\* Mutant of GiveUp: the request is refused, but its place waits for it.
GiveUpInLine(w) ==
  /\ Fail(w)
  /\ pc[w] \in {"lock", "snapshot"} /\ w \in ToSet(waiting)
  /\ UNCHANGED poolVars

\* maxWait is over before the transaction has a connection.  (A statement outside any
\* transaction waits without a limit.)
GiveUp(w) ==
  /\ pc[w] \in {"lock", "snapshot"} /\ w \in ToSet(waiting)
  /\ Cardinality({i \in DOMAIN waiting : waiting[i] = None}) + discarded < MaxGone
  /\ Fail(w)
  /\ \E i \in DOMAIN waiting : waiting[i] = w /\ waiting' = [waiting EXCEPT ![i] = None]
  /\ UNCHANGED <<holds, looking, discarded>>

-----------------------------------------------------------------------------
(* GET /health: SELECT 1 through the pool the requests use.                *)

AskHealth ==
  /\ "health" \in Menu
  /\ ~InPool(Probe)
  /\ Join(Probe)
  /\ UNCHANGED <<vars, holds, looking, discarded>>

AnswerHealth ==
  /\ Probe \in holds
  /\ holds' = holds \ {Probe}
  /\ UNCHANGED <<vars, waiting, looking, discarded>>

-----------------------------------------------------------------------------

PoolNext ==
  \/ \E w \in Workers :
       \/ Arrive(w) \/ PoolStart(w) \/ PoolCreate(w) \/ Answered(w) \/ Ask(w)
       \/ Connect(w) \/ Statement(w) \/ PoolAnnounce(w) \/ PoolFail(w) \/ GiveUp(w)
  \/ ConnectLate \/ Discard
  \/ AskHealth \/ Connect(Probe) \/ AnswerHealth
  \/ Tick /\ UNCHANGED poolVars

PoolSpec == PoolInit /\ [][PoolNext]_allVars

\* PostgreSQL aborts one transaction of a circle, and its connection comes back.
PoolVictim ==
  \E S \in SUBSET Workers : WaitCycle(S) /\ \E w \in S : PoolFail(w)

\* The next statement of a request is executed if it need not wait, and a row is given
\* to those who wait for it in turn; a look-up comes back; pg serves its line; the event
\* loop goes on, from a look-up to the transaction and after the commit.
PoolFairness ==
  /\ \A w \in Workers :
       SF_allVars(Statement(w)) /\ WF_allVars(Connect(w) \/ Answered(w) \/ Ask(w) \/ PoolAnnounce(w))
  /\ WF_allVars(Connect(Probe) \/ AnswerHealth)
  /\ WF_allVars(ConnectLate) /\ WF_allVars(Discard)
  /\ WF_allVars(PoolVictim)

PoolFairSpec == PoolSpec /\ PoolFairness

-----------------------------------------------------------------------------
(* Properties.                                                             *)

\* Nobody stands in the line twice.
OnePlaceEach(line) == \A i, j \in DOMAIN line : line[i] = line[j] => i = j \/ line[i] = None

\* A request is in the pool only while a statement or a transaction of it needs a
\* connection, and has one from the first statement of its transaction to the last.
PlaceOK(w) ==
  /\ w \in looking => pc[w] = "idle" /\ InPool(w)
  /\ InPool(w) => w \in looking \/ pc[w] \notin Done
  /\ pc[w] \notin Opening \cup Done => w \in holds

\* A client is in the line or has a connection, never both and never twice, and in neither
\* once its request has ended: its place does not outlive it, nor does its connection.
PoolTypeOK ==
  /\ OnePlaceEach(waiting)
  /\ ToSet(waiting) \subseteq (Clients \cup {None}) \ holds
  /\ holds \subseteq Clients /\ discarded \in Nat /\ InUse <= PoolMax
  /\ \A w \in Workers : PlaceOK(w)

\* The requests never use up the connections in such a way that every holder waits
\* for a row, or for another connection: whenever somebody waits for a connection
\* and none is free, one of those who have one can go on.
PoolMovesOn ==
  waiting # <<>> /\ InUse = PoolMax =>
    \/ discarded > 0
    \/ \E c \in holds :
         c \in looking \cup {Probe} \/ (Ready(c) /\ (pc[c] \in OnServiceClient => OneIsFree))

\* Only a request that has a connection keeps others from a row.
LocksAreConnected ==
  /\ \A e \in Events : elock[e] # None => elock[e] \in holds
  /\ \A r \in RegIds : rlock[r] # None => rlock[r] \in holds

InFlight(w) == w \in looking \/ pc[w] # "idle"

\* Every request is answered: none waits for ever, for a connection of its look-up or of
\* its transaction, behind a lock nobody gives back, or behind requests that wait for it.
EveryRequestEnds == \A w \in Workers : InFlight(w) ~> ~InFlight(w)

\* The health check is answered, however many requests about one event have taken
\* the connections: it waits for them, and they end.
HealthIsAnswered == Probe \in ToSet(waiting) ~> ~InPool(Probe)
=============================================================================
