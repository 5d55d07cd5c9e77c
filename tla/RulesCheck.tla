----------------------------- MODULE RulesCheck -----------------------------
(***************************************************************************)
(* The rules of EventRules, Paging and Problems asked one question after   *)
(* the other: decide a registration, choose whom to promote, list a table  *)
(* page by page, or call a route.  Each property relates two rules, or a   *)
(* rule to a second definition of what it computes.                        *)
(***************************************************************************)
EXTENDS EventRules, Paging, Problems, SequencesExt

CONSTANTS
  LastInstant,  \* BOUND: instants are 0..LastInstant
  QueueLength,  \* BOUND: the ids, and the tickets, of a queue are 1..QueueLength
  MaxRows,      \* BOUND: rows of the table that is listed
  Sizes         \* the values of ?size, after validation

ASSUME BoundsAssumption ==
  /\ LastInstant \in Nat /\ QueueLength \in Nat /\ MaxRows \in Nat
  /\ Sizes \subseteq Int

VARIABLES
  question,   \* what is being asked: "none", "register", "promote", "list" or "call"
  event, now, confirmed,  \* the RegistrationContext
  queue, ticket, seats,   \* the arguments of selectForPromotion
  table, orders, asked,   \* the table, its ORDER BY, and ?size
  route, call             \* the name of a route, and how it is called

registerVars == <<event, now, confirmed>>
promoteVars == <<queue, ticket, seats>>
listVars == <<table, orders, asked>>
callVars == <<route, call>>
vars == <<question, registerVars, promoteVars, listVars, callVars>>

Instants == 0..LastInstant
Optional == Instants \cup {Null}

Contexts ==
  [status : EventStatuses, capacity : {1, 2}, waitlistEnabled : BOOLEAN,
   startsAt : Instants \ {0}, endsAt : Instants,
   registrationOpensAt : Optional, registrationClosesAt : Optional]

AnEvent == [status |-> "DRAFT", capacity |-> 1, waitlistEnabled |-> TRUE, startsAt |-> 1,
            endsAt |-> 2, registrationOpensAt |-> Null, registrationClosesAt |-> Null]

\* Tables of ids 1..n, whose rows have the same start and titles that may repeat.
Tables ==
  UNION {[1..n -> [startsAt : {1}, title : {1, 2}]] : n \in 0..MaxRows}

WithIds(t) == [i \in DOMAIN t |-> [id |-> i, startsAt |-> t[i].startsAt, title |-> t[i].title]]

SortParameters ==
  {<<>>, <<"title">>, <<"title", "desc">>, <<"startsAt", "asc">>, <<"id">>, <<"notes">>,
   <<"title", "down">>, <<"title", "asc", "asc">>}

ACall == [key |-> "none", spent |-> FALSE, wellFormed |-> {}]

NoTickets == [i \in 1..QueueLength |-> Null]

Init ==
  /\ question = "none"
  /\ event = AnEvent /\ now = 0 /\ confirmed = 0
  /\ queue = {} /\ ticket = NoTickets /\ seats = 0
  /\ table = <<>> /\ orders = <<>> /\ asked = 1
  /\ route = "findAll" /\ call = ACall

AskRegister ==
  /\ question = "none"
  /\ question' = "register"
  /\ event' \in {e \in Contexts : Coherent(e)}
  /\ now' \in Instants
  /\ confirmed' \in 0..2
  /\ UNCHANGED <<promoteVars, listVars, callVars>>

AskPromote ==
  /\ question = "none"
  /\ question' = "promote"
  /\ queue' \in SUBSET (1..QueueLength)
  /\ ticket' \in [1..QueueLength -> {Null} \cup 1..QueueLength]
  /\ seats' \in 0..QueueLength
  /\ UNCHANGED <<registerVars, listVars, callVars>>

AskList ==
  /\ question = "none"
  /\ question' = "list"
  /\ table' \in {WithIds(t) : t \in Tables}
  /\ orders' \in UNION {parseSort(parts) : parts \in SortParameters}
  /\ asked' \in Sizes
  /\ UNCHANGED <<registerVars, promoteVars, callVars>>

AskCall ==
  /\ question = "none"
  /\ question' = "call"
  /\ route' \in DOMAIN Routes
  /\ call' \in Calls
  /\ UNCHANGED <<registerVars, promoteVars, listVars>>

Answered ==
  /\ question # "none"
  /\ question' = "none"
  /\ event' = AnEvent /\ now' = 0 /\ confirmed' = 0
  /\ queue' = {} /\ ticket' = NoTickets /\ seats' = 0
  /\ table' = <<>> /\ orders' = <<>> /\ asked' = 1
  /\ route' = "findAll" /\ call' = ACall

Next == AskRegister \/ AskPromote \/ AskList \/ AskCall \/ Answered

Spec == Init /\ [][Next]_vars

-----------------------------------------------------------------------------

\* A schedule the service accepts leaves an instant at which an empty published
\* event can be booked, with one exception the rules admit: registration that
\* opens at the very start, with no close time, never accepts anybody.
CoherentEventsOpen ==
  question = "register" /\ event.status = "PUBLISHED" =>
    ((\E t \in Instants : decideRegistration(event, t, 0) = "CONFIRMED")
       <=> ~(event.registrationClosesAt = Null /\ event.registrationOpensAt = event.startsAt))

\* The first true refusal is reported: an event with a close time is reported as
\* started only at the single instant at which it both closes and starts.
CloseTimeIsReportedFirst ==
  question = "register" /\ event.registrationClosesAt # Null
  /\ decideRegistration(event, now, confirmed) = "event-already-started" =>
    now = event.startsAt /\ now = event.registrationClosesAt

\* inQueueOrder(entries).slice(0, seats) as the source computes it: a sort on the
\* ticket, with MAX_SAFE_INTEGER for a missing one, and then on the id.
SortKey(id) == IF ticket[id] = Null THEN QueueLength + 1 ELSE ticket[id]

InQueueOrder ==
  CHOOSE s \in [1..Cardinality(queue) -> queue] :
    \A i, j \in DOMAIN s : i < j =>
      \/ SortKey(s[i]) < SortKey(s[j])
      \/ SortKey(s[i]) = SortKey(s[j]) /\ s[i] < s[j]

\* The set that Booking promotes is the slice of the sorted queue, whatever tickets
\* are missing or doubled.
SelectionIsSlice ==
  question = "promote" =>
    selectForPromotion(queue, ticket, seats) =
      {{InQueueOrder[i] : i \in {j \in DOMAIN InQueueOrder : j <= seats}}}

\* Whoever is given the next ticket is served after everybody who holds one, and
\* before everybody who holds none.
NewTicketIsLast ==
  question = "promote" =>
    \A newcomer \in 1..QueueLength \ queue :
      \A next \in nextWaitlistPosition({ticket[i] : i \in queue} \ {Null}) :
        LET issued == [ticket EXCEPT ![newcomer] = next]
        IN  \A i \in queue :
              IF ticket[i] = Null THEN Before(issued, newcomer, i)
                                  ELSE Before(issued, i, newcomer)

\* findAll works with one size, the clamped one.
PageSize == clampPageSize(asked)

\* The pages a client fetches who starts at the first and goes on while hasNext.
Fetched ==
  LET next(page) == hasNext(page, Cardinality(DOMAIN table), PageSize)
  IN  {page \in 1..MaxRows + 2 : \A earlier \in 1..page - 1 : next(earlier)}

\* What the database returns for them, one query after the other.
Walks == [Fetched -> Results(table, orders)]

\* Whoever follows hasNext to its end has seen every event, and no event twice,
\* whatever column is sorted by, however many rows have the same value in it, and
\* in whatever order the database returns those.
WalkSeesEachRowOnce ==
  question = "list" =>
    \A walk \in Walks, row \in DOMAIN table :
      \E page \in Fetched :
        /\ row \in ToSet(Slice(walk[page], page, PageSize))
        /\ \A other \in Fetched \ {page} : row \notin ToSet(Slice(walk[other], other, PageSize))

\* No page that hasNext announced is empty.
NoEmptyPage ==
  question = "list" /\ DOMAIN table # {} =>
    \A walk \in Walks, page \in Fetched : Slice(walk[page], page, PageSize) # <<>>

\* An operation declares 401 exactly if it turns a call without a key away, and what
\* else is refused before its handler runs is declared too.  An id that is no version
\* 7 uuid is left aside; the README says which operations do not declare its 400.
KeyedAsDeclared ==
  question = "call" =>
    LET declared == Routes[route].declares
        answers == {toProblem(exception) : exception \in Refused(Routes[route], call)}
    IN  /\ call.key = "none" => (401 \in declared <=> answers = {401})
        /\ "id" \in call.wellFormed => answers \subseteq declared
=============================================================================
