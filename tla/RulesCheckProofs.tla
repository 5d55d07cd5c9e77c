-------------------------- MODULE RulesCheckProofs --------------------------
(***************************************************************************)
(* Proofs about the rules, for schedules, queues and tables of any size:   *)
(*   CoherentOpens       Spec => []CoherentEventsOpen                      *)
(*   CloseIsFirst        Spec => []CloseTimeIsReportedFirst                *)
(*   SelectionSliced     Spec => []SelectionIsSlice                        *)
(*   NewTicketLast       Spec => []NewTicketIsLast                         *)
(*   WalkComplete        Spec => []WalkSeesEachRowOnce                     *)
(*   PagesFilled         Spec => []NoEmptyPage                             *)
(*   KeysDeclared        Spec => []KeyedAsDeclared                         *)
(* Nothing but the arguments of a question is carried from one state to    *)
(* the next, so that the inductive invariant is their type; what is proved *)
(* is that the rules do what they promise for all of them.                 *)
(***************************************************************************)
EXTENDS RulesCheck, RuleProofs

\* What is asked has the type of what is asked.
Asked ==
  /\ question = "register" =>
       event \in Contexts /\ Coherent(event) /\ now \in Instants /\ confirmed \in 0..2
  /\ question = "promote" =>
       /\ queue \in SUBSET (1..QueueLength)
       /\ ticket \in [1..QueueLength -> {Null} \cup 1..QueueLength]
       /\ seats \in 0..QueueLength
  /\ question = "list" =>
       /\ table \in {WithIds(t) : t \in Tables}
       /\ orders \in UNION {parseSort(parts) : parts \in SortParameters}
       /\ asked \in Sizes
  /\ question = "call" => route \in DOMAIN Routes /\ call \in Calls

\* Every question is asked with such arguments.
LEMMA AskedInv == Spec => []Asked
<1>1. Init => Asked
  BY DEF Init, Asked
<1>2. Asked /\ [Next]_vars => Asked'
  <2> SUFFICES ASSUME Asked, [Next]_vars PROVE Asked'
    OBVIOUS
  <2>1. CASE AskRegister
    BY <2>1 DEF AskRegister, Asked
  <2>2. CASE AskPromote
    BY <2>2 DEF AskPromote, Asked
  <2>3. CASE AskList
    BY <2>3 DEF AskList, Asked
  <2>4. CASE AskCall
    BY <2>4 DEF AskCall, Asked
  <2>5. CASE Answered
    BY <2>5 DEF Answered, Asked
  <2>6. CASE UNCHANGED vars
    BY <2>6 DEF Asked, vars, registerVars, promoteVars, listVars, callVars
  <2> QED
    BY <2>1, <2>2, <2>3, <2>4, <2>5, <2>6 DEF Next
<1> QED
  BY <1>1, <1>2, PTL DEF Spec

-----------------------------------------------------------------------------
(* Who may register.                                                       *)

\* What is asked of a schedule that the service accepted.
LEMMA Schedule ==
  ASSUME Asked, question = "register"
  PROVE  LET opens == event.registrationOpensAt
             closes == event.registrationClosesAt
         IN  /\ event.startsAt \in 1..LastInstant
             /\ opens \in Nat \cup {Null} /\ closes \in Nat \cup {Null}
             /\ opens # Null => opens \in Instants
             /\ event.capacity \in Nat \ {0} /\ now \in Nat
             /\ closes # Null => closes <= event.startsAt
             /\ opens # Null /\ closes # Null => opens < closes
             /\ opens # Null /\ closes = Null => opens <= event.startsAt
<1> DEFINE opens == event.registrationOpensAt
           closes == event.registrationClosesAt
<1>1. event \in Contexts /\ Coherent(event) /\ now \in Instants
  BY DEF Asked
<1>2. /\ event.startsAt \in Instants \ {0} /\ event.capacity \in {1, 2}
      /\ opens \in Instants \cup {Null} /\ closes \in Instants \cup {Null}
  BY <1>1 DEF Contexts, Optional
<1>3. LastInstant \in Nat /\ Instants \subseteq Nat
  BY BoundsAssumption DEF Instants
<1>4. "registrationClosesAt" \notin ScheduleViolations(event)
      /\ "registrationOpensAt" \notin ScheduleViolations(event)
  BY <1>1 DEF Coherent
<1>5. closes # Null => ~(closes > event.startsAt)
  BY <1>4 DEF ScheduleViolations
<1>6. /\ opens # Null /\ closes # Null => ~(opens >= closes)
      /\ opens # Null /\ closes = Null => ~(opens > event.startsAt)
  BY <1>4 DEF ScheduleViolations
<1>7. event.startsAt \in 1..LastInstant
  BY <1>2, <1>3 DEF Instants
<1>8. event.capacity \in Nat \ {0} /\ now \in Nat
  BY <1>1, <1>2, <1>3
<1> HIDE DEF opens, closes
<1>9. /\ opens \in Nat \cup {Null} /\ closes \in Nat \cup {Null}
      /\ opens # Null => opens \in Instants
  BY <1>2, <1>3, Zenon
<1>10. event.startsAt \in Int /\ opens \in Int /\ closes \in Int
  BY <1>7, <1>9, BoundsAssumption DEF Null
<1>11. /\ closes # Null => closes <= event.startsAt
       /\ opens # Null /\ closes # Null => opens < closes
       /\ opens # Null /\ closes = Null => opens <= event.startsAt
  BY <1>5, <1>6, <1>10 DEF opens, closes
<1> QED
  BY <1>7, <1>8, <1>9, <1>11 DEF opens, closes

\* A schedule the service accepts leaves an instant at which an empty published event
\* can be booked, unless registration opens at the very start and never closes.
THEOREM CoherentOpens == Spec => []CoherentEventsOpen
<1>1. Asked => CoherentEventsOpen
  <2> SUFFICES ASSUME Asked, question = "register", event.status = "PUBLISHED"
               PROVE  (\E t \in Instants : decideRegistration(event, t, 0) = "CONFIRMED")
                        <=> ~(/\ event.registrationClosesAt = Null
                              /\ event.registrationOpensAt = event.startsAt)
    BY DEF CoherentEventsOpen
  <2> DEFINE opens == event.registrationOpensAt
             closes == event.registrationClosesAt
             starts == event.startsAt
  <2>1. /\ starts \in 1..LastInstant /\ opens \in Nat \cup {Null} /\ closes \in Nat \cup {Null}
        /\ opens # Null => opens \in Instants
        /\ closes # Null => closes <= starts
        /\ opens # Null /\ closes # Null => opens < closes
        /\ opens # Null /\ closes = Null => opens <= starts
    BY Schedule
  <2>2. 0 < event.capacity
    BY Schedule
  <2>3. \A t \in Instants : decideRegistration(event, t, 0) = "CONFIRMED" <=>
          /\ ~(opens # Null /\ t < opens)
          /\ ~(closes # Null /\ t > closes)
          /\ ~(t >= starts)
    BY <2>2 DEF decideRegistration
  <2>4. 0 \in Instants /\ Instants \subseteq Nat
    BY BoundsAssumption DEF Instants
  <2> HIDE DEF opens, closes, starts
  <2>5. ASSUME ~(closes = Null /\ opens = starts)
        PROVE  \E t \in Instants : /\ ~(opens # Null /\ t < opens)
                                   /\ ~(closes # Null /\ t > closes)
                                   /\ ~(t >= starts)
    <3>1. CASE opens = Null
      BY <2>1, <2>4, <3>1 DEF Null
    <3>2. CASE opens # Null
      BY <2>1, <2>4, <2>5, <3>2 DEF Null
    <3> QED
      BY <3>1, <3>2
  <2>6. ASSUME closes = Null, opens = starts, NEW t \in Instants
        PROVE  (opens # Null /\ t < opens) \/ t >= starts
    BY <2>1, <2>4, <2>6 DEF Null
  <2> QED
    BY <2>3, <2>5, <2>6 DEF opens, closes, starts
<1> QED
  BY <1>1, AskedInv, PTL

\* An event with a close time is reported as started only at the single instant at
\* which it both closes and starts.
THEOREM CloseIsFirst == Spec => []CloseTimeIsReportedFirst
<1>1. Asked => CloseTimeIsReportedFirst
  <2> SUFFICES ASSUME Asked, question = "register", event.registrationClosesAt # Null,
                      decideRegistration(event, now, confirmed) = "event-already-started"
               PROVE  now = event.startsAt /\ now = event.registrationClosesAt
    BY DEF CloseTimeIsReportedFirst
  <2>1. /\ event.startsAt \in Nat /\ now \in Nat
        /\ event.registrationClosesAt \in Nat
        /\ event.registrationClosesAt <= event.startsAt
    BY Schedule, BoundsAssumption
  <2>2. /\ ~(now > event.registrationClosesAt)
        /\ now >= event.startsAt
    BY DEF decideRegistration
  <2> QED
    BY <2>1, <2>2
<1> QED
  BY <1>1, AskedInv, PTL

-----------------------------------------------------------------------------
(* Who moves up.                                                           *)

\* What is asked of a queue.
LEMMA AskedQueue ==
  ASSUME Asked, question = "promote"
  PROVE  /\ Queue(queue, ticket) /\ seats \in Nat
         /\ \A r \in 1..QueueLength :
              r \in Nat /\ ticket[r] \in {Null} \cup 1..QueueLength
         /\ queue \subseteq 1..QueueLength /\ DOMAIN ticket = 1..QueueLength
<1>1. /\ queue \in SUBSET (1..QueueLength)
      /\ ticket \in [1..QueueLength -> {Null} \cup 1..QueueLength]
      /\ seats \in 0..QueueLength
  BY DEF Asked
<1>2. IsFiniteSet(1..QueueLength)
  BY BoundsAssumption, FS_Interval
<1>3. IsFiniteSet(queue)
  BY <1>1, <1>2, FS_Subset
<1>4. \A r \in 1..QueueLength : r \in Nat /\ ticket[r] \in {Null} \cup 1..QueueLength
  BY <1>1
<1>5. Queue(queue, ticket)
  BY <1>1, <1>3, <1>4 DEF Queue
<1> QED
  BY <1>1, <1>4, <1>5

\* The set that Booking promotes is the slice of the sorted queue, whatever tickets are
\* missing or doubled.
THEOREM SelectionSliced == Spec => []SelectionIsSlice
<1>1. Asked => SelectionIsSlice
  <2> SUFFICES ASSUME Asked, question = "promote"
               PROVE  selectForPromotion(queue, ticket, seats) =
                        {{InQueueOrder[i] : i \in {j \in DOMAIN InQueueOrder : j <= seats}}}
    BY DEF SelectionIsSlice
  <2> DEFINE n == Cardinality(queue)
             pos == QueuePlaces(queue, ticket)
             Sorted(s) == \A i, j \in DOMAIN s : i < j =>
                            \/ SortKey(s[i]) < SortKey(s[j])
                            \/ SortKey(s[i]) = SortKey(s[j]) /\ s[i] < s[j]
  <2>1. /\ Queue(queue, ticket) /\ seats \in Nat
        /\ \A r \in queue : r \in Nat /\ ticket[r] \in {Null} \cup 1..QueueLength
    BY AskedQueue
  <2>2. /\ Ranked(queue, pos)
        /\ \A a, b \in queue : Before(ticket, a, b) <=> pos[a] < pos[b]
    BY <2>1, QueueRanked
  <2>3. \A a, b \in queue : Before(ticket, a, b) <=>
          SortKey(a) < SortKey(b) \/ (SortKey(a) = SortKey(b) /\ a < b)
    BY <2>1, BoundsAssumption DEF Before, SortKey, Null
  <2> HIDE DEF pos
  <2>4. \A s \in [1..n -> queue] : Sorted(s) <=> Lists(s, queue, pos)
    BY <2>2, <2>3 DEF Lists
  <2>5. \E s : Lists(s, queue, pos)
    BY <2>2, ListExists
  <2>6. \E s \in [1..n -> queue] : Sorted(s)
    BY <2>4, <2>5 DEF Lists
  <2>7. InQueueOrder \in [1..n -> queue] /\ Sorted(InQueueOrder)
    BY <2>6 DEF InQueueOrder
  <2> HIDE DEF Sorted
  <2>8. Lists(InQueueOrder, queue, pos) /\ DOMAIN InQueueOrder = 1..n
    BY <2>4, <2>7
  <2>9. selectForPromotion(queue, ticket, seats) =
          {{InQueueOrder[i] : i \in {j \in 1..n : j <= seats}}}
    <3>1. \A S, tickets, k, s :
            Queue(S, tickets) /\ k \in Nat /\ Lists(s, S, QueuePlaces(S, tickets)) =>
              selectForPromotion(S, tickets, k) =
                {{s[i] : i \in {j \in 1..Cardinality(S) : j <= k}}}
      BY SelectionIsFront
    <3>2. Lists(InQueueOrder, queue, QueuePlaces(queue, ticket))
      BY <2>8 DEF pos
    <3>3. selectForPromotion(queue, ticket, seats) =
            {{InQueueOrder[i] : i \in {j \in 1..Cardinality(queue) : j <= seats}}}
      BY <2>1, <3>1, <3>2
    <3> QED
      BY <3>3
  <2> QED
    BY <2>8, <2>9
<1> QED
  BY <1>1, AskedInv, PTL

\* Whoever is given the next ticket is served after everybody who holds one, and before
\* everybody who holds none.
THEOREM NewTicketLast == Spec => []NewTicketIsLast
<1>1. Asked => NewTicketIsLast
  <2> DEFINE tickets == {ticket[i] : i \in queue} \ {Null}
  <2> SUFFICES ASSUME Asked, question = "promote",
                      NEW newcomer \in 1..QueueLength \ queue,
                      NEW next \in nextWaitlistPosition(tickets), NEW i \in queue
               PROVE  LET issued == [ticket EXCEPT ![newcomer] = next]
                      IN  IF ticket[i] = Null THEN Before(issued, newcomer, i)
                                              ELSE Before(issued, i, newcomer)
    BY DEF NewTicketIsLast
  <2>1. /\ Queue(queue, ticket) /\ queue \subseteq 1..QueueLength
        /\ DOMAIN ticket = 1..QueueLength
        /\ \A r \in 1..QueueLength : ticket[r] \in {Null} \cup 1..QueueLength
    BY AskedQueue
  <2>2. tickets \in SUBSET Nat /\ IsFiniteSet(tickets)
    <3>1. IsFiniteSet({ticket[r] : r \in queue})
      BY <2>1, FiniteImage DEF Queue
    <3>2. tickets \in SUBSET {ticket[r] : r \in queue}
      OBVIOUS
    <3>3. tickets \in SUBSET Nat
      BY <2>1, BoundsAssumption
    <3> QED
      BY <3>1, <3>2, <3>3, FS_Subset
  <2>3. next \in Nat /\ next > 0 /\ \A t \in tickets : t < next
    <3> HIDE DEF tickets
    <3> QED
      BY <2>2, NextTicket
  <2> DEFINE issued == [ticket EXCEPT ![newcomer] = next]
  <2>4. issued[newcomer] = next /\ issued[i] = ticket[i]
    BY <2>1
  <2>5. ticket[i] # Null => ticket[i] \in tickets
    OBVIOUS
  <2>6. ticket[i] \in {Null} \cup Nat
    BY <2>1, BoundsAssumption
  <2> HIDE DEF issued, tickets
  <2>7. IF ticket[i] = Null THEN Before(issued, newcomer, i) ELSE Before(issued, i, newcomer)
    BY <2>3, <2>4, <2>5, <2>6 DEF Before, Null
  <2> QED
    BY <2>7 DEF issued
<1> QED
  BY <1>1, AskedInv, PTL

-----------------------------------------------------------------------------
(* Pages.                                                                  *)

\* Rounding down.
LEMMA Quotient ==
  ASSUME NEW a \in Nat, NEW b \in Nat \ {0}
  PROVE  a \div b \in Nat /\ (a \div b) * b <= a /\ a < (a \div b) * b + b
  BY SMT

\* Of two pages the later one begins where the earlier one ends, or behind that.
LEMMA PagesApart ==
  ASSUME NEW p \in Nat, NEW q \in Nat, NEW size \in Nat \ {0}, p < q
  PROVE  p * size \in Nat /\ q * size \in Nat /\ p * size + size <= q * size
  BY SMT

\* A page is one of totalPages exactly if it begins before the rows end.
LEMMA PageBegins ==
  ASSUME NEW n \in Nat, NEW size \in Nat \ {0}, NEW page \in Nat \ {0}
  PROVE  /\ totalPages(n, size) \in Nat /\ toSkip(page, size) \in Nat
         /\ page <= totalPages(n, size) <=> toSkip(page, size) < n
<1> DEFINE a == n + size - 1
           pages == a \div size
           skip == (page - 1) * size
<1>1. a \in Nat
  OBVIOUS
<1>2. pages \in Nat /\ pages * size <= a /\ a < pages * size + size
  BY <1>1, Quotient
<1>3. pages * size \in Nat /\ skip \in Nat
  BY <1>2
<1> HIDE DEF pages
<1>4. page <= pages => skip + size <= pages * size
  <2>1. ASSUME page <= pages PROVE skip + size <= pages * size
    <3>1. page - 1 \in Nat /\ page - 1 < pages
      BY <1>2, <2>1
    <3> QED
      BY <1>2, <3>1, PagesApart
  <2> QED
    BY <2>1
<1>5. page > pages => pages * size <= skip
  <2>1. ASSUME page > pages PROVE pages * size <= skip
    <3>1. page - 1 \in Nat /\ (pages = page - 1 \/ pages < page - 1)
      BY <1>2, <2>1
    <3>2. CASE pages = page - 1
      BY <1>3, <3>2
    <3>3. CASE pages < page - 1
      <4>1. pages * size + size <= skip
        BY <1>2, <3>1, <3>3, PagesApart
      <4> QED
        BY <1>3, <4>1
    <3> QED
      BY <3>1, <3>2, <3>3
  <2> QED
    BY <2>1
<1> HIDE DEF skip
<1>6. page <= pages <=> skip < n
  BY <1>2, <1>3, <1>4, <1>5
<1> QED
  BY <1>2, <1>3, <1>6 DEF totalPages, toSkip, pages, skip

\* What a page holds: the rows between its first place and its last.
LEMMA SliceHolds ==
  ASSUME NEW n \in Nat, NEW rows \in [1..n -> Nat],
         NEW size \in Nat \ {0}, NEW page \in Nat \ {0}
  PROVE  LET skip == toSkip(page, size)
         IN  /\ \A row : row \in ToSet(Slice(rows, page, size)) <=>
                  \E i \in 1..n : skip < i /\ i <= skip + size /\ row = rows[i]
             /\ skip < n => Slice(rows, page, size) # <<>>
<1> DEFINE skip == toSkip(page, size)
           last == Min({skip + size, n})
           slice == SubSeq(rows, skip + 1, last)
           m == IF skip + 1 <= last THEN last - (skip + 1) + 1 ELSE 0
<1>1. skip \in Nat
  BY PageBegins
<1>2. Len(rows) = n /\ rows \in Seq(Nat)
  BY LenProperties, IsASeq
<1> HIDE DEF skip
<1>3. /\ last \in Nat /\ last <= n /\ last <= skip + size
      /\ last = n \/ last = skip + size
  <2>1. \E x \in {skip + size, n} : \A y \in {skip + size, n} : x <= y
    BY <1>1
  <2>2. last \in {skip + size, n} /\ \A y \in {skip + size, n} : last <= y
    BY <2>1 DEF Min
  <2> QED
    BY <1>1, <2>2
<1>4. Slice(rows, page, size) = slice
  BY <1>2 DEF Slice, skip
<1> HIDE DEF last
<1>5. /\ slice \in Seq(Nat) /\ Len(slice) = m
      /\ \A j \in 1..(last - (skip + 1) + 1) : slice[j] = rows[(skip + 1) + j - 1]
  <2>1. \A i \in (skip + 1)..last : rows[i] \in Nat
    BY <1>1, <1>3
  <2>2. rows \in Seq(Nat) /\ skip + 1 \in Int /\ last \in Int
    BY <1>1, <1>2, <1>3
  <2>3. /\ slice \in Seq(Nat)
        /\ Len(slice) = IF skip + 1 <= last THEN last - (skip + 1) + 1 ELSE 0
        /\ \A j \in 1..(last - (skip + 1) + 1) : slice[j] = rows[(skip + 1) + j - 1]
    BY <2>1, <2>2, SubSeqProperties
  <2> QED
    BY <2>3
<1>6. m \in Nat /\ m = (IF skip < last THEN last - skip ELSE 0)
  BY <1>1, <1>3
<1> HIDE DEF slice, m
<1>7. DOMAIN slice = 1..m /\ \A j \in 1..m : slice[j] = rows[skip + j]
  <2>1. DOMAIN slice = 1..m
    BY <1>5, LenProperties
  <2>2. ASSUME NEW j \in 1..m PROVE slice[j] = rows[skip + j]
    <3>1. j \in 1..(last - (skip + 1) + 1) /\ (skip + 1) + j - 1 = skip + j
      BY <1>1, <1>3, <1>6
    <3> QED
      BY <1>5, <3>1
  <2> QED
    BY <2>1, <2>2
<1>8. ToSet(slice) = {slice[j] : j \in 1..m}
  BY <1>7 DEF ToSet
<1>9. \A j \in 1..m : skip + j \in {i \in 1..n : skip < i /\ i <= skip + size}
  BY <1>1, <1>3, <1>6
<1>10. \A i \in 1..n : skip < i /\ i <= skip + size => i - skip \in 1..m
  BY <1>1, <1>3, <1>6
<1>11. \A row : row \in {slice[j] : j \in 1..m} <=>
         \E i \in 1..n : skip < i /\ i <= skip + size /\ row = rows[i]
  <2>1. ASSUME NEW j \in 1..m
        PROVE  \E i \in 1..n : skip < i /\ i <= skip + size /\ slice[j] = rows[i]
    BY <1>7, <1>9
  <2>2. ASSUME NEW k \in 1..n, skip < k, k <= skip + size
        PROVE  rows[k] \in {slice[j] : j \in 1..m}
    <3>1. k - skip \in 1..m
      BY <1>10, <2>2
    <3>2. skip + (k - skip) = k
      BY <1>1
    <3> QED
      BY <1>7, <3>1, <3>2
  <2> QED
    BY <2>1, <2>2
<1>12. skip < n => slice # <<>>
  <2>1. skip < n => 1 \in 1..m
    BY <1>1, <1>3, <1>6
  <2>2. DOMAIN << >> = {}
    OBVIOUS
  <2> QED
    BY <1>7, <2>1, <2>2
<1> QED
  BY <1>4, <1>8, <1>11, <1>12 DEF skip

\* What is asked of a table: n rows with ids of their own, sorted by a column and then
\* by the id.
LEMMA AskedTable ==
  ASSUME Asked, question = "list"
  PROVE  \E n \in 0..MaxRows, field \in EVENT_SORT_FIELDS, direction \in {"asc", "desc"} :
           /\ DOMAIN table = 1..n
           /\ orders = <<Order(field, direction), Order("id", "asc")>>
           /\ \A row \in 1..n : table[row]["id"] = row /\ table[row][field] \in Int
<1>1. /\ table \in {WithIds(t) : t \in Tables}
      /\ orders \in UNION {parseSort(parts) : parts \in SortParameters}
  BY DEF Asked
<1>2. PICK t \in Tables : table = WithIds(t)
  BY <1>1
<1>3. PICK n \in 0..MaxRows : t \in [1..n -> [startsAt : {1}, title : {1, 2}]]
  BY <1>2 DEF Tables
<1>4. DOMAIN table = 1..n
  BY <1>2, <1>3 DEF WithIds
<1>5. \A row \in 1..n :
        /\ table[row] = [id |-> row, startsAt |-> t[row].startsAt, title |-> t[row].title]
        /\ t[row].startsAt \in Int /\ t[row].title \in Int
  BY <1>2, <1>3 DEF WithIds
<1>6. \A row \in 1..n : /\ table[row]["id"] = row
                        /\ table[row]["startsAt"] \in Int /\ table[row]["title"] \in Int
  <2> SUFFICES ASSUME NEW row \in 1..n
               PROVE  /\ table[row]["id"] = row
                      /\ table[row]["startsAt"] \in Int /\ table[row]["title"] \in Int
    OBVIOUS
  <2>1. PICK starts \in Int, title \in Int :
          table[row] = [id |-> row, startsAt |-> starts, title |-> title]
    BY <1>5
  <2>2. table[row]["id"] = row
    BY <2>1
  <2>3. table[row]["startsAt"] \in Int
    BY <2>1
  <2>4. table[row]["title"] \in Int
    BY <2>1
  <2> QED
    BY <2>2, <2>3, <2>4
<1>7. \E field \in EVENT_SORT_FIELDS, direction \in {"asc", "desc"} :
        orders = withTiebreak(<<Order(field, direction)>>)
  <2>1. PICK parts \in SortParameters : orders \in parseSort(parts)
    BY <1>1
  <2>2. CASE parts = << >>
    BY <2>1, <2>2 DEF parseSort, EVENT_SORT_FIELDS
  <2>3. CASE parts # << >>
    <3>1. PICK o \in EVENT_SORT_FIELDS \X {"asc", "desc"} :
            orders = withTiebreak(<<Order(o[1], o[2])>>)
      BY <2>1, <2>3 DEF parseSort
    <3> QED
      BY <3>1
  <2> QED
    BY <2>2, <2>3
<1>8. PICK field \in EVENT_SORT_FIELDS, direction \in {"asc", "desc"} :
        orders = withTiebreak(<<Order(field, direction)>>)
  BY <1>7
<1>9. orders = <<Order(field, direction), Order("id", "asc")>>
  <2> DEFINE one == <<Order(field, direction)>>
  <2>1. DOMAIN one = {1} /\ one[1].field = field
    BY DEF Order
  <2>2. field # "id"
    BY DEF EVENT_SORT_FIELDS
  <2>3. withTiebreak(one) = Append(one, Order("id", "asc"))
    BY <2>1, <2>2 DEF withTiebreak
  <2> QED
    BY <1>8, <2>3
<1>10. \A row \in 1..n : table[row][field] \in Int
  BY <1>6 DEF EVENT_SORT_FIELDS
<1> QED
  BY <1>4, <1>6, <1>9, <1>10

\* The ORDER BY leaves the database one order in which to return the rows.
LEMMA OneResult ==
  ASSUME Asked, question = "list"
  PROVE  \E n \in 0..MaxRows : \E rows \in [1..n -> 1..n] :
           /\ Cardinality(DOMAIN table) = n /\ DOMAIN table = 1..n
           /\ Results(table, orders) = {rows}
           /\ \A i, j \in 1..n : rows[i] = rows[j] => i = j
           /\ \A row \in 1..n : \E i \in 1..n : rows[i] = row
<1>1. PICK n \in 0..MaxRows, field \in EVENT_SORT_FIELDS, direction \in {"asc", "desc"} :
        /\ DOMAIN table = 1..n
        /\ orders = <<Order(field, direction), Order("id", "asc")>>
        /\ \A row \in 1..n : table[row]["id"] = row /\ table[row][field] \in Int
  BY AskedTable
<1> DEFINE S == 1..n
           first(a, b) == IF direction = "asc" THEN table[a][field] < table[b][field]
                                               ELSE table[a][field] > table[b][field]
           less == {p \in S \X S : Precedes(table, orders, p[1], p[2])}
           pos == Places(less, S)
<1>2. n \in Nat /\ IsFiniteSet(S) /\ Cardinality(S) = n
  BY BoundsAssumption, FS_Interval
<1>3. /\ DOMAIN orders = {1, 2}
      /\ orders[1].field = field /\ orders[1].direction = direction
      /\ orders[2].field = "id" /\ orders[2].direction = "asc"
  BY <1>1 DEF Order
<1>4. ASSUME NEW a \in S, NEW b \in S
      PROVE  Precedes(table, orders, a, b) <=>
               first(a, b) \/ (table[a][field] = table[b][field] /\ a < b)
  <2> DEFINE x(i, row) == table[row][orders[i].field]
             apart(i) == /\ IF orders[i].direction = "asc" THEN x(i, a) < x(i, b)
                                                           ELSE x(i, a) > x(i, b)
                         /\ \A j \in 1..i - 1 : x(j, a) = x(j, b)
  <2>1. Precedes(table, orders, a, b) <=> apart(1) \/ apart(2)
    BY <1>3 DEF Precedes
  <2>2. apart(1) <=> first(a, b)
    BY <1>3
  <2>3. apart(2) <=> table[a][field] = table[b][field] /\ a < b
    <3>1. 1..(2 - 1) = {1}
      OBVIOUS
    <3>2. x(2, a) = a /\ x(2, b) = b /\ x(1, a) = table[a][field] /\ x(1, b) = table[b][field]
      BY <1>1, <1>3
    <3> HIDE DEF x
    <3> QED
      BY <1>3, <3>1, <3>2
  <2> QED
    BY <2>1, <2>2, <2>3
<1>5. \A a, b \in S : <<a, b>> \in less <=> Precedes(table, orders, a, b)
  OBVIOUS
<1>6. \A a, b \in S : <<a, b>> \in less <=>
        first(a, b) \/ (table[a][field] = table[b][field] /\ a < b)
  BY <1>4, <1>5
<1>7. \A a \in S : a \in Int /\ table[a][field] \in Int
  BY <1>1
<1> HIDE DEF S, less
<1>8. /\ \A a \in S : <<a, a>> \notin less
      /\ \A a, b \in S : a # b => <<a, b>> \in less \/ <<b, a>> \in less
  BY <1>6, <1>7
<1>9. \A a, b, c \in S : <<a, b>> \in less /\ <<b, c>> \in less => <<a, c>> \in less
  BY <1>6, <1>7
<1>10. Orders(less, S)
  BY <1>2, <1>8, <1>9 DEF Orders
<1>11. /\ Ranked(S, pos)
       /\ \A a, b \in S : <<a, b>> \in less <=> pos[a] < pos[b]
  BY <1>10, PlacesRank
<1> HIDE DEF pos
<1>12. PICK rows : Lists(rows, S, pos)
  BY <1>11, ListExists
<1>13. \A i, j \in 1..n : \A s \in [1..n -> S] :
         s[i] # s[j] /\ ~Precedes(table, orders, s[j], s[i]) <=> pos[s[i]] < pos[s[j]]
  <2>1. \A a, b \in S : <<a, b>> \in less => <<b, a>> \notin less /\ a # b
    BY <1>8, <1>9
  <2>2. \A a, b \in S : a # b /\ <<b, a>> \notin less <=> pos[a] < pos[b]
    BY <1>8, <1>11, <2>1
  <2> QED
    BY <1>5, <2>2
<1>14. Results(table, orders) =
         {s \in [1..n -> S] : \A i, j \in 1..n :
            i < j => s[i] # s[j] /\ ~Precedes(table, orders, s[j], s[i])}
  <2>1. Cardinality(DOMAIN table) = n /\ DOMAIN table = S
    BY <1>1, <1>2 DEF S
  <2> QED
    BY <2>1 DEF Results
<1>15. \A s : s \in Results(table, orders) <=> Lists(s, S, pos)
  BY <1>2, <1>13, <1>14 DEF Lists
<1>16. \A s : Lists(s, S, pos) => s = rows
  BY <1>11, <1>12, ListUnique
<1>17. Results(table, orders) = {rows}
  BY <1>12, <1>15, <1>16
<1>18. /\ \A i, j \in 1..n : rows[i] = rows[j] => i = j
       /\ \A row \in S : \E i \in 1..n : rows[i] = row
  BY <1>2, <1>11, <1>12, ListBijective
<1>19. rows \in [1..n -> 1..n]
  BY <1>2, <1>12 DEF Lists, S
<1>20. Cardinality(DOMAIN table) = n /\ DOMAIN table = 1..n
  BY <1>1, <1>2 DEF S
<1>21. \A row \in 1..n : \E i \in 1..n : rows[i] = row
  BY <1>18 DEF S
<1> QED
  BY <1>17, <1>18, <1>19, <1>20, <1>21

\* The client fetches the first page, and then those that begin before the rows end.
LEMMA PagesFetched ==
  ASSUME Asked, question = "list", NEW n \in Nat, Cardinality(DOMAIN table) = n
  PROVE  /\ PageSize \in Nat \ {0}
         /\ \A page : page \in Fetched <=>
              page \in 1..MaxRows + 2 /\ (page = 1 \/ toSkip(page, PageSize) < n)
<1>1. PageSize \in Nat \ {0}
  <2> DEFINE least == Max({asked, 1})
  <2>1. asked \in Int /\ MAX_PAGE_SIZE \in Nat \ {0}
    BY BoundsAssumption, PageSizeAssumption DEF Asked
  <2>2. least \in {asked, 1} /\ \A y \in {asked, 1} : least >= y
    <3>1. \E x \in {asked, 1} : \A y \in {asked, 1} : x >= y
      BY <2>1
    <3> QED
      BY <3>1 DEF Max
  <2>3. least \in Nat \ {0}
    BY <2>1, <2>2
  <2> HIDE DEF least
  <2>4. \E x \in {least, MAX_PAGE_SIZE} : \A y \in {least, MAX_PAGE_SIZE} : x <= y
    BY <2>1, <2>3
  <2>5. Min({least, MAX_PAGE_SIZE}) \in {least, MAX_PAGE_SIZE}
    BY <2>4 DEF Min
  <2>6. PageSize = Min({least, MAX_PAGE_SIZE})
    BY DEF PageSize, clampPageSize, least
  <2> QED
    BY <2>1, <2>3, <2>5, <2>6
<1> DEFINE pages == totalPages(n, PageSize)
<1>2. pages \in Nat
  BY <1>1, PageBegins
<1>3. \A page : page \in Fetched <=>
        page \in 1..MaxRows + 2 /\ \A earlier \in 1..page - 1 : earlier < pages
  BY DEF Fetched, hasNext
<1>4. ASSUME NEW page \in 1..MaxRows + 2
      PROVE  (\A earlier \in 1..page - 1 : earlier < pages)
               <=> page = 1 \/ toSkip(page, PageSize) < n
  <2>1. page \in Nat \ {0}
    BY BoundsAssumption
  <2>2. page <= pages <=> toSkip(page, PageSize) < n
    BY <1>1, <2>1, PageBegins
  <2> HIDE DEF pages
  <2>3. (\A earlier \in 1..page - 1 : earlier < pages) <=> page = 1 \/ page <= pages
    <3>1. page # 1 => page - 1 \in 1..page - 1
      BY <2>1
    <3> QED
      BY <1>2, <2>1, <3>1
  <2> QED
    BY <2>2, <2>3
<1> QED
  BY <1>1, <1>3, <1>4

\* A query returned n rows, none of them twice.
Returned(rows, n) ==
  rows \in [1..n -> Nat] /\ \A i, j \in 1..n : rows[i] = rows[j] => i = j

\* `page' begins before the rows end, and is the only page to hold the k-th of them.
OnlyPage(page, k, rows, n, size) ==
  /\ toSkip(page, size) < n
  /\ \A other \in Nat \ {0} :
       rows[k] \in ToSet(Slice(rows, other, size)) <=> other = page

\* Every row has one page.
LEMMA PageOfRow ==
  ASSUME NEW n \in Nat, NEW rows, Returned(rows, n),
         NEW size \in Nat \ {0}, NEW k \in 1..n
  PROVE  \E page \in 1..n : OnlyPage(page, k, rows, n, size)
<1> DEFINE full == (k - 1) \div size
           page == full + 1
<1>0. rows \in [1..n -> Nat] /\ \A i, j \in 1..n : rows[i] = rows[j] => i = j
  BY DEF Returned
<1>1. ASSUME NEW other \in Nat \ {0}
      PROVE  rows[k] \in ToSet(Slice(rows, other, size))
               <=> toSkip(other, size) < k /\ k <= toSkip(other, size) + size
  <2>1. rows[k] \in ToSet(Slice(rows, other, size)) <=>
          \E i \in 1..n : /\ toSkip(other, size) < i /\ i <= toSkip(other, size) + size
                          /\ rows[k] = rows[i]
    BY <1>0, SliceHolds
  <2> QED
    BY <1>0, <2>1
<1>2. full \in Nat /\ full * size <= k - 1 /\ k - 1 < full * size + size
  <2>1. k - 1 \in Nat
    OBVIOUS
  <2> QED
    BY <2>1, Quotient
<1> HIDE DEF full
<1>3. full <= full * size /\ full * size \in Nat
  BY <1>2, SMT
<1>4. toSkip(page, size) = full * size
  BY <1>2 DEF toSkip
<1>5. page \in 1..n /\ toSkip(page, size) < n
  BY <1>2, <1>3, <1>4
<1>6. rows[k] \in ToSet(Slice(rows, page, size))
  <2>1. page \in Nat \ {0}
    BY <1>2
  <2>2. full * size < k /\ k <= full * size + size
    BY <1>2, <1>3
  <2> QED
    BY <1>1, <1>4, <2>1, <2>2
<1>7. ASSUME NEW other \in Nat \ {0}, other # page
      PROVE  rows[k] \notin ToSet(Slice(rows, other, size))
  <2> DEFINE before == other - 1
  <2>1. before \in Nat /\ before # full
    BY <1>2, <1>7
  <2>2. toSkip(other, size) = before * size
    BY DEF toSkip
  <2> HIDE DEF before
  <2>3. ~(before * size < k /\ k <= before * size + size)
    <3>1. CASE before < full
      <4>1. before * size + size <= full * size /\ before * size \in Nat
        BY <1>2, <2>1, <3>1, PagesApart
      <4> QED
        BY <1>2, <1>3, <4>1
    <3>2. CASE full < before
      <4>1. full * size + size <= before * size /\ before * size \in Nat
        BY <1>2, <2>1, <3>2, PagesApart
      <4> QED
        BY <1>2, <1>3, <4>1
    <3> QED
      BY <1>2, <2>1, <3>1, <3>2
  <2> QED
    BY <1>1, <2>2, <2>3
<1>8. OnlyPage(page, k, rows, n, size)
  BY <1>5, <1>6, <1>7 DEF OnlyPage
<1> QED
  BY <1>5, <1>8

\* Whoever follows hasNext to its end has seen every event, and no event twice: all the
\* queries return the rows in the same order, and cut it in the same places.
THEOREM WalkComplete == Spec => []WalkSeesEachRowOnce
<1>1. Asked => WalkSeesEachRowOnce
  <2> SUFFICES ASSUME Asked, question = "list", NEW walk \in Walks, NEW row \in DOMAIN table
               PROVE  \E page \in Fetched :
                        /\ row \in ToSet(Slice(walk[page], page, PageSize))
                        /\ \A other \in Fetched \ {page} :
                             row \notin ToSet(Slice(walk[other], other, PageSize))
    BY DEF WalkSeesEachRowOnce
  <2>1. PICK n \in 0..MaxRows : \E rows \in [1..n -> 1..n] :
          /\ Cardinality(DOMAIN table) = n /\ DOMAIN table = 1..n
          /\ Results(table, orders) = {rows}
          /\ \A i, j \in 1..n : rows[i] = rows[j] => i = j
          /\ \A r \in 1..n : \E i \in 1..n : rows[i] = r
    BY OneResult
  <2>2. PICK rows \in [1..n -> 1..n] :
          /\ Cardinality(DOMAIN table) = n /\ DOMAIN table = 1..n
          /\ Results(table, orders) = {rows}
          /\ \A i, j \in 1..n : rows[i] = rows[j] => i = j
          /\ \A r \in 1..n : \E i \in 1..n : rows[i] = r
    BY <2>1
  <2>3. n \in Nat /\ MaxRows \in Nat /\ n <= MaxRows
    BY BoundsAssumption
  <2>4. /\ PageSize \in Nat \ {0}
        /\ \A page : page \in Fetched <=>
             page \in 1..MaxRows + 2 /\ (page = 1 \/ toSkip(page, PageSize) < n)
    BY <2>2, <2>3, PagesFetched
  <2>5. \A page \in Fetched : walk[page] = rows
    <3>1. walk \in [Fetched -> {rows}]
      BY <2>2 DEF Walks
    <3> QED
      BY <3>1
  <2>6. \A page \in Fetched : page \in Nat \ {0}
    BY <2>3, <2>4
  <2>7. PICK k \in 1..n : rows[k] = row
    BY <2>2
  <2>8. PICK page \in 1..n : OnlyPage(page, k, rows, n, PageSize)
    <3>1. PICK size \in Nat \ {0} : PageSize = size
      BY <2>4
    <3>2. Returned(rows, n)
      <4>1. rows \in [1..n -> Nat]
        BY <2>3
      <4> QED
        BY <2>2, <4>1 DEF Returned
    <3>3. \E page \in 1..n : OnlyPage(page, k, rows, n, size)
      BY <2>3, <3>2, PageOfRow
    <3> QED
      BY <3>1, <3>3
  <2>9. page \in Fetched
    <3>1. page \in 1..MaxRows + 2
      BY <2>3
    <3> QED
      BY <2>4, <2>8, <3>1 DEF OnlyPage
  <2>10. \A other \in Nat \ {0} :
           row \in ToSet(Slice(rows, other, PageSize)) <=> other = page
    BY <2>7, <2>8 DEF OnlyPage
  <2> QED
    BY <2>5, <2>6, <2>9, <2>10
<1> QED
  BY <1>1, AskedInv, PTL

\* No page that hasNext announced is empty.
THEOREM PagesFilled == Spec => []NoEmptyPage
<1>1. Asked => NoEmptyPage
  <2> SUFFICES ASSUME Asked, question = "list", DOMAIN table # {},
                      NEW walk \in Walks, NEW page \in Fetched
               PROVE  Slice(walk[page], page, PageSize) # <<>>
    BY DEF NoEmptyPage
  <2>1. PICK n \in 0..MaxRows : \E rows \in [1..n -> 1..n] :
          /\ Cardinality(DOMAIN table) = n /\ DOMAIN table = 1..n
          /\ Results(table, orders) = {rows}
    BY OneResult
  <2>2. PICK rows \in [1..n -> 1..n] :
          /\ Cardinality(DOMAIN table) = n /\ DOMAIN table = 1..n
          /\ Results(table, orders) = {rows}
    BY <2>1
  <2>3. n \in Nat /\ MaxRows \in Nat /\ n > 0
    BY <2>2, BoundsAssumption
  <2>4. /\ PageSize \in Nat \ {0} /\ page \in 1..MaxRows + 2
        /\ page = 1 \/ toSkip(page, PageSize) < n
    BY <2>2, <2>3, PagesFetched
  <2>5. page \in Nat \ {0} /\ walk[page] = rows
    BY <2>2, <2>3, <2>4 DEF Walks
  <2>6. toSkip(page, PageSize) < n
    BY <2>3, <2>4 DEF toSkip
  <2>7. PICK size \in Nat \ {0} : PageSize = size
    BY <2>4
  <2>8. rows \in [1..n -> Nat]
    BY <2>2, <2>3
  <2>9. toSkip(page, size) < n => Slice(rows, page, size) # <<>>
    BY <2>3, <2>5, <2>8, SliceHolds
  <2> QED
    BY <2>5, <2>6, <2>7, <2>9
<1> QED
  BY <1>1, AskedInv, PTL

-----------------------------------------------------------------------------
(* Routes.                                                                 *)

\* What a route declares, against what it is guarded by.
Declared(r) ==
  /\ 401 \in r.declares <=> ~IsPublic(r)
  /\ r.throttled => 429 \in r.declares
  /\ "fields" \in r.validated => 400 \in r.declares
  /\ r.validated \subseteq {"id", "fields"}

\* A route has the description that its controller gives it.
LEMMA RouteOf ==
  ASSUME NEW name \in DOMAIN Routes
  PROVE  \E c \in Controllers : name \in DOMAIN c /\ Routes[name] = c[name]
<1>1. \E c \in Controllers : name \in DOMAIN c
  BY DEF Routes
<1> DEFINE chosen == CHOOSE c \in Controllers : name \in DOMAIN c
<1>2. chosen \in Controllers /\ name \in DOMAIN chosen
  BY <1>1
<1>3. Routes[name] = chosen[name]
  BY DEF Routes
<1> QED
  BY <1>2, <1>3

\* Every route declares what it must.
LEMMA RoutesDeclared ==
  ASSUME NEW name \in DOMAIN Routes
  PROVE  Declared(Routes[name])
<1>1. PICK c \in Controllers : name \in DOMAIN c /\ Routes[name] = c[name]
  BY RouteOf
<1>2. CASE c = EventsController
  BY <1>1, <1>2 DEF EventsController, Route, Declared, IsPublic
<1>3. CASE c = EventRegistrationsController
  BY <1>1, <1>3 DEF EventRegistrationsController, Route, Declared, IsPublic
<1>4. CASE c = EventWaitlistController
  BY <1>1, <1>4 DEF EventWaitlistController, Route, Declared, IsPublic
<1>5. CASE c = RegistrationsController
  BY <1>1, <1>5 DEF RegistrationsController, Route, Declared, IsPublic
<1>6. CASE c = AttendeesController
  BY <1>1, <1>6 DEF AttendeesController, Route, Declared, IsPublic
<1>7. CASE c = HealthController
  BY <1>1, <1>7 DEF HealthController, Route, Declared, IsPublic
<1> QED
  BY <1>1, <1>2, <1>3, <1>4, <1>5, <1>6, <1>7 DEF Controllers

\* An operation declares 401 exactly if it turns a call without a key away, and what
\* else is refused before its handler runs is declared too.
THEOREM KeysDeclared == Spec => []KeyedAsDeclared
<1>1. Asked => KeyedAsDeclared
  <2> SUFFICES ASSUME Asked, question = "call" PROVE KeyedAsDeclared
    BY DEF KeyedAsDeclared
  <2> DEFINE r == Routes[route]
             answers == {toProblem(exception) : exception \in Refused(r, call)}
  <2>1. call \in Calls /\ Declared(r)
    BY RoutesDeclared DEF Asked
  <2> HIDE DEF r
  <2>2. /\ toProblem(Domain("UnauthorizedError")) = 401
        /\ toProblem(Domain("ValidationFailedError")) = 400
        /\ toProblem(Http(429)) = 429 /\ toProblem(Http(400)) = 400
    BY DEF toProblem, Domain, Http, DomainStatus
  <2>3. CASE GuardRefuses(r, call)
    <3>1. answers = {401}
      BY <2>2, <2>3 DEF Refused
    <3> QED
      BY <2>1, <2>3, <3>1 DEF KeyedAsDeclared, Declared, GuardRefuses, r
  <2>4. CASE ~GuardRefuses(r, call) /\ r.throttled /\ call.spent
    <3>1. answers = {429}
      BY <2>2, <2>4 DEF Refused
    <3>2. call.key = "none" => IsPublic(r)
      BY <2>4 DEF GuardRefuses
    <3> QED
      BY <2>1, <2>4, <3>1, <3>2 DEF KeyedAsDeclared, Declared, r
  <2>5. CASE ~GuardRefuses(r, call) /\ ~(r.throttled /\ call.spent)
    <3>1. answers = {toProblem(exception) : exception \in
              {IF part = "id" THEN Http(400) ELSE Domain("ValidationFailedError") :
                 part \in r.validated \ call.wellFormed}}
      BY <2>5 DEF Refused
    <3>2. answers \subseteq {400}
      BY <2>2, <3>1
    <3>3. "id" \in call.wellFormed /\ answers # {} => 400 \in r.declares
      BY <2>1, <3>1 DEF Declared
    <3>4. call.key = "none" => IsPublic(r)
      BY <2>5 DEF GuardRefuses
    <3> QED
      BY <2>1, <3>2, <3>3, <3>4 DEF KeyedAsDeclared, Declared, r
  <2> QED
    BY <2>3, <2>4, <2>5
<1> QED
  BY <1>1, AskedInv, PTL
=============================================================================
