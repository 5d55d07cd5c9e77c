-------------------------------- MODULE Paging --------------------------------
(***************************************************************************)
(* How GET /events cuts a table into pages: parseSort, clampPageSize and   *)
(* toSkip (common/dto/sort.ts), PagedResponse.of (common/dto/              *)
(* paged-response.ts), put together as EventsService.findAll does.  All    *)
(* pure, and checked in module RulesCheck.  A table is a function from ids *)
(* to records of columns.                                                  *)
(***************************************************************************)
EXTENDS Integers, Sequences, FiniteSets, FiniteSetsExt

CONSTANT MAX_PAGE_SIZE

ASSUME PageSizeAssumption == MAX_PAGE_SIZE \in Nat \ {0}

\* Two columns stand for the five a client may sort by.
EVENT_SORT_FIELDS == {"startsAt", "title"}

Order(field, direction) == [field |-> field, direction |-> direction]

\* Mutant of withTiebreak: the order the client asked for and no more.
NoTiebreak(orders) == orders

withTiebreak(orders) ==
  IF \E i \in DOMAIN orders : orders[i].field = "id"
    THEN orders ELSE Append(orders, Order("id", "asc"))

\* The parts of ?sort between its commas, trimmed; none when it is absent or blank.
\* The result is the set of the ORDER BYs it leads to: one, or none for a 400.
parseSort(parts) ==
  IF parts = <<>> THEN {withTiebreak(<<Order("startsAt", "asc")>>)}
  ELSE {withTiebreak(<<Order(o[1], o[2])>>) :
          o \in {p \in EVENT_SORT_FIELDS \X {"asc", "desc"} :
                   parts = p \/ (parts = <<p[1]>> /\ p[2] = "asc")}}

clampPageSize(size) == Min({Max({size, 1}), MAX_PAGE_SIZE})

toSkip(page, size) == (page - 1) * size

\* Mutant of totalPages: a last page for what is left, even when nothing is.
OnePageMore(totalItems, size) == totalItems \div size + 1

totalPages(totalItems, size) == (totalItems + size - 1) \div size

hasNext(page, totalItems, size) == page < totalPages(totalItems, size)

\* Row a comes before row b: some column of the order tells them apart, and those
\* before it do not.
Precedes(table, orders, a, b) ==
  \E i \in DOMAIN orders :
    LET x(row) == table[row][orders[i].field]
    IN  /\ IF orders[i].direction = "asc" THEN x(a) < x(b) ELSE x(a) > x(b)
        /\ \A j \in 1..i - 1 : table[a][orders[j].field] = table[b][orders[j].field]

\* The orders in which PostgreSQL may return the rows: those its ORDER BY does not
\* tell apart come in any order, and in another one the next time.
Results(table, orders) ==
  {s \in [1..Cardinality(DOMAIN table) -> DOMAIN table] :
     \A i, j \in DOMAIN s : i < j => s[i] # s[j] /\ ~Precedes(table, orders, s[j], s[i])}

\* skip and take.
Slice(rows, page, size) ==
  SubSeq(rows, toSkip(page, size) + 1, Min({toSkip(page, size) + size, Len(rows)}))
=============================================================================
