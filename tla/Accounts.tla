------------------------------ MODULE Accounts ------------------------------
(***************************************************************************)
(* AttendeesService beside the requests of Booking: who an attendee is.    *)
(* An address is kept as a value with the ways it may be written; the pipe *)
(* folds them together, and a unique index on lower(email) compares what   *)
(* is stored.                                                              *)
(***************************************************************************)
EXTENDS Booking

CONSTANT People  \* those who write their address, each of whom has one

Spellings == [who : People, case : {"lower", "mixed"}, spaces : BOOLEAN]

VARIABLE email   \* the email column of each attendee, None before it is inserted

accountVars == <<vars, email>>

AccountsInit == Init /\ email = [a \in Attendees |-> None]

\* Mutant of normaliseEmail: lower-cased and not trimmed.
LowerOnly(spelling) == [spelling EXCEPT !.case = "lower"]

\* The transform of CreateAttendeeDto: value.trim().toLowerCase().
normaliseEmail(spelling) == [spelling EXCEPT !.case = "lower", !.spaces = FALSE]

\* An address as it is stored.
Addresses == {normaliseEmail(spelling) : spelling \in Spellings}

\* ux_attendees_email_lower
lowerEmail(stored) == [stored EXCEPT !.case = "lower"]

\* The attendees whose row a new one with this address collides with.
SameEmail(stored) == {a \in Attendees : email[a] # None /\ lowerEmail(email[a]) = lowerEmail(stored)}

\* AttendeesService.create, of an address as the pipe has left it: one INSERT, and the
\* index decides.
CreateAttendee(a, address) ==
  /\ email[a] = None
  /\ SameEmail(address) = {}
  /\ email' = [email EXCEPT ![a] = address]
  /\ UNCHANGED vars

\* register looks the attendee up before its transaction.
Known(w) == req[w].op = "register" => email[req[w].attendee] # None

StartKnown(w) == UNCHANGED email /\ Start(w) /\ Known(w)'

AccountsNext ==
  \/ \E a \in Attendees, address \in Addresses : CreateAttendee(a, address)
  \/ \E w \in Workers : StartKnown(w)
  \/ UNCHANGED email /\ \/ \E e \in Events, dto \in NewEvents : Create(e, dto)
                        \/ \E w \in Workers : Locking(w) \/ Local(w) \/ Fail(w)
                        \/ Tick

AccountsSpec == AccountsInit /\ [][AccountsNext]_accountVars

-----------------------------------------------------------------------------

\* Nobody holds two active registrations of one event, by writing the address in
\* another way, by two requests at a time, or by cancelling and coming back.
OnePersonOneSeat ==
  \A e \in Events : \A r, s \in UNION {Committed(e, status) : status \in ActiveStatuses} :
    email[regs[r].attendee].who = email[regs[s].attendee].who => r = s
=============================================================================
