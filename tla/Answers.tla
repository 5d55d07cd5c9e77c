------------------------------- MODULE Answers -------------------------------
(***************************************************************************)
(* What the requests of Booking and of Accounts are answered with when     *)
(* they fail: for each statement that ends a request, the exception the    *)
(* code throws there.                                                      *)
(***************************************************************************)
EXTENDS Accounts, Problems

\* The check that refuses a PATCH, in the order of the code.
UpdateError(w) ==
  CASE VisibleEvent(w, req[w].event).status = "CANCELLED" -> "TransitionNotAllowedError"
    [] VisibleEvent(w, req[w].event).status # "CANCELLED" /\ ~Coherent(Patched(w)) ->
         "ValidationFailedError"
    [] OTHER -> "RuleViolationError"

\* What is thrown in a step.  An event that is gone is noticed by the service when it
\* asks for the lock, and by the driver when a row is written by its id.
Thrown(w) ==
  CASE EventGone(w) ->
         {IF pc[w] = "lock" THEN Domain("ResourceNotFoundError") ELSE Driver("P2025")}
    [] RegisterRefused(w) -> {Domain("RuleViolationError")}
    [] RegisterDuplicate(w) -> {Driver("P2002")}
    [] AlreadyCancelled(w) -> {Domain("TransitionNotAllowedError")}
    [] UpdateRefused(w) -> {Domain(UpdateError(w))}
    [] UpdateRejected(w) -> {Uncoded}
    [] OTHER -> {}

\* The operations that refuse by the status of the event, before they write.
Allows(op, status) ==
  CASE op = "publish" -> applyAction(status, "publish") # {}
    [] op = "cancelEvent" -> applyAction(status, "cancel") # {}
    [] op = "remove" -> canDelete(status)

ThrownAtOnce(op, e) ==
  IF ~Exists(e) THEN {Domain("ResourceNotFoundError")}
  ELSE IF ~Allows(op, events[e].status) THEN {Domain("TransitionNotAllowedError")}
  ELSE {}

\* The requests that name an attendee, and the one that makes one.
ThrownAtLookup(a) ==
  IF email[a] = None THEN {Domain("ResourceNotFoundError")} ELSE {}

ThrownByCreate(address) ==
  IF SameEmail(address) # {} THEN {Driver("P2002")} ELSE {}

\* The API document has a word for each of the exceptions.
AreDeclared(op, exceptions) ==
  \A exception \in exceptions : toProblem(exception) \in Routes[op].declares

RefusedAtOnce ==
  /\ \A op \in {"publish", "cancelEvent", "remove"}, e \in Events :
       AreDeclared(op, ThrownAtOnce(op, e))
  /\ \A op \in {"register", "findAttendee", "findRegistrations"}, a \in Attendees :
       AreDeclared(op, ThrownAtLookup(a))
  /\ \A address \in Addresses : AreDeclared("createAttendee", ThrownByCreate(address))

\* A request that fails, but does not die, fails with a status that the API document
\* declares for its operation: when its first look refuses it, and also later, where the
\* race with another request is lost and only the database notices.
EveryAnswerDeclared ==
  /\ []RefusedAtOnce
  /\ [][\A w \in Workers : AreDeclared(req[w].op, Thrown(w))]_accountVars
=============================================================================
