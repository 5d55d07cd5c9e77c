------------------------------ MODULE Problems ------------------------------
(***************************************************************************)
(* From a call to the status it is answered with when it fails: what the   *)
(* routes require and declare, what is refused before a handler runs, and  *)
(* what the exception filter makes of an exception.  Pure operators; the   *)
(* wording of a problem document is left out.                              *)
(***************************************************************************)
EXTENDS Naturals

\* The status that each class of DomainError carries.
DomainStatus ==
  [ResourceNotFoundError |-> 404, ValidationFailedError |-> 400, UnauthorizedError |-> 401,
   TransitionNotAllowedError |-> 409, AlreadyExistsError |-> 409, ResourceInUseError |-> 409,
   DependencyUnavailableError |-> 503, RuleViolationError |-> 409]

\* The exceptions that reach the filter.
Domain(class) == [kind |-> "domain", class |-> class]
Driver(code)  == [kind |-> "driver", code |-> code]
Http(status)  == [kind |-> "http", status |-> status]
Uncoded       == [kind |-> "uncoded"]  \* a bug, or a driver error without a code

\* Mutant of mapPrismaError: a row that is gone when the write reaches it is forgotten.
MapWithoutMissing ==
  [P2002 |-> "AlreadyExistsError", P2003 |-> "ResourceInUseError",
   P2039 |-> "ValidationFailedError"]

\* The driver errors that have a meaning; which constraint it was changes the
\* wording only.  Every other code is left alone.
mapPrismaError ==
  [P2002 |-> "AlreadyExistsError", P2003 |-> "ResourceInUseError",
   P2025 |-> "ResourceNotFoundError", P2039 |-> "ValidationFailedError"]

toProblem(exception) ==
  CASE exception.kind = "domain" -> DomainStatus[exception.class]
    [] exception.kind = "driver" /\ exception.code \in DOMAIN mapPrismaError ->
         DomainStatus[mapPrismaError[exception.code]]
    [] exception.kind = "http" -> exception.status
    [] OTHER -> 500

-----------------------------------------------------------------------------
(* The routes: where @Public() stands, whether ThrottlerGuard is used, what *)
(* the pipes validate, and the failures that are declared to clients.       *)

Route(public, throttled, validated, declares) ==
  [public |-> public, throttled |-> throttled, validated |-> validated, declares |-> declares]

EventsController ==
  [findAll     |-> Route({"handler"}, FALSE, {"fields"}, {400}),
   create      |-> Route({}, FALSE, {"fields"}, {400, 401}),
   findOne     |-> Route({"handler"}, FALSE, {"id"}, {400, 404}),
   update      |-> Route({}, FALSE, {"id", "fields"}, {400, 401, 404, 409}),
   publish     |-> Route({}, FALSE, {"id"}, {401, 404, 409}),
   cancelEvent |-> Route({}, FALSE, {"id"}, {401, 404, 409}),
   remove      |-> Route({}, FALSE, {"id"}, {401, 404, 409})]

EventRegistrationsController ==
  [register     |-> Route({"handler"}, TRUE, {"id", "fields"}, {400, 404, 409, 429}),
   findForEvent |-> Route({}, FALSE, {"id"}, {401, 404})]

EventWaitlistController ==
  [findWaitlist |-> Route({}, FALSE, {"id"}, {401, 404})]

RegistrationsController ==
  [findRegistration   |-> Route({"class"}, FALSE, {"id"}, {400, 404}),
   cancelRegistration |-> Route({"class"}, FALSE, {"id"}, {404, 409})]

AttendeesController ==
  [createAttendee    |-> Route({"class"}, TRUE, {"fields"}, {400, 409, 429}),
   findAttendee      |-> Route({"class"}, FALSE, {"id"}, {400, 404}),
   findRegistrations |-> Route({"class"}, FALSE, {"id"}, {404})]

HealthController == [check |-> Route({"class"}, FALSE, {}, {503})]

Controllers == {EventsController, EventRegistrationsController, EventWaitlistController,
                RegistrationsController, AttendeesController, HealthController}

\* Every handler has a name of its own.
Routes ==
  [name \in UNION {DOMAIN c : c \in Controllers} |->
     (CHOOSE c \in Controllers : name \in DOMAIN c)[name]]

-----------------------------------------------------------------------------
(* A call: the key it presents, whether its rate limit is used up, and      *)
(* which of the validated parts are well formed.                            *)

Calls == [key : {"none", "unknown", "organiser"}, spent : BOOLEAN,
          wellFormed : SUBSET {"id", "fields"}]

\* Mutant of IsPublic: @Public() is looked for on the controller only.
IsPublicClass(route) == "class" \in route.public

\* getAllAndOverride: the handler's @Public(), or else the controller's.
IsPublic(route) == "handler" \in route.public \/ "class" \in route.public

GuardRefuses(route, call) == ~IsPublic(route) /\ call.key # "organiser"

\* What answers a call before its handler runs, if anything: the global guard, the
\* guard of the route, then the pipes.
Refused(route, call) ==
  CASE GuardRefuses(route, call) -> {Domain("UnauthorizedError")}
    [] ~GuardRefuses(route, call) /\ route.throttled /\ call.spent -> {Http(429)}
    [] OTHER -> {IF part = "id" THEN Http(400) ELSE Domain("ValidationFailedError") :
                   part \in route.validated \ call.wellFormed}
=============================================================================
