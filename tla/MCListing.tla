------------------------------ MODULE MCListing ------------------------------
(* Listing on the constants of MCBooking.                                    *)
EXTENDS MCBooking, Listing

Everyone == {EventStatuses}
ByStatus == {EventStatuses, {"DRAFT"}, {"PUBLISHED"}}

\* No capacity is edited and no event called off; the schedule is edited.
ReadersAndBookings ==
  {"create", "publish", "register", "cancelRegistration", "update", "remove", "fail"}
Publishing == {"create", "publish"}
=============================================================================
