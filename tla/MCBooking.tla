----------------------------- MODULE MCBooking -----------------------------
(***************************************************************************)
(* Booking for TLC: tickets, users, rooms, dates and requests are model    *)
(* values, interchangeable within their set.                               *)
(***************************************************************************)
EXTENDS Booking, TLC

Symmetry ==
  Permutations(Tickets) \cup Permutations(Users) \cup Permutations(Rooms)
    \cup Permutations(Dates) \cup Permutations(Requests)
=============================================================================
