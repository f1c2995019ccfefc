------------------------------ MODULE MCRoster ------------------------------
EXTENDS Roster, TLC

CONSTANTS alice, bob, monday

\* Alice is an admin; bob is a staff member, or has lost his groups.
MCGroups ==
  [a \in Accounts |->
     IF a = alice THEN {[role |-> "admin", years |-> {1}]}
     ELSE {[role |-> "staff", years |-> {1}], [role |-> NoRole, years |-> {}]}]

\* The second day lies in another work year.
MCYearOf == [d \in Dates |-> d]

\* A week may name a staff member twice.
MCWeeks == {<<>>, <<[place |-> monday, staff |-> <<1, 1>>]>>}

Symmetry == Permutations(Requests) \cup Permutations(Tokens)
=============================================================================
