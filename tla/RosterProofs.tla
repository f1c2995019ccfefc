---------------------------- MODULE RosterProofs ----------------------------
(***************************************************************************)
(* Theorems about Roster, for any number of accounts, staff rows, sessions *)
(* and requests, any weeks, dates and announcements, and any number of     *)
(* redeployments.                                                          *)
(***************************************************************************)
EXTENDS Roster, FiniteSetTheorems, WellFoundedInduction, TLAPS

ResolvingPcs == {"find", "create", "role", "years", "version", "open"}

\* A request that resolves an account for its own use has a role, and a row from the
\* time when it goes on to write; one that writes an assignment has a slot.
CarriesAll(q) ==
  /\ q.pc \in ResolvingPcs /\ q.via # "admin" => q.role \in Roles
  /\ q.pc \in {"role", "years", "version", "open"} => q.via # "admin" /\ q.staff \in StaffIds
  /\ q.pc \in {"check", "insert", "remove"} => q.slot \in SlotIds

RequestsTyped ==
  /\ request \in [Requests -> States]
  /\ \A r \in Requests : CarriesAll(request[r])

AccountsTyped ==
  /\ staff \in [StaffIds -> StaffRows \cup {Absent, Deleted}]
  /\ years \subseteq StaffIds \X WorkYears
  /\ session \in [Tokens -> SessionRows \cup {Absent, Deleted}]
  /\ required \in 0..MaxVersion
  /\ stamped \subseteq StaffIds
  /\ served \in 0..MaxRequests

SchedulesTyped ==
  /\ schedule \in [ScheduleIds -> ScheduleRows \cup {Absent, Deleted}]
  /\ slot \in [SlotIds -> SlotRows \cup {Absent, Deleted}]
  /\ assigned \in [SlotIds -> [StaffIds -> Nat]]
  /\ raced \in BOOLEAN
  /\ blind \subseteq SlotIds \X StaffIds

AnnouncementsTyped ==
  /\ announcement \in [AnnouncementIds -> AnnouncementRows \cup {Absent, Deleted}]
  /\ cut \subseteq AnnouncementIds

Typed == RequestsTyped /\ AccountsTyped /\ SchedulesTyped /\ AnnouncementsTyped
-----------------------------------------------------------------------------
LEMMA MinimalExists ==
  \A R : IsWellFoundedOn(R, Nat) =>
    \A U : U \subseteq Nat /\ U # {} => \E x \in U : \A y \in U : ~(<<y, x>> \in R)
  BY WFMin, Zenon

\* The next key of a table is the least unused one, so there is one.
LEMMA LeastExists ==
  ASSUME NEW U, U \subseteq Nat, U # {}
  PROVE  Min(U) \in U /\ \A y \in U : Min(U) <= y
<1> PICK R : IsWellFoundedOn(R, Nat) /\ \A x, y \in Nat : x < y => <<x, y>> \in R
  <2>1. IsWellFoundedOn(OpToRel(<, Nat), Nat)
    BY NatLessThanWellFounded
  <2>2. \A x, y \in Nat : x < y => <<x, y>> \in OpToRel(<, Nat)
    BY DEF OpToRel
  <2> QED BY <2>1, <2>2
<1>1. IsWellFoundedOn(R, Nat)
  OBVIOUS
<1>2. \A x, y \in Nat : x < y => <<x, y>> \in R
  OBVIOUS
<1>3. PICK x \in U : \A y \in U : ~(<<y, x>> \in R)
  BY <1>1, MinimalExists, Zenon
<1>4. ASSUME NEW y \in U PROVE x <= y
  <2>1. x \in Nat /\ y \in Nat /\ ~(<<y, x>> \in R)
    BY <1>3
  <2>2. ~(y < x)
    BY <1>2, <2>1
  <2> QED BY <2>1, <2>2
<1> QED BY <1>4 DEF Min

LEMMA NextIdUnused ==
  ASSUME NEW Keys \in SUBSET Nat, NEW S, NEW table \in [Keys -> S], Unused(table) # {}
  PROVE  NextId(table) \in Keys /\ table[NextId(table)] = Absent
<1>1. Unused(table) \subseteq Nat
  BY DEF Unused
<1>2. NextId(table) \in Unused(table)
  BY <1>1, LeastExists DEF NextId
<1> QED BY <1>2 DEF Unused

\* The place of an unused key in the order of keys is at least the first.
LEMMA PlaceOfNew ==
  ASSUME SchedulesTyped, NEW week \in Weeks, NEW i \in SlotIds, IsNew(i, week)
  PROVE  /\ Place(i) \in 1..Len(week) /\ week[Place(i)] \in [place : Places, staff : Seq(StaffIds)]
         /\ slot[i] = Absent
<1> PICK before : before = {j \in Unused(slot) : j <= i}
  OBVIOUS
<1>1. SlotIds \subseteq Nat /\ Unused(slot) \subseteq SlotIds /\ i \in Unused(slot)
  BY WorkSchedulesAssumption DEF Unused, SchedulesTyped, IsNew
<1>2. before \in SUBSET Nat /\ i \in Nat /\ i \in before /\ \A j \in before : j <= i
  <2>1. i \in Nat /\ i <= i
    BY <1>1
  <2> QED BY <1>1, <2>1
<1>3. IsFiniteSet(before)
  BY <1>2, FS_BoundedSetOfNaturals
<1>4. Cardinality(before) \in Nat /\ Cardinality(before) # 0
  BY <1>2, <1>3, FS_CardinalityType, FS_EmptySet
<1>5. Place(i) = Cardinality(before)
  BY DEF Place
<1>6. week \in Seq([place : Places, staff : Seq(StaffIds)])
  BY WorkSchedulesAssumption
<1>7. Place(i) <= Len(week) /\ Len(week) \in Nat
  BY <1>6 DEF IsNew
<1>8. Place(i) \in 1..Len(week)
  <2>1. \A p, n \in Nat : p # 0 /\ p <= n => p \in 1..n
    BY SMT
  <2>2. Place(i) \in Nat /\ Place(i) # 0
    BY <1>4, <1>5
  <2> QED BY <1>7, <2>1, <2>2
<1>9. week[Place(i)] \in [place : Places, staff : Seq(StaffIds)]
  <2>1. \A S, w, p : w \in Seq(S) /\ p \in 1..Len(w) => w[p] \in S
    OBVIOUS
  <2> QED BY <1>6, <1>8, <2>1
<1>10. slot[i] = Absent
  BY <1>1 DEF Unused
<1> QED BY <1>8, <1>9, <1>10

LEMMA EmptyWeekNew == ASSUME SchedulesTyped PROVE \A i \in SlotIds : ~IsNew(i, <<>>)
<1> SUFFICES ASSUME NEW i \in SlotIds, IsNew(i, <<>>) PROVE FALSE
  OBVIOUS
<1> PICK before : before = {j \in Unused(slot) : j <= i}
  OBVIOUS
<1>1. before \in SUBSET Nat /\ i \in Nat /\ i \in before /\ \A j \in before : j <= i
  <2>1. SlotIds \subseteq Nat /\ Unused(slot) \subseteq SlotIds /\ i \in Unused(slot)
    BY WorkSchedulesAssumption DEF Unused, SchedulesTyped, IsNew
  <2>2. i \in Nat /\ i <= i
    BY <2>1
  <2> QED BY <2>1, <2>2
<1>2. IsFiniteSet(before)
  BY <1>1, FS_BoundedSetOfNaturals
<1>3. Cardinality(before) \in Nat /\ Cardinality(before) # 0
  BY <1>1, <1>2, FS_CardinalityType, FS_EmptySet
<1> QED BY <1>3 DEF IsNew, Place

\* The state of a request tells what it carries.
LEMMA StateOfPc ==
  ASSUME NEW q \in States
  PROVE  /\ q.pc \in ResolvingPcs => q \in ResolvingStates
         /\ q.pc \in {"load", "csrf"} => q \in LoadingStates
         /\ q.pc = "serve" => q \in ServingStates
         /\ q.pc = "update" => q \in UpdateStates
         /\ q.pc \in {"find_slot", "new_slot", "check", "insert", "remove"} => q \in StaffingStates
         /\ q.pc = "weekday" => q \in WeekdayStates
         /\ q.pc = "publish" => q \in PublishStates
         /\ q.pc = "hide" => q \in HideStates
         /\ q.pc = "edit" => q \in EditStates
<1>1. q = Idle => q.pc = "idle"
  BY DEF Idle
<1>2. q \in ResolvingStates => q.pc \in ResolvingPcs
  BY DEF ResolvingStates, ResolvingPcs
<1>3. q \in LoadingStates => q.pc \in {"load", "csrf"}
  BY DEF LoadingStates
<1>4. q \in ServingStates => q.pc = "serve"
  BY DEF ServingStates
<1>5. q \in UpdateStates => q.pc = "update"
  BY DEF UpdateStates
<1>6. q \in StaffingStates => q.pc \in {"find_slot", "new_slot", "check", "insert", "remove"}
  BY DEF StaffingStates
<1>7. q \in WeekdayStates => q.pc = "weekday"
  BY DEF WeekdayStates
<1>8. q \in PublishStates => q.pc = "publish"
  BY DEF PublishStates
<1>9. q \in HideStates => q.pc = "hide"
  BY DEF HideStates
<1>10. q \in EditStates => q.pc = "edit"
  BY DEF EditStates
<1>11. \/ q = Idle \/ q \in ResolvingStates \/ q \in LoadingStates \/ q \in ServingStates
       \/ q \in UpdateStates \/ q \in StaffingStates \/ q \in WeekdayStates
       \/ q \in PublishStates \/ q \in HideStates \/ q \in EditStates
  BY DEF States, AuthStates, ScheduleStates, AnnouncementStates
<1> QED BY <1>1, <1>2, <1>3, <1>4, <1>5, <1>6, <1>7, <1>8, <1>9, <1>10, <1>11 DEF ResolvingPcs

LEMMA StatesHave ==
  /\ Idle \in States
  /\ ResolvingStates \subseteq States /\ LoadingStates \subseteq States /\ ServingStates \subseteq States
  /\ UpdateStates \subseteq States /\ StaffingStates \subseteq States /\ WeekdayStates \subseteq States
  /\ PublishStates \subseteq States /\ HideStates \subseteq States /\ EditStates \subseteq States
  BY DEF States, AuthStates, ScheduleStates, AnnouncementStates

\* One request goes on, the others stay.
LEMMA RequestMoves ==
  ASSUME RequestsTyped, NEW r \in Requests, NEW to, RequestGoes(r, to)
  PROVE  /\ request'[r] = to /\ \A q \in Requests \ {r} : request'[q] = request[q]
         /\ to \in States /\ CarriesAll(to) => RequestsTyped'
<1>1. request' = [request EXCEPT ![r] = to] /\ request \in [Requests -> States]
  BY DEF RequestGoes, RequestsTyped
<1>2. request'[r] = to /\ \A q \in Requests \ {r} : request'[q] = request[q]
  BY <1>1
<1>3. ASSUME to \in States, CarriesAll(to) PROVE RequestsTyped'
  <2>1. request' \in [Requests -> States]
    BY <1>1, <1>3
  <2>2. \A q \in Requests : CarriesAll(request'[q])
    BY <1>2, <1>3 DEF RequestsTyped
  <2>3. \A q \in Requests : CarriesAll(request[q])'
    BY <2>2 DEF CarriesAll
  <2> QED BY <2>1, <2>3 DEF RequestsTyped
<1> QED BY <1>2, <1>3

LEMMA RequestEnds ==
  ASSUME RequestsTyped, NEW r \in Requests, Answered(r)
  PROVE  /\ request'[r] = Idle /\ \A q \in Requests \ {r} : request'[q] = request[q]
         /\ RequestsTyped'
<1>1. Idle \in States /\ CarriesAll(Idle)
  BY DEF Idle, CarriesAll, States, AuthStates, ResolvingPcs
<1> QED BY <1>1, RequestMoves DEF Answered

LEMMA RequestsStay ==
  ASSUME RequestsTyped, UNCHANGED request
  PROVE  RequestsTyped'
<1>1. \A r \in Requests : CarriesAll(request[r])'
  BY DEF RequestsTyped, CarriesAll
<1> QED BY <1>1 DEF RequestsTyped
-----------------------------------------------------------------------------
(***************************************************************************)
(* Types: accounts.                                                        *)
(***************************************************************************)
LEMMA GroupsTyped ==
  ASSUME NEW a \in Accounts, NEW g \in Groups[a]
  PROVE  g.role \in Roles \cup {NoRole} /\ g.years \in SUBSET WorkYears
  BY AccountsAssumption DEF WorkYears

LEMMA ResolvingTyped ==
  ASSUME NEW via \in {"cas", "bearer", "admin"}, NEW a \in Accounts, NEW role \in Roles \cup {NoRole},
         NEW ys \in SUBSET WorkYears, via # "admin" => role \in Roles
  PROVE  /\ Resolving("find", via, a, role, ys) \in ResolvingStates
         /\ CarriesAll(Resolving("find", via, a, role, ys))
<1>1. Gone \in SUBSET StaffIds
  BY DEF Gone
<1>2. Resolving("find", via, a, role, ys) \in ResolvingStates
  BY <1>1 DEF Resolving, ResolvingStates
<1>3. CarriesAll(Resolving("find", via, a, role, ys))
  BY DEF Resolving, CarriesAll
<1> QED BY <1>2, <1>3

LEMMA ServingTyped ==
  ASSUME NEW via \in {"session", "bearer"}, NEW i \in StaffIds, NEW role \in Roles, NEW gone \in SUBSET StaffIds
  PROVE  Serving(via, i, role, gone) \in States /\ CarriesAll(Serving(via, i, role, gone))
<1>1. Serving(via, i, role, gone) \in ServingStates
  BY DEF Serving, ServingStates
<1>2. CarriesAll(Serving(via, i, role, gone))
  BY DEF Serving, CarriesAll, ResolvingPcs
<1> QED BY <1>1, <1>2, StatesHave

\* A request that resolves an account goes on to pc, or finds the staff row i.
LEMMA ResolvingGoesOn ==
  ASSUME RequestsTyped, NEW r \in Requests, request[r].pc \in ResolvingPcs,
         NEW pc \in {"create", "years", "version", "open"},
         pc # "create" => request[r].pc \in {"role", "years", "version"},
         Next_(r, pc)
  PROVE  RequestsTyped'
<1> PICK q : q = request[r]
  OBVIOUS
<1> PICK to : to = [q EXCEPT !.pc = pc]
  OBVIOUS
<1>1. q \in ResolvingStates /\ CarriesAll(q)
  BY StateOfPc DEF RequestsTyped
<1>2. to \in ResolvingStates
  BY <1>1 DEF ResolvingStates
<1>3. /\ to.pc = pc /\ to.via = q.via /\ to.role = q.role /\ to.staff = q.staff
  BY <1>1 DEF ResolvingStates
<1>4. CarriesAll(to)
  BY <1>1, <1>3 DEF CarriesAll, ResolvingPcs
<1>5. RequestGoes(r, to)
  BY DEF Next_
<1> QED BY <1>2, <1>4, <1>5, RequestMoves, StatesHave

LEMMA ResolvedTyped ==
  ASSUME RequestsTyped, NEW r \in Requests, request[r].pc \in {"find", "create"},
         NEW i \in StaffIds, Resolved(r, i)
  PROVE  RequestsTyped'
<1>1. CASE request[r].via = "admin"
  BY <1>1, RequestEnds DEF Resolved
<1>2. CASE request[r].via # "admin"
  <2> PICK q : q = request[r]
    OBVIOUS
  <2> PICK to : to = [q EXCEPT !.pc = "role", !.staff = i]
    OBVIOUS
  <2>1. q \in ResolvingStates /\ CarriesAll(q)
    BY StateOfPc DEF RequestsTyped, ResolvingPcs
  <2>2. to \in ResolvingStates
    BY <2>1 DEF ResolvingStates
  <2>3. to.pc = "role" /\ to.via = q.via /\ to.role = q.role /\ to.staff = i
    BY <2>1 DEF ResolvingStates
  <2>4. CarriesAll(to)
    BY <1>2, <2>1, <2>3 DEF CarriesAll, ResolvingPcs
  <2>5. RequestGoes(r, to)
    BY <1>2 DEF Resolved
  <2> QED BY <2>2, <2>4, <2>5, RequestMoves, StatesHave
<1> QED BY <1>1, <1>2

LEMMA TypesOfArrivals ==
  ASSUME Typed, NEW r \in Requests,
         \/ \E a \in Accounts : LoginArrives(r, a)
         \/ \E a \in Accounts : BearerArrives(r, a)
         \/ \E a \in Accounts : CreateStaff(r, a)
  PROVE  RequestsTyped' /\ AccountsTyped'
<1>0. RequestsTyped /\ AccountsTyped
  BY DEF Typed
<1>1. Arrive(r) => served' \in 0..MaxRequests
  <2>1. \A n, m : n \in 0..m /\ m \in Nat /\ n < m => n + 1 \in 0..m
    OBVIOUS
  <2> QED BY <1>0, <2>1, AccountsAssumption DEF Arrive, AccountsTyped
<1>2. ASSUME NEW a \in Accounts, LoginArrives(r, a) PROVE RequestsTyped' /\ AccountsTyped'
  <2>1. PICK expired : session' = Purged(expired)
    BY <1>2 DEF LoginArrives
  <2>2. session' \in [Tokens -> SessionRows \cup {Absent, Deleted}]
    BY <1>0, <2>1 DEF Purged, AccountsTyped
  <2>3. PICK g \in Groups[a] :
          \/ GivesRole(g) /\ RequestGoes(r, Resolving("find", "cas", a, g.role, g.years))
          \/ UNCHANGED request
    BY <1>2 DEF LoginArrives
  <2>4. g.role \in Roles \cup {NoRole} /\ g.years \in SUBSET WorkYears
    BY GroupsTyped
  <2>5. RequestsTyped'
    <3>1. CASE UNCHANGED request
      BY <1>0, <3>1, RequestsStay
    <3>2. CASE GivesRole(g) /\ RequestGoes(r, Resolving("find", "cas", a, g.role, g.years))
      <4>1. g.role \in Roles
        BY <2>4, <3>2 DEF GivesRole
      <4>2. /\ Resolving("find", "cas", a, g.role, g.years) \in ResolvingStates
            /\ CarriesAll(Resolving("find", "cas", a, g.role, g.years))
        BY <2>4, <4>1, ResolvingTyped
      <4> QED BY <1>0, <3>2, <4>2, RequestMoves, StatesHave
    <3> QED BY <2>3, <3>1, <3>2
  <2>6. Arrive(r) /\ UNCHANGED <<staff, years, required, stamped>>
    BY <1>2 DEF LoginArrives, processVars
  <2> QED BY <1>0, <1>1, <2>2, <2>5, <2>6 DEF AccountsTyped
<1>3. ASSUME NEW a \in Accounts, BearerArrives(r, a) PROVE RequestsTyped' /\ AccountsTyped'
  <2>1. PICK g \in Groups[a] :
          GivesRole(g) /\ RequestGoes(r, Resolving("find", "bearer", a, g.role, g.years))
    BY <1>3 DEF BearerArrives
  <2>2. g.role \in Roles /\ g.years \in SUBSET WorkYears
    BY <2>1, GroupsTyped DEF GivesRole
  <2>3. /\ Resolving("find", "bearer", a, g.role, g.years) \in ResolvingStates
        /\ CarriesAll(Resolving("find", "bearer", a, g.role, g.years))
    BY <2>2, ResolvingTyped
  <2>4. RequestsTyped'
    BY <1>0, <2>1, <2>3, RequestMoves, StatesHave
  <2>5. Arrive(r) /\ UNCHANGED <<staff, years, session, required, stamped>>
    BY <1>3 DEF BearerArrives, processVars, tableVars
  <2> QED BY <1>0, <1>1, <2>4, <2>5 DEF AccountsTyped
<1>4. ASSUME NEW a \in Accounts, CreateStaff(r, a) PROVE RequestsTyped' /\ AccountsTyped'
  <2>1. /\ Resolving("find", "admin", a, NoRole, {}) \in ResolvingStates
        /\ CarriesAll(Resolving("find", "admin", a, NoRole, {}))
    <3>1. NoRole \in Roles \cup {NoRole} /\ {} \in SUBSET WorkYears
      OBVIOUS
    <3> QED BY <3>1, ResolvingTyped
  <2>2. RequestsTyped'
    BY <1>0, <1>4, <2>1, RequestMoves, StatesHave DEF CreateStaff
  <2> QED BY <1>0, <1>4, <2>2 DEF AccountsTyped, CreateStaff, tableVars, processVars
<1> QED BY <1>2, <1>3, <1>4

LEMMA TypesOfResolving ==
  ASSUME Typed, NEW r \in Requests, Find(r) \/ Create(r) \/ SetRole(r) \/ AddYears(r)
  PROVE  RequestsTyped' /\ AccountsTyped'
<1>0. RequestsTyped /\ AccountsTyped
  BY DEF Typed
<1>1. request[r].pc \in ResolvingPcs => request[r] \in ResolvingStates /\ CarriesAll(request[r])
  BY <1>0, StateOfPc DEF RequestsTyped
<1>2. CASE Find(r)
  <2>1. RequestsTyped'
    <3>1. request[r].pc = "find" /\ request[r].pc \in ResolvingPcs
      BY <1>2 DEF Find, ResolvingPcs
    <3>2. CASE \E i \in StaffOf(request[r].account) : Resolved(r, i)
      <4>1. PICK i \in StaffIds : Resolved(r, i)
        BY <3>2 DEF StaffOf
      <4> QED BY <1>0, <3>1, <4>1, ResolvedTyped
    <3>3. CASE RequestGoes(r, [request[r] EXCEPT !.pc = "create"])
      BY <1>0, <3>1, <3>3, ResolvingGoesOn DEF Next_
    <3> QED BY <1>2, <3>2, <3>3 DEF Find
  <2> QED BY <1>0, <1>2, <2>1 DEF Find, AccountsTyped, tableVars, processVars
<1>3. CASE Create(r)
  <2>0. request[r].pc = "create" /\ UNCHANGED <<years, session, required, stamped, served>>
    BY <1>3 DEF Create, processVars
  <2>1. CASE /\ Unused(staff) # {}
             /\ staff' = [staff EXCEPT ![NextId(staff)] =
                  [account |-> request[r].account, role |-> NoRole, version |-> 0]]
             /\ Resolved(r, NextId(staff))
    <3>1. NextId(staff) \in StaffIds
      BY <1>0, <2>1, NextIdUnused, AccountsAssumption DEF AccountsTyped
    <3>2. request[r] \in ResolvingStates
      BY <1>1, <2>0 DEF ResolvingPcs
    <3>3. [account |-> request[r].account, role |-> NoRole, version |-> 0] \in StaffRows
      BY <3>2, AccountsAssumption DEF ResolvingStates, StaffRows
    <3>4. staff' \in [StaffIds -> StaffRows \cup {Absent, Deleted}]
      BY <1>0, <2>1, <3>1, <3>3 DEF AccountsTyped
    <3>5. RequestsTyped'
      BY <1>0, <2>0, <2>1, <3>1, ResolvedTyped
    <3> QED BY <1>0, <2>0, <3>4, <3>5 DEF AccountsTyped
  <2>2. CASE Answered(r) /\ UNCHANGED staff
    <3>1. RequestsTyped'
      BY <1>0, <2>2, RequestEnds
    <3> QED BY <1>0, <2>0, <2>2, <3>1 DEF AccountsTyped
  <2> QED BY <1>3, <2>1, <2>2 DEF Create
<1>4. CASE SetRole(r)
  <2>0. request[r].pc = "role" /\ Next_(r, "years") /\ UNCHANGED <<years, session, required, stamped, served>>
    BY <1>4 DEF SetRole, processVars
  <2>1. request[r] \in ResolvingStates /\ request[r].role \in Roles /\ request[r].staff \in StaffIds
    BY <1>1, <2>0 DEF ResolvingPcs, CarriesAll
  <2>2. RequestsTyped'
    BY <1>0, <2>0, ResolvingGoesOn DEF ResolvingPcs
  <2>3. staff' \in [StaffIds -> StaffRows \cup {Absent, Deleted}]
    <3>1. CASE UNCHANGED staff
      BY <1>0, <3>1 DEF AccountsTyped
    <3>2. CASE /\ Exists(staff, request[r].staff)
               /\ staff' = [staff EXCEPT ![request[r].staff].role = request[r].role]
      <4> PICK i \in StaffIds, role \in Roles : i = request[r].staff /\ role = request[r].role
        BY <2>1
      <4>1. staff[i] \in StaffRows
        BY <1>0, <3>2 DEF AccountsTyped, Exists
      <4>2. [staff[i] EXCEPT !.role = role] \in StaffRows
        BY <4>1 DEF StaffRows
      <4>3. staff' = [staff EXCEPT ![i] = [staff[i] EXCEPT !.role = role]]
        BY <3>2
      <4> QED BY <1>0, <4>2, <4>3 DEF AccountsTyped
    <3> QED BY <1>4, <3>1, <3>2 DEF SetRole
  <2> QED BY <1>0, <2>0, <2>2, <2>3 DEF AccountsTyped
<1>5. CASE AddYears(r)
  <2>0. request[r].pc = "years" /\ Next_(r, "version") /\ UNCHANGED <<staff, session, required, stamped, served>>
    BY <1>5 DEF AddYears, processVars
  <2>1. request[r].years \subseteq WorkYears /\ request[r].staff \in StaffIds
    BY <1>1, <2>0 DEF ResolvingPcs, CarriesAll, ResolvingStates
  <2>2. RequestsTyped'
    BY <1>0, <2>0, ResolvingGoesOn DEF ResolvingPcs
  <2>3. years' \subseteq StaffIds \X WorkYears
    BY <1>0, <1>5, <2>1 DEF AddYears, AccountsTyped
  <2> QED BY <1>0, <2>0, <2>2, <2>3 DEF AccountsTyped
<1> QED BY <1>2, <1>3, <1>4, <1>5

LEMMA TypesOfStamping ==
  ASSUME Typed, NEW r \in Requests, StampVersion(r) \/ OpenSession(r)
  PROVE  RequestsTyped' /\ AccountsTyped'
<1>0. RequestsTyped /\ AccountsTyped
  BY DEF Typed
<1> PICK q : q = request[r]
  OBVIOUS
<1>1. q.pc \in {"version", "open"} => /\ q \in ResolvingStates /\ CarriesAll(q)
                                      /\ q.staff \in StaffIds /\ q.role \in Roles
  BY <1>0, StateOfPc DEF RequestsTyped, ResolvingPcs, CarriesAll
<1>2. CASE StampVersion(r)
  <2> PICK i : i = q.staff
    OBVIOUS
  <2>0. q.pc = "version" /\ UNCHANGED <<years, session, required, served>>
    BY <1>2 DEF StampVersion
  <2>1. i \in StaffIds /\ q.role \in Roles /\ q.gone \in SUBSET StaffIds
    BY <1>1, <2>0 DEF ResolvingStates
  <2>2. \/ Answered(r) \/ Next_(r, "open")
        \/ RequestGoes(r, Serving("bearer", i, q.role, q.gone))
    BY <1>2 DEF StampVersion
  <2>3. RequestsTyped'
    <3>1. CASE Answered(r)
      BY <1>0, <3>1, RequestEnds
    <3>2. CASE Next_(r, "open")
      BY <1>0, <2>0, <3>2, ResolvingGoesOn DEF ResolvingPcs
    <3>3. CASE RequestGoes(r, Serving("bearer", i, q.role, q.gone))
      BY <1>0, <2>1, <3>3, ServingTyped, RequestMoves
    <3> QED BY <2>2, <3>1, <3>2, <3>3
  <2>4. \/ UNCHANGED <<staff, stamped>>
        \/ /\ Exists(staff, i)
           /\ staff' = [staff EXCEPT ![i].version = required]
           /\ stamped' = stamped \cup {i}
    BY <1>2 DEF StampVersion
  <2>5. CASE /\ Exists(staff, i)
             /\ staff' = [staff EXCEPT ![i].version = required]
             /\ stamped' = stamped \cup {i}
    <3>1. staff[i] \in StaffRows
      BY <1>0, <2>1, <2>5 DEF AccountsTyped, Exists
    <3>2. [staff[i] EXCEPT !.version = required] \in StaffRows
      BY <1>0, <3>1 DEF StaffRows, AccountsTyped
    <3>3. staff' = [staff EXCEPT ![i] = [staff[i] EXCEPT !.version = required]]
      BY <2>5
    <3>4. staff' \in [StaffIds -> StaffRows \cup {Absent, Deleted}]
      BY <1>0, <3>2, <3>3 DEF AccountsTyped
    <3> QED BY <1>0, <2>0, <2>1, <2>3, <2>5, <3>4 DEF AccountsTyped
  <2>6. CASE UNCHANGED <<staff, stamped>>
    BY <1>0, <2>0, <2>3, <2>6 DEF AccountsTyped
  <2> QED BY <2>4, <2>5, <2>6
<1>3. CASE OpenSession(r)
  <2>0. q.pc = "open" /\ Answered(r) /\ UNCHANGED <<staff, years, required, stamped, served>>
    BY <1>3 DEF OpenSession, processVars
  <2>1. PICK t \in Unused(session) :
          session' = [session EXCEPT ![t] = [staff |-> q.staff, role |-> q.role]]
    BY <1>3 DEF OpenSession
  <2>2. [staff |-> q.staff, role |-> q.role] \in SessionRows
    BY <1>1, <2>0 DEF SessionRows
  <2>3. session' \in [Tokens -> SessionRows \cup {Absent, Deleted}]
    BY <1>0, <2>1, <2>2 DEF AccountsTyped
  <2>4. RequestsTyped'
    BY <1>0, <2>0, RequestEnds
  <2> QED BY <1>0, <2>0, <2>3, <2>4 DEF AccountsTyped
<1> QED BY <1>2, <1>3

LEMMA TypesOfSessions ==
  ASSUME Typed, NEW r \in Requests,
         \/ \E t \in Tokens : SessionArrives(r, t, "session")
         \/ \E t \in Tokens : SessionArrives(r, t, "optional")
         \/ LoadStaff(r) \/ LoadForReader(r) \/ CheckCSRF(r)
         \/ \E t \in Tokens : Logout(r, t)
  PROVE  RequestsTyped' /\ AccountsTyped'
<1>0. RequestsTyped /\ AccountsTyped
  BY DEF Typed
<1> PICK q : q = request[r]
  OBVIOUS
<1>1. q.pc \in {"load", "csrf"} => q \in LoadingStates
  BY <1>0, StateOfPc DEF RequestsTyped
<1>2. Arrive(r) => served' \in 0..MaxRequests
  <2>1. \A n, m : n \in 0..m /\ m \in Nat /\ n < m => n + 1 \in 0..m
    OBVIOUS
  <2> QED BY <1>0, <2>1, AccountsAssumption DEF Arrive, AccountsTyped
<1>3. \A t : [session EXCEPT ![t] = Deleted] \in [Tokens -> SessionRows \cup {Absent, Deleted}]
  BY <1>0 DEF AccountsTyped
<1>4. ASSUME NEW t \in Tokens, NEW via \in {"session", "optional"}, SessionArrives(r, t, via)
      PROVE  RequestsTyped' /\ AccountsTyped'
  <2>1. session[t] \in SessionRows
    BY <1>0, <1>4 DEF SessionArrives, Usable, Exists, AccountsTyped
  <2> PICK to : to = [pc |-> "load", via |-> via, token |-> t, staff |-> session[t].staff,
                      role |-> session[t].role, gone |-> Gone]
    OBVIOUS
  <2>2. to \in LoadingStates
    BY <2>1 DEF LoadingStates, SessionRows, Gone
  <2>3. CarriesAll(to)
    BY DEF CarriesAll, ResolvingPcs
  <2>4. RequestsTyped'
    BY <1>0, <1>4, <2>2, <2>3, RequestMoves, StatesHave DEF SessionArrives
  <2> QED BY <1>0, <1>2, <1>4, <2>4 DEF SessionArrives, AccountsTyped, tableVars, processVars
<1>5. CASE LoadStaff(r)
  <2>0. q.pc = "load" /\ UNCHANGED <<staff, years, required, stamped, served>>
    BY <1>5 DEF LoadStaff, processVars
  <2>1. CASE Next_(r, "csrf") /\ UNCHANGED session
    <3> PICK to : to = [q EXCEPT !.pc = "csrf"]
      OBVIOUS
    <3>1. to \in LoadingStates /\ to.pc = "csrf"
      BY <1>1, <2>0 DEF LoadingStates
    <3>2. CarriesAll(to)
      BY <3>1 DEF CarriesAll, ResolvingPcs
    <3>3. RequestsTyped'
      BY <1>0, <2>1, <3>1, <3>2, RequestMoves, StatesHave DEF Next_
    <3> QED BY <1>0, <2>0, <2>1, <3>3 DEF AccountsTyped
  <2>2. CASE session' = Without(request[r].token) /\ Answered(r)
    <3>1. RequestsTyped'
      BY <1>0, <2>2, RequestEnds
    <3> QED BY <1>0, <1>3, <2>0, <2>2, <3>1 DEF AccountsTyped, Without
  <2> QED BY <1>5, <2>1, <2>2 DEF LoadStaff
<1>6. CASE LoadForReader(r)
  <2>1. RequestsTyped'
    BY <1>0, <1>6, RequestEnds DEF LoadForReader
  <2>2. session' = session \/ session' = Without(request[r].token)
    BY <1>6 DEF LoadForReader
  <2>3. UNCHANGED <<staff, years, required, stamped, served>>
    BY <1>6 DEF LoadForReader, processVars
  <2> QED BY <1>0, <1>3, <2>1, <2>2, <2>3 DEF AccountsTyped, Without
<1>7. CASE CheckCSRF(r)
  <2>1. RequestsTyped'
    <3>1. CASE Answered(r)
      BY <1>0, <3>1, RequestEnds
    <3>2. CASE RequestGoes(r, Serving("session", q.staff, q.role, q.gone))
      <4>1. q.staff \in StaffIds /\ q.role \in Roles /\ q.gone \in SUBSET StaffIds
        BY <1>1, <1>7 DEF CheckCSRF, LoadingStates
      <4> QED BY <1>0, <3>2, <4>1, ServingTyped, RequestMoves
    <3> QED BY <1>7, <3>1, <3>2 DEF CheckCSRF
  <2> QED BY <1>0, <1>7, <2>1 DEF CheckCSRF, AccountsTyped, tableVars, processVars
<1>8. ASSUME NEW t \in Tokens, Logout(r, t) PROVE RequestsTyped' /\ AccountsTyped'
  <2>1. Arrive(r) /\ session' = Without(t) /\ UNCHANGED <<staff, years, required, stamped, request>>
    BY <1>8 DEF Logout, processVars
  <2>2. RequestsTyped'
    BY <1>0, <2>1, RequestsStay
  <2> QED BY <1>0, <1>2, <1>3, <2>1, <2>2 DEF AccountsTyped, Without
<1> QED BY <1>4, <1>5, <1>6, <1>7, <1>8

LEMMA TypesOfAccountSteps ==
  ASSUME Typed, NEW r \in Requests, AccountStep(r)
  PROVE  RequestsTyped' /\ AccountsTyped'
<1>1. ASSUME NEW i \in StaffIds, DeleteStaff(r, i) PROVE RequestsTyped' /\ AccountsTyped'
  <2>0. RequestsTyped /\ AccountsTyped
    BY DEF Typed
  <2>1. RequestsTyped'
    BY <1>1, <2>0, RequestEnds DEF DeleteStaff
  <2> QED BY <1>1, <2>0, <2>1 DEF DeleteStaff, AccountsTyped, processVars
<1> QED BY <1>1, TypesOfArrivals, TypesOfResolving, TypesOfStamping, TypesOfSessions DEF AccountStep

LEMMA TypesOfEnd ==
  ASSUME Typed, NEW r \in Requests, End(r)
  PROVE  RequestsTyped' /\ AccountsTyped'
<1>1. RequestsTyped'
  BY RequestEnds DEF End, Typed
<1> QED BY <1>1 DEF End, Typed, AccountsTyped, tableVars, processVars

LEMMA TypesOfDeploy ==
  ASSUME Typed, Deploy
  PROVE  RequestsTyped' /\ AccountsTyped'
<1>1. request' = [r \in Requests |-> Idle] /\ UNCHANGED <<staff, years, session, served>>
  BY DEF Deploy, tableVars
<1>2. Idle \in States /\ CarriesAll(Idle)
  BY DEF Idle, CarriesAll, States, AuthStates, ResolvingPcs
<1>3. \A r \in Requests : request'[r] = Idle
  BY <1>1
<1>4. \A r \in Requests : CarriesAll(request[r])'
  BY <1>2, <1>3 DEF CarriesAll
<1>5. RequestsTyped'
  BY <1>1, <1>2, <1>4 DEF RequestsTyped
<1>6. PICK v \in {required, required + 1} :
        /\ v <= MaxVersion /\ required' = v
        /\ stamped' = IF v = required THEN stamped ELSE {}
  BY DEF Deploy
<1>7. required' \in 0..MaxVersion /\ stamped' \subseteq StaffIds
  BY <1>6, AccountsAssumption DEF Typed, AccountsTyped
<1> QED BY <1>1, <1>5, <1>7 DEF Typed, AccountsTyped
-----------------------------------------------------------------------------
(***************************************************************************)
(* Types: work schedules.                                                  *)
(***************************************************************************)
LEMMA TimesNat ==
  ASSUME NEW st, NEW list \in Seq(StaffIds)
  PROVE  Times(st, list) \in Nat
<1> PICK places : places = {n \in DOMAIN list : list[n] = st}
  OBVIOUS
<1>1. DOMAIN list = 1..Len(list) /\ Len(list) \in Nat
  OBVIOUS
<1>2. IsFiniteSet(DOMAIN list)
  BY <1>1, FS_Interval
<1>3. IsFiniteSet(places)
  BY <1>2, FS_Subset
<1>4. Cardinality(places) \in Nat
  BY <1>3, FS_CardinalityType
<1> QED BY <1>4 DEF Times

LEMMA SlotsReplaced ==
  ASSUME SchedulesTyped, NEW old, NEW s \in ScheduleIds, NEW week,
         week \in Weeks \/ week = <<>>, ReplaceSlots(old, s, week)
  PROVE  /\ slot' \in [SlotIds -> SlotRows \cup {Absent, Deleted}]
         /\ assigned' \in [SlotIds -> [StaffIds -> Nat]]
<1>1. \A i \in SlotIds : IsNew(i, week) =>
        week[Place(i)].place \in Places /\ week[Place(i)].staff \in Seq(StaffIds)
  <2> SUFFICES ASSUME NEW i \in SlotIds, IsNew(i, week)
               PROVE  week[Place(i)].place \in Places /\ week[Place(i)].staff \in Seq(StaffIds)
    OBVIOUS
  <2>1. week \in Weeks
    BY EmptyWeekNew
  <2>2. week[Place(i)] \in [place : Places, staff : Seq(StaffIds)]
    BY <2>1, PlaceOfNew
  <2> QED BY <2>2
<1>2. \A i \in SlotIds :
        IsNew(i, week) => [schedule |-> s, place |-> week[Place(i)].place] \in SlotRows
  BY <1>1 DEF SlotRows
<1>3. slot' \in [SlotIds -> SlotRows \cup {Absent, Deleted}]
  BY <1>2 DEF ReplaceSlots, SchedulesTyped
<1>4. ASSUME NEW i \in SlotIds, NEW st \in StaffIds, IsNew(i, week)
      PROVE  Times(st, week[Place(i)].staff) \in Nat
  <2>1. week[Place(i)].staff \in Seq(StaffIds)
    BY <1>1, <1>4
  <2> QED BY <2>1, TimesNat
<1>5. \A i \in SlotIds, st \in StaffIds : assigned[i][st] \in Nat
  BY DEF SchedulesTyped
<1> PICK rows : rows = [i \in SlotIds |-> [st \in StaffIds |->
      IF IsNew(i, week) THEN Times(st, week[Place(i)].staff)
      ELSE IF i \in old THEN 0 ELSE assigned[i][st]]]
  OBVIOUS
<1>6. rows \in [SlotIds -> [StaffIds -> Nat]]
  BY <1>4, <1>5
<1>7. assigned' = rows
  BY DEF ReplaceSlots
<1> QED BY <1>3, <1>6, <1>7

\* A request at work on a schedule goes on as one.
LEMMA StaffingTyped ==
  ASSUME NEW q \in StaffingStates, NEW to,
         \/ \E i \in SlotIds : to = [q EXCEPT !.pc = "check", !.slot = i]
         \/ to = [q EXCEPT !.pc = "new_slot"]
         \/ to = [q EXCEPT !.pc = "insert"] /\ q.slot \in SlotIds
  PROVE  to \in States /\ CarriesAll(to)
<1>1. to \in StaffingStates
  BY DEF StaffingStates
<1>2. /\ to.pc \in {"check", "new_slot", "insert"}
      /\ to.pc \in {"check", "insert"} => to.slot \in SlotIds
  BY DEF StaffingStates
<1>3. CarriesAll(to)
  BY <1>2 DEF CarriesAll, ResolvingPcs
<1> QED BY <1>1, <1>3, StatesHave

\* A slot is added under a key of its own.
LEMMA SlotAdded ==
  ASSUME SchedulesTyped, NEW s \in ScheduleIds, NEW place \in Places, AddSlot(s, place)
  PROVE  /\ NextId(slot) \in SlotIds /\ slot[NextId(slot)] = Absent
         /\ slot' = [slot EXCEPT ![NextId(slot)] = [schedule |-> s, place |-> place]]
         /\ slot' \in [SlotIds -> SlotRows \cup {Absent, Deleted}]
<1>1. NextId(slot) \in SlotIds /\ slot[NextId(slot)] = Absent
  BY NextIdUnused, WorkSchedulesAssumption DEF AddSlot, SchedulesTyped
<1>2. [schedule |-> s, place |-> place] \in SlotRows
  BY DEF SlotRows
<1> QED BY <1>1, <1>2 DEF AddSlot, SchedulesTyped

LEMMA RacedTyped ==
  ASSUME SchedulesTyped, NEW r, NEW s, Changes(r, s)
  PROVE  raced' \in BOOLEAN
  BY DEF Changes, SchedulesTyped

LEMMA TypesOfPeriods ==
  ASSUME Typed, NEW r \in Requests,
         CreateSchedule(r) \/ (\E s \in ScheduleIds : BeginUpdate(r, s)) \/ Update(r)
           \/ (\E s \in ScheduleIds : DeleteSchedule(r, s))
  PROVE  RequestsTyped' /\ SchedulesTyped'
<1>0. RequestsTyped /\ SchedulesTyped
  BY DEF Typed
<1>1. CASE CreateSchedule(r)
  <2> PICK n : n = NextId(schedule)
    OBVIOUS
  <2>1. PICK start, end \in Dates, enabled \in BOOLEAN \cup {Keep}, week \in Weeks :
          /\ schedule' = [schedule EXCEPT ![n] = NewRow(start, end, enabled)]
          /\ ReplaceSlots({}, n, week)
    BY <1>1 DEF CreateSchedule
  <2>2. n \in ScheduleIds
    BY <1>0, <1>1, NextIdUnused, WorkSchedulesAssumption DEF CreateSchedule, SchedulesTyped
  <2>3. NewRow(start, end, enabled) \in ScheduleRows
    BY DEF NewRow, ScheduleRows
  <2>4. schedule' \in [ScheduleIds -> ScheduleRows \cup {Absent, Deleted}]
    BY <1>0, <2>1, <2>3 DEF SchedulesTyped
  <2>5. /\ slot' \in [SlotIds -> SlotRows \cup {Absent, Deleted}]
        /\ assigned' \in [SlotIds -> [StaffIds -> Nat]]
    BY <1>0, <2>1, <2>2, SlotsReplaced
  <2>6. RequestsTyped' /\ UNCHANGED <<raced, blind>>
    BY <1>0, <1>1, RequestEnds DEF CreateSchedule, historyVars
  <2> QED BY <1>0, <2>4, <2>5, <2>6 DEF SchedulesTyped
<1>2. ASSUME NEW s \in ScheduleIds, BeginUpdate(r, s) PROVE RequestsTyped' /\ SchedulesTyped'
  <2> PICK to : to = [pc |-> "update", schedule |-> s,
                      start |-> schedule[s].start, end |-> schedule[s].end]
    OBVIOUS
  <2>1. schedule[s] \in ScheduleRows
    BY <1>0, <1>2 DEF BeginUpdate, Exists, SchedulesTyped
  <2>2. to \in UpdateStates
    BY <2>1 DEF UpdateStates, ScheduleRows
  <2>3. CarriesAll(to)
    BY DEF CarriesAll, ResolvingPcs
  <2>4. RequestsTyped'
    BY <1>0, <1>2, <2>2, <2>3, RequestMoves, StatesHave DEF BeginUpdate
  <2> QED BY <1>0, <1>2, <2>4 DEF BeginUpdate, SchedulesTyped, scheduleVars
<1>3. CASE Update(r)
  <2> PICK s : s = request[r].schedule
    OBVIOUS
  <2>1. s \in ScheduleIds
    BY <1>0, <1>3, StateOfPc DEF Update, UpdateStates, RequestsTyped
  <2>2. PICK u \in Updates :
          /\ schedule' = IF ~Exists(schedule, s) THEN schedule
                         ELSE [schedule EXCEPT ![s] = [start |-> Given(u.start, @.start),
                                                       end |-> Given(u.end, @.end),
                                                       enabled |-> Given(u.enabled, @.enabled)]]
          /\ IF u.week = Keep THEN UNCHANGED <<slot, assigned>>
             ELSE CanBeCreated(u.week) /\ ReplaceSlots(SlotsOf(s), s, u.week)
    BY <1>3 DEF Update
  <2>3. schedule' \in [ScheduleIds -> ScheduleRows \cup {Absent, Deleted}]
    <3>1. CASE ~Exists(schedule, s)
      BY <1>0, <2>2, <3>1 DEF SchedulesTyped
    <3>2. CASE Exists(schedule, s)
      <4> PICK row : row = [start |-> Given(u.start, schedule[s].start),
                            end |-> Given(u.end, schedule[s].end),
                            enabled |-> Given(u.enabled, schedule[s].enabled)]
        OBVIOUS
      <4>1. schedule[s] \in ScheduleRows
        BY <1>0, <2>1, <3>2 DEF SchedulesTyped, Exists
      <4>2. row \in ScheduleRows
        BY <4>1 DEF ScheduleRows, Updates, Given
      <4>3. schedule' = [schedule EXCEPT ![s] = row]
        BY <2>2, <3>2
      <4> QED BY <1>0, <4>2, <4>3 DEF SchedulesTyped
    <3> QED BY <3>1, <3>2
  <2>4. /\ slot' \in [SlotIds -> SlotRows \cup {Absent, Deleted}]
        /\ assigned' \in [SlotIds -> [StaffIds -> Nat]]
    <3>1. CASE u.week = Keep
      BY <1>0, <2>2, <3>1 DEF SchedulesTyped
    <3>2. CASE u.week # Keep
      <4>1. u.week \in Weeks
        BY <3>2 DEF Updates
      <4> QED BY <1>0, <2>1, <2>2, <3>2, <4>1, SlotsReplaced
    <3> QED BY <3>1, <3>2
  <2>5. raced' \in BOOLEAN
    BY <1>0, <1>3, RacedTyped DEF Update
  <2>6. RequestsTyped' /\ UNCHANGED blind
    BY <1>0, <1>3, RequestEnds DEF Update
  <2> QED BY <1>0, <2>3, <2>4, <2>5, <2>6 DEF SchedulesTyped
<1>4. ASSUME NEW s \in ScheduleIds, DeleteSchedule(r, s) PROVE RequestsTyped' /\ SchedulesTyped'
  <2>1. /\ slot' \in [SlotIds -> SlotRows \cup {Absent, Deleted}]
        /\ assigned' \in [SlotIds -> [StaffIds -> Nat]]
    BY <1>0, <1>4, SlotsReplaced DEF DeleteSchedule, SlotsDeleted
  <2>2. schedule' \in [ScheduleIds -> ScheduleRows \cup {Absent, Deleted}]
    BY <1>0, <1>4 DEF DeleteSchedule, SchedulesTyped
  <2>3. raced' \in BOOLEAN
    BY <1>0, <1>4, RacedTyped DEF DeleteSchedule
  <2>4. RequestsTyped' /\ UNCHANGED blind
    BY <1>0, <1>4, RequestEnds DEF DeleteSchedule
  <2> QED BY <1>0, <2>1, <2>2, <2>3, <2>4 DEF SchedulesTyped
<1> QED BY <1>1, <1>2, <1>3, <1>4

LEMMA TypesOfWeekdays ==
  ASSUME Typed, NEW r \in Requests,
         (\E s \in ScheduleIds : BeginWeekday(r, s)) \/ (\E place \in Places : UpdateWeekday(r, place))
  PROVE  RequestsTyped' /\ SchedulesTyped'
<1>0. RequestsTyped /\ SchedulesTyped
  BY DEF Typed
<1>1. ASSUME NEW s \in ScheduleIds, BeginWeekday(r, s) PROVE RequestsTyped' /\ SchedulesTyped'
  <2> PICK to : to = [pc |-> "weekday", schedule |-> s]
    OBVIOUS
  <2>1. to \in WeekdayStates
    BY DEF WeekdayStates
  <2>2. CarriesAll(to)
    BY DEF CarriesAll, ResolvingPcs
  <2>3. RequestsTyped'
    BY <1>0, <1>1, <2>1, <2>2, RequestMoves, StatesHave DEF BeginWeekday
  <2> QED BY <1>0, <1>1, <2>3 DEF BeginWeekday, SchedulesTyped, scheduleVars
<1>2. ASSUME NEW place \in Places, UpdateWeekday(r, place) PROVE RequestsTyped' /\ SchedulesTyped'
  <2> PICK s : s = request[r].schedule
    OBVIOUS
  <2>1. s \in ScheduleIds
    BY <1>0, <1>2, StateOfPc DEF UpdateWeekday, WeekdayStates, RequestsTyped
  <2>2. AddSlot(s, place) \/ UNCHANGED slot
    BY <1>2 DEF UpdateWeekday
  <2>3. slot' \in [SlotIds -> SlotRows \cup {Absent, Deleted}]
    BY <1>0, <2>1, <2>2, SlotAdded DEF SchedulesTyped
  <2>4. raced' \in BOOLEAN
    BY <1>0, <1>2, RacedTyped DEF UpdateWeekday
  <2>5. RequestsTyped' /\ UNCHANGED <<schedule, assigned, blind>>
    BY <1>0, <1>2, RequestEnds DEF UpdateWeekday
  <2> QED BY <1>0, <2>3, <2>4, <2>5 DEF SchedulesTyped
<1> QED BY <1>1, <1>2

LEMMA TypesOfAdding ==
  ASSUME Typed, NEW r \in Requests,
         \/ \E s \in ScheduleIds, st \in StaffIds, place \in Places : BeginAdd(r, s, st, place)
         \/ FindSlot(r) \/ NewSlot(r) \/ CheckAssigned(r) \/ CheckFails(r) \/ Insert(r)
  PROVE  RequestsTyped' /\ SchedulesTyped'
<1>0. RequestsTyped /\ SchedulesTyped
  BY DEF Typed
<1> PICK q : q = request[r]
  OBVIOUS
<1>1. q.pc \in {"find_slot", "new_slot", "check", "insert", "remove"} =>
        q \in StaffingStates /\ CarriesAll(q) /\ q.schedule \in ScheduleIds
  BY <1>0, StateOfPc DEF RequestsTyped, StaffingStates
<1>2. ASSUME NEW s \in ScheduleIds, NEW st \in StaffIds, NEW place \in Places, BeginAdd(r, s, st, place)
      PROVE  RequestsTyped' /\ SchedulesTyped'
  <2> PICK to : to = [pc |-> "find_slot", schedule |-> s, staff |-> st, place |-> place, slot |-> 0]
    OBVIOUS
  <2>1. to \in StaffingStates
    BY DEF StaffingStates
  <2>2. CarriesAll(to)
    BY DEF CarriesAll, ResolvingPcs
  <2>3. RequestsTyped'
    BY <1>0, <1>2, <2>1, <2>2, RequestMoves, StatesHave DEF BeginAdd
  <2> QED BY <1>0, <1>2, <2>3 DEF BeginAdd, SchedulesTyped, scheduleVars
<1>3. CASE FindSlot(r)
  <2> PICK here : here = SlotsAt(q.schedule, q.place)
    OBVIOUS
  <2>1. q.pc = "find_slot" /\ UNCHANGED scheduleVars
    BY <1>3 DEF FindSlot
  <2>2. here \subseteq SlotIds /\ here \subseteq Nat
    BY WorkSchedulesAssumption DEF SlotsAt, SlotsOf
  <2>3. PICK to :
          /\ RequestGoes(r, to)
          /\ \/ \E i \in SlotIds : to = [q EXCEPT !.pc = "check", !.slot = i]
             \/ to = [q EXCEPT !.pc = "new_slot"]
    <3>1. CASE \E i \in SlotsOf(q.schedule) :
                 RequestGoes(r, [q EXCEPT !.pc = "check", !.slot = i])
      BY <3>1 DEF SlotsOf
    <3>2. CASE /\ here # {}
               /\ RequestGoes(r, [q EXCEPT !.pc = "check", !.slot = Min(here)])
      <4>1. Min(here) \in SlotIds
        BY <2>2, <3>2, LeastExists
      <4> QED BY <3>2, <4>1
    <3>3. CASE RequestGoes(r, [q EXCEPT !.pc = "new_slot"])
      BY <3>3
    <3> QED BY <1>3, <3>1, <3>2, <3>3 DEF FindSlot
  <2>4. RequestsTyped'
    BY <1>0, <1>1, <2>1, <2>3, StaffingTyped, RequestMoves
  <2> QED BY <1>0, <2>1, <2>4 DEF SchedulesTyped, scheduleVars
<1>4. CASE NewSlot(r)
  <2>1. q.pc = "new_slot" /\ q.schedule \in ScheduleIds /\ q.place \in Places
    BY <1>1, <1>4 DEF NewSlot, StaffingStates
  <2>2. /\ NextId(slot) \in SlotIds
        /\ slot' \in [SlotIds -> SlotRows \cup {Absent, Deleted}]
    BY <1>0, <1>4, <2>1, SlotAdded DEF NewSlot
  <2>3. RequestsTyped'
    BY <1>0, <1>1, <1>4, <2>1, <2>2, StaffingTyped, RequestMoves DEF NewSlot
  <2>4. raced' \in BOOLEAN
    BY <1>0, <1>4, RacedTyped DEF NewSlot
  <2> QED BY <1>0, <1>4, <2>2, <2>3, <2>4 DEF NewSlot, SchedulesTyped
<1>5. CASE CheckAssigned(r)
  <2>1. q.pc = "check" /\ UNCHANGED scheduleVars
    BY <1>5 DEF CheckAssigned
  <2>2. Answered(r) \/ RequestGoes(r, [q EXCEPT !.pc = "insert"])
    BY <1>5 DEF CheckAssigned
  <2>3. q.slot \in SlotIds
    BY <1>1, <2>1 DEF CarriesAll
  <2>4. RequestsTyped'
    BY <1>0, <1>1, <2>1, <2>2, <2>3, StaffingTyped, RequestMoves, RequestEnds
  <2> QED BY <1>0, <2>1, <2>4 DEF SchedulesTyped, scheduleVars
<1>6. CASE Insert(r)
  <2>1. q.pc = "insert" /\ Answered(r) /\ UNCHANGED <<schedule, slot, blind>>
    BY <1>6 DEF Insert
  <2>2. q.slot \in SlotIds /\ q.staff \in StaffIds
    BY <1>1, <2>1 DEF CarriesAll, StaffingStates
  <2> PICK i \in SlotIds, st \in StaffIds : i = q.slot /\ st = q.staff
    BY <2>2
  <2>3. assigned' = [assigned EXCEPT ![i][st] = @ + 1]
    BY <1>6 DEF Insert
  <2>4. assigned' \in [SlotIds -> [StaffIds -> Nat]]
    BY <1>0, <2>3 DEF SchedulesTyped
  <2>5. raced' \in BOOLEAN
    BY <1>0, <1>6, RacedTyped DEF Insert
  <2>6. RequestsTyped'
    BY <1>0, <2>1, RequestEnds
  <2> QED BY <1>0, <2>1, <2>4, <2>5, <2>6 DEF SchedulesTyped
<1>7. CASE CheckFails(r)
  <2>1. /\ q.pc = "check" /\ RequestGoes(r, [q EXCEPT !.pc = "insert"])
        /\ blind' = blind \cup {<<q.slot, q.staff>>} /\ UNCHANGED <<schedule, slot, assigned, raced>>
    BY <1>7 DEF CheckFails
  <2>2. q.slot \in SlotIds /\ q.staff \in StaffIds
    BY <1>1, <2>1 DEF CarriesAll, StaffingStates
  <2>3. RequestsTyped'
    BY <1>0, <1>1, <2>1, <2>2, StaffingTyped, RequestMoves
  <2> QED BY <1>0, <2>1, <2>2, <2>3 DEF SchedulesTyped
<1> QED BY <1>2, <1>3, <1>4, <1>5, <1>6, <1>7

LEMMA TypesOfRemoving ==
  ASSUME Typed, NEW r \in Requests,
         (\E i \in SlotIds, st \in StaffIds : BeginRemove(r, i, st)) \/ Remove(r)
  PROVE  RequestsTyped' /\ SchedulesTyped'
<1>0. RequestsTyped /\ SchedulesTyped
  BY DEF Typed
<1>1. ASSUME NEW i \in SlotIds, NEW st \in StaffIds, BeginRemove(r, i, st)
      PROVE  RequestsTyped' /\ SchedulesTyped'
  <2> PICK to : to = [pc |-> "remove", schedule |-> slot[i].schedule, staff |-> st,
                      place |-> slot[i].place, slot |-> i]
    OBVIOUS
  <2>1. slot[i] \in SlotRows
    BY <1>0, <1>1 DEF BeginRemove, Exists, SchedulesTyped
  <2>2. to \in StaffingStates
    BY <2>1 DEF StaffingStates, SlotRows
  <2>3. CarriesAll(to)
    BY DEF CarriesAll, ResolvingPcs
  <2>4. RequestsTyped'
    BY <1>0, <1>1, <2>2, <2>3, RequestMoves, StatesHave DEF BeginRemove
  <2> QED BY <1>0, <1>1, <2>4 DEF BeginRemove, SchedulesTyped, scheduleVars
<1>2. CASE Remove(r)
  <2> PICK q : q = request[r]
    OBVIOUS
  <2>1. q.pc = "remove" /\ Answered(r) /\ UNCHANGED <<schedule, slot, blind>>
    BY <1>2 DEF Remove
  <2>2. q \in StaffingStates /\ CarriesAll(q)
    BY <1>0, <2>1, StateOfPc DEF RequestsTyped
  <2> PICK i \in SlotIds, st \in StaffIds : i = q.slot /\ st = q.staff
    BY <2>1, <2>2 DEF CarriesAll, StaffingStates
  <2>3. assigned' = [assigned EXCEPT ![i][st] = 0]
    BY <1>2 DEF Remove
  <2>4. assigned' \in [SlotIds -> [StaffIds -> Nat]]
    BY <1>0, <2>3 DEF SchedulesTyped
  <2>5. raced' \in BOOLEAN
    BY <1>0, <1>2, RacedTyped DEF Remove
  <2>6. RequestsTyped'
    BY <1>0, <2>1, RequestEnds
  <2> QED BY <1>0, <2>1, <2>4, <2>5, <2>6 DEF SchedulesTyped
<1> QED BY <1>1, <1>2

LEMMA TypesOfScheduleSteps ==
  ASSUME Typed, NEW r \in Requests, ScheduleStep(r)
  PROVE  /\ RequestsTyped' /\ SchedulesTyped' /\ AccountsTyped'
         /\ UNCHANGED <<tableVars, processVars, served>>
<1>1. RequestsTyped' /\ SchedulesTyped'
  BY TypesOfPeriods, TypesOfWeekdays, TypesOfAdding, TypesOfRemoving DEF ScheduleStep
<1>2. UNCHANGED <<tableVars, processVars, served>>
  BY DEF ScheduleStep, CreateSchedule, BeginUpdate, Update, DeleteSchedule, BeginWeekday,
     UpdateWeekday, BeginAdd, FindSlot, NewSlot, CheckAssigned, CheckFails, Insert, BeginRemove, Remove
<1>3. AccountsTyped'
  BY <1>2 DEF Typed, AccountsTyped, tableVars, processVars
<1> QED BY <1>1, <1>2, <1>3
-----------------------------------------------------------------------------
(***************************************************************************)
(* Types: announcements, and the whole.                                    *)
(***************************************************************************)
LEMMA TypesOfPublishing ==
  ASSUME Typed, NEW r \in Requests,
         \/ \E tag \in AnnouncementTags, enabled \in BOOLEAN : BeginPublish(r, tag, enabled)
         \/ Publish(r) \/ Hide(r)
  PROVE  RequestsTyped' /\ AnnouncementsTyped'
<1>0. RequestsTyped /\ AnnouncementsTyped
  BY DEF Typed
<1> PICK q : q = request[r]
  OBVIOUS
<1>1. ASSUME NEW tag \in AnnouncementTags, NEW enabled \in BOOLEAN, BeginPublish(r, tag, enabled)
      PROVE  RequestsTyped' /\ AnnouncementsTyped'
  <2> PICK to : to = [pc |-> "publish", tag |-> tag, enabled |-> enabled]
    OBVIOUS
  <2>1. to \in PublishStates
    BY DEF PublishStates
  <2>2. CarriesAll(to)
    BY DEF CarriesAll, ResolvingPcs
  <2>3. RequestsTyped'
    BY <1>0, <1>1, <2>1, <2>2, RequestMoves, StatesHave DEF BeginPublish
  <2> QED BY <1>0, <1>1, <2>3 DEF BeginPublish, AnnouncementsTyped, announcementVars
<1>2. CASE Publish(r)
  <2> PICK n : n = NextId(announcement)
    OBVIOUS
  <2>1. /\ q.pc = "publish" /\ UNCHANGED cut
        /\ announcement' = [announcement EXCEPT ![n] =
             [tag |-> q.tag, enabled |-> TRUE, meant |-> q.enabled]]
        /\ Answered(r) \/ RequestGoes(r, [pc |-> "hide", announcement |-> n])
    BY <1>2 DEF Publish
  <2>2. n \in AnnouncementIds
    BY <1>0, <1>2, NextIdUnused, AnnouncementsAssumption DEF Publish, AnnouncementsTyped
  <2>3. q \in PublishStates
    BY <1>0, <2>1, StateOfPc DEF RequestsTyped
  <2>4. [tag |-> q.tag, enabled |-> TRUE, meant |-> q.enabled] \in AnnouncementRows
    BY <2>3 DEF PublishStates, AnnouncementRows
  <2>5. announcement' \in [AnnouncementIds -> AnnouncementRows \cup {Absent, Deleted}]
    BY <1>0, <2>1, <2>4 DEF AnnouncementsTyped
  <2> PICK to : to = [pc |-> "hide", announcement |-> n]
    OBVIOUS
  <2>6. to \in HideStates /\ CarriesAll(to)
    BY <2>2 DEF HideStates, CarriesAll, ResolvingPcs
  <2>7. RequestsTyped'
    BY <1>0, <2>1, <2>6, RequestMoves, RequestEnds, StatesHave
  <2> QED BY <1>0, <2>1, <2>5, <2>7 DEF AnnouncementsTyped
<1>3. CASE Hide(r)
  <2> PICK n : n = q.announcement
    OBVIOUS
  <2>1. /\ q.pc = "hide" /\ UNCHANGED cut /\ Answered(r)
        /\ announcement' = IF Exists(announcement, n)
                           THEN [announcement EXCEPT ![n].enabled = FALSE] ELSE announcement
    BY <1>3 DEF Hide, SetEnabled
  <2>2. n \in AnnouncementIds
    BY <1>0, <2>1, StateOfPc DEF RequestsTyped, HideStates
  <2>3. announcement' \in [AnnouncementIds -> AnnouncementRows \cup {Absent, Deleted}]
    <3>1. CASE Exists(announcement, n)
      <4>1. announcement[n] \in AnnouncementRows
        BY <1>0, <2>2, <3>1 DEF AnnouncementsTyped, Exists
      <4>2. [announcement[n] EXCEPT !.enabled = FALSE] \in AnnouncementRows
        BY <4>1 DEF AnnouncementRows
      <4>3. announcement' = [announcement EXCEPT ![n] = [announcement[n] EXCEPT !.enabled = FALSE]]
        BY <2>1, <3>1
      <4> QED BY <1>0, <4>2, <4>3 DEF AnnouncementsTyped
    <3>2. CASE ~Exists(announcement, n)
      BY <1>0, <2>1, <3>2 DEF AnnouncementsTyped
    <3> QED BY <3>1, <3>2
  <2>4. RequestsTyped'
    BY <1>0, <2>1, RequestEnds
  <2> QED BY <1>0, <2>1, <2>3, <2>4 DEF AnnouncementsTyped
<1> QED BY <1>1, <1>2, <1>3

LEMMA TypesOfEditing ==
  ASSUME Typed, NEW r \in Requests,
         \/ \E n \in AnnouncementIds, e \in Edits : BeginEdit(r, n, e)
         \/ Edit(r) \/ \E n \in AnnouncementIds : Withdraw(r, n)
  PROVE  RequestsTyped' /\ AnnouncementsTyped'
<1>0. RequestsTyped /\ AnnouncementsTyped
  BY DEF Typed
<1>1. ASSUME NEW n \in AnnouncementIds, NEW e \in Edits, BeginEdit(r, n, e)
      PROVE  RequestsTyped' /\ AnnouncementsTyped'
  <2> PICK to : to = [pc |-> "edit", announcement |-> n, edit |-> e]
    OBVIOUS
  <2>1. to \in EditStates
    BY DEF EditStates
  <2>2. CarriesAll(to)
    BY DEF CarriesAll, ResolvingPcs
  <2>3. RequestsTyped'
    BY <1>0, <1>1, <2>1, <2>2, RequestMoves, StatesHave DEF BeginEdit
  <2> QED BY <1>0, <1>1, <2>3 DEF BeginEdit, AnnouncementsTyped, announcementVars
<1>2. CASE Edit(r)
  <2> PICK n, e : n = request[r].announcement /\ e = request[r].edit
    OBVIOUS
  <2>1. request[r].pc = "edit" /\ UNCHANGED cut /\ Answered(r)
    BY <1>2 DEF Edit
  <2>2. n \in AnnouncementIds /\ e \in Edits
    BY <1>0, <2>1, StateOfPc DEF RequestsTyped, EditStates
  <2>3. CASE ~Exists(announcement, n) /\ UNCHANGED announcement
    <3>1. RequestsTyped'
      BY <1>0, <2>1, RequestEnds
    <3> QED BY <1>0, <2>1, <2>3, <3>1 DEF AnnouncementsTyped
  <2>4. CASE /\ Exists(announcement, n)
             /\ announcement' = [announcement EXCEPT ![n] =
                  [tag |-> Given(e.tag, @.tag), enabled |-> Given(e.enabled, @.enabled),
                   meant |-> Given(e.enabled, @.meant)]]
    <3> PICK old, row : old = announcement[n] /\ row = [tag |-> Given(e.tag, old.tag),
          enabled |-> Given(e.enabled, old.enabled), meant |-> Given(e.enabled, old.meant)]
      OBVIOUS
    <3>1. old \in AnnouncementRows
      BY <1>0, <2>2, <2>4 DEF AnnouncementsTyped, Exists
    <3>2. row \in AnnouncementRows
      BY <2>2, <3>1 DEF AnnouncementRows, Edits, Given
    <3>3. announcement' = [announcement EXCEPT ![n] = row]
      BY <2>4
    <3>4. announcement' \in [AnnouncementIds -> AnnouncementRows \cup {Absent, Deleted}]
      BY <1>0, <3>2, <3>3 DEF AnnouncementsTyped
    <3>5. RequestsTyped'
      BY <1>0, <2>1, RequestEnds
    <3> QED BY <1>0, <2>1, <3>4, <3>5 DEF AnnouncementsTyped
  <2> QED BY <1>2, <2>3, <2>4 DEF Edit
<1>3. ASSUME NEW n \in AnnouncementIds, Withdraw(r, n) PROVE RequestsTyped' /\ AnnouncementsTyped'
  <2>1. RequestsTyped'
    BY <1>0, <1>3, RequestEnds DEF Withdraw
  <2> QED BY <1>0, <1>3, <2>1 DEF Withdraw, AnnouncementsTyped
<1> QED BY <1>1, <1>2, <1>3

LEMMA TypesOfAnnouncementSteps ==
  ASSUME Typed, NEW r \in Requests, AnnouncementStep(r)
  PROVE  /\ RequestsTyped' /\ AnnouncementsTyped' /\ AccountsTyped'
         /\ UNCHANGED <<tableVars, processVars, served>>
<1>1. RequestsTyped' /\ AnnouncementsTyped'
  BY TypesOfPublishing, TypesOfEditing DEF AnnouncementStep
<1>2. UNCHANGED <<tableVars, processVars, served>>
  BY DEF AnnouncementStep, BeginPublish, Publish, Hide, BeginEdit, Edit, Withdraw
<1>3. AccountsTyped'
  BY <1>2 DEF Typed, AccountsTyped, tableVars, processVars
<1> QED BY <1>1, <1>2, <1>3

LEMMA CutTyped ==
  ASSUME Typed, NEW R \in SUBSET Requests, CutShort(R)
  PROVE  AnnouncementsTyped'
<1>1. \A q \in R : request[q].pc = "hide" => request[q].announcement \in AnnouncementIds
  BY StateOfPc DEF Typed, RequestsTyped, HideStates
<1>2. {request[r].announcement : r \in {q \in R : request[q].pc = "hide"}} \subseteq AnnouncementIds
  BY <1>1
<1> QED BY <1>2 DEF CutShort, Typed, AnnouncementsTyped

LEMMA TypedInit == Init => Typed
<1> SUFFICES ASSUME Init PROVE Typed
  OBVIOUS
<1>1. RequestsTyped
  <2>1. request = [r \in Requests |-> Idle]
    BY DEF Init, AccountsInit
  <2>2. Idle \in States /\ CarriesAll(Idle)
    BY DEF Idle, CarriesAll, States, AuthStates, ResolvingPcs
  <2> QED BY <2>1, <2>2 DEF RequestsTyped
<1>2. AccountsTyped
  <2>0. PICK a \in Accounts, t \in Tokens : \E g \in Groups[a] :
          /\ g.role = "admin"
          /\ staff = [i \in StaffIds |->
               IF i = 1 THEN [account |-> a, role |-> g.role, version |-> 0] ELSE Absent]
          /\ years = {1} \X g.years
          /\ session = [x \in Tokens |->
               IF x = t THEN [staff |-> 1, role |-> g.role] ELSE Absent]
    BY DEF Init, AccountsInit
  <2>1. PICK g \in Groups[a] :
          /\ g.role = "admin"
          /\ staff = [i \in StaffIds |->
               IF i = 1 THEN [account |-> a, role |-> g.role, version |-> 0] ELSE Absent]
          /\ years = {1} \X g.years
          /\ session = [x \in Tokens |->
               IF x = t THEN [staff |-> 1, role |-> g.role] ELSE Absent]
    BY <2>0
  <2>2. required = 0 /\ stamped = {1} /\ served = 0
    BY DEF Init, AccountsInit
  <2>3. [account |-> a, role |-> g.role, version |-> 0] \in StaffRows
    BY <2>1, AccountsAssumption DEF StaffRows, Roles
  <2>4. [staff |-> 1, role |-> g.role] \in SessionRows
    BY <2>1, AccountsAssumption DEF SessionRows, Roles
  <2>5. g.years \subseteq WorkYears
    BY <2>1, GroupsTyped
  <2>6. staff \in [StaffIds -> StaffRows \cup {Absent, Deleted}]
    BY <2>1, <2>3
  <2>7. session \in [Tokens -> SessionRows \cup {Absent, Deleted}]
    BY <2>1, <2>4
  <2>8. years \subseteq StaffIds \X WorkYears
    BY <2>1, <2>5, AccountsAssumption
  <2>9. required \in 0..MaxVersion /\ stamped \subseteq StaffIds /\ served \in 0..MaxRequests
    BY <2>2, AccountsAssumption
  <2> QED BY <2>6, <2>7, <2>8, <2>9 DEF AccountsTyped
<1>3. SchedulesTyped
  <2>1. Min(Dates) \in Dates
    BY LeastExists, WorkSchedulesAssumption
  <2>2. Max(Dates) \in Dates
    <3>1. PICK last \in Dates : \A d \in Dates : last >= d
      BY WorkSchedulesAssumption
    <3> QED BY <3>1 DEF Max
  <2>3. [start |-> Min(Dates), end |-> Max(Dates), enabled |-> TRUE] \in ScheduleRows
    BY <2>1, <2>2 DEF ScheduleRows
  <2> QED BY <2>3 DEF Init, SchedulesInit, SchedulesTyped
<1>4. AnnouncementsTyped
  BY DEF Init, AnnouncementsInit, AnnouncementsTyped
<1> QED BY <1>1, <1>2, <1>3, <1>4 DEF Typed

LEMMA TypedNext == Typed /\ [Next]_vars => Typed'
<1> SUFFICES ASSUME Typed, [Next]_vars PROVE Typed'
  OBVIOUS
<1>0. RequestsTyped /\ AccountsTyped /\ SchedulesTyped /\ AnnouncementsTyped
  BY DEF Typed
<1>1. UNCHANGED scheduleVars => SchedulesTyped'
  BY <1>0 DEF scheduleVars, SchedulesTyped
<1>2. UNCHANGED announcementVars => AnnouncementsTyped'
  BY <1>0 DEF announcementVars, AnnouncementsTyped
<1>3. CASE UNCHANGED vars
  <2>1. RequestsTyped' /\ AccountsTyped'
    BY <1>0, <1>3, RequestsStay DEF vars, accountVars, AccountsTyped
  <2> QED BY <1>1, <1>2, <1>3, <2>1 DEF vars, Typed
<1>4. ASSUME NEW r \in Requests, AccountStep(r) /\ UNCHANGED <<scheduleVars, announcementVars>>
      PROVE  Typed'
  BY <1>1, <1>2, <1>4, TypesOfAccountSteps DEF Typed
<1>5. ASSUME NEW r \in Requests, ScheduleStep(r) /\ UNCHANGED announcementVars PROVE Typed'
  BY <1>2, <1>5, TypesOfScheduleSteps DEF Typed
<1>6. ASSUME NEW r \in Requests, AnnouncementStep(r) /\ UNCHANGED scheduleVars PROVE Typed'
  BY <1>1, <1>6, TypesOfAnnouncementSteps DEF Typed
<1>7. ASSUME NEW r \in Requests, End(r) /\ CutShort({r}) /\ UNCHANGED scheduleVars PROVE Typed'
  <2>1. {r} \in SUBSET Requests
    OBVIOUS
  <2> QED BY <1>1, <1>7, <2>1, TypesOfEnd, CutTyped DEF Typed
<1>8. ASSUME Deploy /\ CutShort(Requests) /\ UNCHANGED scheduleVars PROVE Typed'
  <2>1. Requests \in SUBSET Requests
    OBVIOUS
  <2> QED BY <1>1, <1>8, <2>1, TypesOfDeploy, CutTyped DEF Typed
<1> QED BY <1>3, <1>4, <1>5, <1>6, <1>7, <1>8 DEF Next

LEMMA AlwaysTyped == Spec => []Typed
  BY TypedInit, TypedNext, PTL DEF Spec

\* Every table row, request and history variable stays of its type: in particular a
\* request never goes on with a staff row, slot or schedule that it has not found.
THEOREM TypeCorrect == Spec => []TypeOK
<1>1. Typed => TypeOK
  BY DEF Typed, RequestsTyped, AccountsTyped, SchedulesTyped, AnnouncementsTyped, TypeOK
<1> QED BY <1>1, AlwaysTyped, PTL
-----------------------------------------------------------------------------
(***************************************************************************)
(* Accounts and sessions: the invariant.  A session that could be current  *)
(* belongs to a staff member who logged in, and what a request found when  *)
(* it came in, or on its way, bounds what it may go on with.               *)
(***************************************************************************)
BusyPcs == ResolvingPcs \cup {"load", "csrf", "serve"}

VersionsBounded == \A i \in StaffIds : Exists(staff, i) => VersionAtMost(i)

SessionsEarned ==
  \A t \in Tokens : Exists(session, t) =>
    /\ staff[session[t].staff] # Absent
    /\ Exists(staff, session[t].staff) /\ VersionCurrent(session[t].staff) =>
         session[t].staff \in stamped

RequestEarned(q) ==
  /\ q.pc \in BusyPcs \ {"find", "create"} => staff[q.staff] # Absent
  /\ q.pc \in BusyPcs => q.gone \subseteq Gone
  /\ q.pc \in BusyPcs \ {"find", "create", "load"} => q.staff \notin q.gone
  /\ q.pc = "load" /\ Exists(staff, q.staff) /\ VersionCurrent(q.staff) => q.staff \in stamped
  /\ q.pc \in {"open", "csrf"} \/ (q.pc = "serve" /\ q.via = "session") => q.staff \in stamped

AccountsInv ==
  /\ OneRowPerAccount
  /\ VersionsBounded
  /\ SessionsEarned
  /\ \A r \in Requests : RequestEarned(request[r])

\* What every step of a request does to the staff table: rows do not come back, a
\* new row is of an account without one, and a version is raised by a login.
StaffGrows ==
  /\ required' = required /\ stamped \subseteq stamped'
  /\ \A i \in StaffIds :
       /\ staff[i] = Deleted => staff'[i] = Deleted
       /\ staff[i] # Absent => staff'[i] # Absent
       /\ Exists(staff', i) =>
            \/ staff[i] = Absent /\ staff'[i].version = 0 /\ AccountFree(staff'[i].account)
            \/ /\ Exists(staff, i) /\ staff'[i].account = staff[i].account
               /\ \/ staff'[i].version = staff[i].version
                  \/ staff'[i].version = required /\ i \in stamped'
  /\ \A i, j \in StaffIds :
       staff[i] = Absent /\ staff[j] = Absent /\ Exists(staff', i) /\ Exists(staff', j) => i = j

LEMMA UnchangedGrows ==
  ASSUME UNCHANGED <<staff, required, stamped>>
  PROVE  StaffGrows
  BY DEF StaffGrows, Exists

LEMMA OneRowKept ==
  ASSUME AccountsTyped, OneRowPerAccount, StaffGrows
  PROVE  OneRowPerAccount'
<1> SUFFICES ASSUME NEW i \in StaffIds, NEW j \in StaffIds, Exists(staff', i), Exists(staff', j),
                    staff'[i].account = staff'[j].account
             PROVE  i = j
  BY DEF OneRowPerAccount, Exists
<1>1. ASSUME NEW x \in StaffIds, Exists(staff', x), NEW y \in StaffIds, Exists(staff', y),
             staff'[x].account = staff'[y].account, staff[x] = Absent, Exists(staff, y)
      PROVE  FALSE
  <2>1. AccountFree(staff'[x].account) /\ staff'[y].account = staff[y].account
    BY <1>1 DEF StaffGrows, Exists
  <2>2. y \in StaffOf(staff'[x].account)
    BY <1>1, <2>1 DEF StaffOf
  <2> QED BY <2>1, <2>2 DEF AccountFree
<1>2. CASE staff[i] = Absent /\ staff[j] = Absent
  BY <1>2 DEF StaffGrows
<1>3. CASE staff[i] = Absent /\ Exists(staff, j)
  BY <1>1, <1>3
<1>4. CASE Exists(staff, i) /\ staff[j] = Absent
  BY <1>1, <1>4
<1>5. CASE Exists(staff, i) /\ Exists(staff, j)
  BY <1>5, AccountsAssumption DEF StaffGrows, OneRowPerAccount, Exists
<1> QED BY <1>2, <1>3, <1>4, <1>5 DEF StaffGrows

LEMMA VersionsKept ==
  ASSUME AccountsTyped, VersionsBounded, StaffGrows
  PROVE  VersionsBounded'
<1> SUFFICES ASSUME NEW i \in StaffIds, Exists(staff', i) PROVE staff'[i].version <= required'
  BY DEF VersionsBounded, VersionAtMost, Exists
<1>1. required' = required /\ required \in Nat
  BY AccountsAssumption DEF StaffGrows, AccountsTyped
<1>2. \/ staff'[i].version = 0
      \/ Exists(staff, i) /\ staff'[i].version = staff[i].version
      \/ staff'[i].version = required
  BY DEF StaffGrows
<1> QED BY <1>1, <1>2 DEF VersionsBounded, VersionAtMost

\* A staff member who stays known, and whose sessions were earned, stays so.
LEMMA EarnedKept ==
  ASSUME StaffGrows, NEW i \in StaffIds, staff[i] # Absent,
         Exists(staff, i) /\ VersionCurrent(i) => i \in stamped,
         Exists(staff', i), staff'[i].version = required'
  PROVE  i \in stamped'
  BY DEF StaffGrows, VersionCurrent

LEMMA SessionsKept ==
  ASSUME AccountsTyped, SessionsEarned, StaffGrows,
         \A t \in Tokens : session'[t] = session[t] \/ session'[t] = Deleted
  PROVE  SessionsEarned'
<1> SUFFICES ASSUME NEW t \in Tokens, Exists(session', t)
             PROVE  /\ staff'[session'[t].staff] # Absent
                    /\ Exists(staff', session'[t].staff)
                         /\ staff'[session'[t].staff].version = required' =>
                       session'[t].staff \in stamped'
  BY DEF SessionsEarned, Exists, VersionCurrent
<1> PICK i : i = session[t].staff
  OBVIOUS
<1>1. session'[t] = session[t] /\ Exists(session, t)
  BY DEF Exists
<1>2. i \in StaffIds
  BY <1>1 DEF AccountsTyped, Exists, SessionRows
<1>3. staff[i] # Absent /\ (Exists(staff, i) /\ VersionCurrent(i) => i \in stamped)
  BY <1>1 DEF SessionsEarned
<1>4. staff'[i] # Absent
  BY <1>2, <1>3 DEF StaffGrows
<1>5. Exists(staff', i) /\ staff'[i].version = required' => i \in stamped'
  BY <1>2, <1>3, EarnedKept
<1> QED BY <1>1, <1>4, <1>5

LEMMA RequestKept ==
  ASSUME AccountsTyped, StaffGrows, NEW q \in States, CarriesAll(q), RequestEarned(q)
  PROVE  RequestEarned(q)'
<1>1. q.pc \in BusyPcs \ {"find", "create"} => q.staff \in StaffIds
  BY StateOfPc DEF BusyPcs, ResolvingPcs, CarriesAll, LoadingStates, ServingStates
<1>2. Gone \subseteq {i \in StaffIds : staff'[i] = Deleted} /\ stamped \subseteq stamped'
  BY DEF Gone, StaffGrows
<1>3. q.pc \in BusyPcs \ {"find", "create"} => staff'[q.staff] # Absent
  BY <1>1 DEF RequestEarned, StaffGrows
<1>4. q.pc \in BusyPcs => q.gone \subseteq {i \in StaffIds : staff'[i] = Deleted}
  BY <1>2 DEF RequestEarned
<1>5. ASSUME q.pc = "load", Exists(staff', q.staff), staff'[q.staff].version = required'
      PROVE  q.staff \in stamped'
  <2>1. q.pc \in BusyPcs \ {"find", "create"}
    BY <1>5 DEF BusyPcs
  <2>2. q.staff \in StaffIds /\ staff[q.staff] # Absent
    BY <1>1, <2>1 DEF RequestEarned
  <2>3. Exists(staff, q.staff) /\ VersionCurrent(q.staff) => q.staff \in stamped
    BY <1>5 DEF RequestEarned
  <2> QED BY <1>5, <2>2, <2>3, EarnedKept
<1> QED BY <1>2, <1>3, <1>4, <1>5 DEF RequestEarned, Gone, Exists, VersionCurrent

\* Request r goes on to a state that it has earned, the staff table grows: the
\* invariant holds on.
LEMMA StepKeeps ==
  ASSUME Typed, AccountsInv, StaffGrows, SessionsEarned', NEW r \in Requests,
         UNCHANGED request \/ (\E to : RequestGoes(r, to) /\ RequestEarned(to)')
  PROVE  AccountsInv'
<1>0. RequestsTyped /\ AccountsTyped
  BY DEF Typed
<1>1. OneRowPerAccount' /\ VersionsBounded'
  BY <1>0, OneRowKept, VersionsKept DEF AccountsInv
<1>2. \A q \in Requests : request'[q] = request[q] \/ RequestEarned(request[q])'
  <2>1. CASE UNCHANGED request
    BY <2>1
  <2>2. CASE \E to : RequestGoes(r, to) /\ RequestEarned(to)'
    <3>1. PICK to : RequestGoes(r, to) /\ RequestEarned(to)'
      BY <2>2
    <3>2. request'[r] = to /\ \A q \in Requests \ {r} : request'[q] = request[q]
      BY <1>0, <3>1, RequestMoves
    <3>3. RequestEarned(request[r])'
      BY <3>1, <3>2 DEF RequestEarned, Gone, Exists, VersionCurrent
    <3> QED BY <3>2, <3>3
  <2> QED BY <2>1, <2>2
<1>3. ASSUME NEW q \in Requests, request'[q] = request[q] PROVE RequestEarned(request[q])'
  <2> PICK now : now = request[q]
    OBVIOUS
  <2>1. now \in States /\ CarriesAll(now) /\ RequestEarned(now)
    BY <1>0 DEF RequestsTyped, AccountsInv
  <2>2. RequestEarned(now)'
    BY <1>0, <2>1, RequestKept
  <2>3. request'[q] = now
    BY <1>3
  <2> QED BY <2>2, <2>3 DEF RequestEarned, Gone, Exists, VersionCurrent
<1> QED BY <1>1, <1>2, <1>3 DEF AccountsInv

LEMMA QuietEarned == ASSUME NEW to, to.pc \notin BusyPcs PROVE RequestEarned(to)'
  BY DEF RequestEarned, BusyPcs, ResolvingPcs

LEMMA IdleEarned == RequestEarned(Idle)'
<1>1. Idle.pc \notin BusyPcs
  BY DEF Idle, BusyPcs, ResolvingPcs
<1> QED BY <1>1, QuietEarned

\* A step of r that leaves staff and logins alone and takes no session but removes some.
LEMMA PlainStep ==
  ASSUME Typed, AccountsInv, UNCHANGED <<staff, required, stamped>>, NEW r \in Requests,
         \A t \in Tokens : session'[t] = session[t] \/ session'[t] = Deleted,
         \/ UNCHANGED request \/ Answered(r)
         \/ \E to : RequestGoes(r, to) /\ RequestEarned(to)'
  PROVE  AccountsInv'
<1>1. StaffGrows
  BY UnchangedGrows
<1>2. SessionsEarned'
  BY <1>1, SessionsKept DEF Typed, AccountsInv
<1>3. Answered(r) => \E to : RequestGoes(r, to) /\ RequestEarned(to)'
  BY IdleEarned DEF Answered
<1> QED BY <1>1, <1>2, <1>3, StepKeeps

LEMMA ArrivalsKeep ==
  ASSUME Typed, AccountsInv, NEW r \in Requests,
         \/ \E a \in Accounts : LoginArrives(r, a)
         \/ \E a \in Accounts : BearerArrives(r, a)
         \/ \E a \in Accounts : CreateStaff(r, a)
  PROVE  AccountsInv'
<1>1. ASSUME UNCHANGED staff, NEW via, NEW a, NEW role, NEW ys
      PROVE  RequestEarned(Resolving("find", via, a, role, ys))'
  <2> PICK to, gone : gone = Gone /\ to = [pc |-> "find", via |-> via, account |-> a, role |-> role,
                                          years |-> ys, staff |-> 0, gone |-> gone]
    OBVIOUS
  <2>1. gone = {i \in StaffIds : staff'[i] = Deleted}
    BY <1>1 DEF Gone
  <2>2. RequestEarned(to)'
    BY <2>1 DEF RequestEarned, Gone, BusyPcs, ResolvingPcs
  <2>3. Resolving("find", via, a, role, ys)' = to
    BY <2>1 DEF Resolving, Gone
  <2> QED BY <2>2, <2>3 DEF RequestEarned, Resolving, Gone, Exists, VersionCurrent
<1>2. ASSUME NEW via, NEW a, NEW role, NEW ys, UNCHANGED staff,
             RequestGoes(r, Resolving("find", via, a, role, ys))
      PROVE  \E to : RequestGoes(r, to) /\ RequestEarned(to)'
  <2> PICK to : to = Resolving("find", via, a, role, ys)
    OBVIOUS
  <2>1. Resolving("find", via, a, role, ys)' = to
    BY <1>2 DEF Resolving, Gone
  <2>2. RequestEarned(to)'
    BY <1>1, <1>2, <2>1 DEF RequestEarned, Gone, Exists, VersionCurrent
  <2> QED BY <1>2, <2>2
<1>3. ASSUME NEW a \in Accounts, LoginArrives(r, a) PROVE AccountsInv'
  <2>1. /\ UNCHANGED <<staff, required, stamped>>
        /\ \A t \in Tokens : session'[t] = session[t] \/ session'[t] = Deleted
    BY <1>3 DEF LoginArrives, Purged, processVars
  <2>2. PICK g : \/ RequestGoes(r, Resolving("find", "cas", a, g.role, g.years))
                 \/ UNCHANGED request
    BY <1>3 DEF LoginArrives
  <2> QED BY <1>2, <2>1, <2>2, PlainStep
<1>4. ASSUME NEW a \in Accounts, BearerArrives(r, a) PROVE AccountsInv'
  <2>1. UNCHANGED <<staff, session, required, stamped>>
    BY <1>4 DEF BearerArrives, tableVars, processVars
  <2>2. PICK g : RequestGoes(r, Resolving("find", "bearer", a, g.role, g.years))
    BY <1>4 DEF BearerArrives
  <2> QED BY <1>2, <2>1, <2>2, PlainStep
<1>5. ASSUME NEW a \in Accounts, CreateStaff(r, a) PROVE AccountsInv'
  <2>1. UNCHANGED <<staff, session, required, stamped>>
    BY <1>5 DEF CreateStaff, tableVars, processVars
  <2>2. RequestGoes(r, Resolving("find", "admin", a, NoRole, {}))
    BY <1>5 DEF CreateStaff
  <2> QED BY <1>2, <2>1, <2>2, PlainStep
<1> QED BY <1>3, <1>4, <1>5

\* A request that resolves an account has found, or made, the staff row i.
LEMMA ResolvedEarned ==
  ASSUME Typed, AccountsInv, StaffGrows, NEW r \in Requests, request[r].pc \in {"find", "create"},
         NEW i \in StaffIds, staff[i] # Deleted, staff'[i] # Absent, Resolved(r, i)
  PROVE  \E to : RequestGoes(r, to) /\ RequestEarned(to)'
<1> PICK q : q = request[r]
  OBVIOUS
<1> PICK to : to = [q EXCEPT !.pc = "role", !.staff = i]
  OBVIOUS
<1>1. q \in ResolvingStates /\ q.pc \in BusyPcs /\ RequestEarned(q)
  BY StateOfPc DEF Typed, RequestsTyped, ResolvingPcs, AccountsInv, BusyPcs
<1>2. to.pc = "role" /\ to.staff = i /\ to.gone = q.gone
  BY <1>1 DEF ResolvingStates
<1>3. q.gone \subseteq Gone
  BY <1>1 DEF RequestEarned
<1>4. Gone \subseteq {x \in StaffIds : staff'[x] = Deleted} /\ i \notin Gone
  BY DEF Gone, StaffGrows
<1>5. RequestEarned(to)'
  BY <1>2, <1>3, <1>4 DEF RequestEarned, Gone
<1>6. Answered(r) \/ RequestGoes(r, to)
  BY DEF Resolved
<1> QED BY <1>5, <1>6, IdleEarned DEF Answered

LEMMA FindKeeps ==
  ASSUME Typed, AccountsInv, NEW r \in Requests, Find(r)
  PROVE  AccountsInv'
<1>0. request[r].pc = "find" /\ UNCHANGED <<staff, session, required, stamped>>
  BY DEF Find, tableVars, processVars
<1>1. CASE \E i \in StaffOf(request[r].account) : Resolved(r, i)
  <2>1. PICK i \in StaffIds : Exists(staff, i) /\ Resolved(r, i)
    BY <1>1 DEF StaffOf
  <2>2. \E to : RequestGoes(r, to) /\ RequestEarned(to)'
    BY <1>0, <2>1, UnchangedGrows, ResolvedEarned DEF Exists
  <2> QED BY <1>0, <2>2, PlainStep
<1>2. CASE RequestGoes(r, [request[r] EXCEPT !.pc = "create"])
  <2> PICK q : q = request[r]
    OBVIOUS
  <2> PICK to : to = [q EXCEPT !.pc = "create"]
    OBVIOUS
  <2>1. q \in ResolvingStates /\ q.pc \in BusyPcs /\ RequestEarned(q)
    BY <1>0, StateOfPc DEF Typed, RequestsTyped, ResolvingPcs, AccountsInv, BusyPcs
  <2>2. to.pc = "create" /\ to.gone = q.gone
    BY <2>1 DEF ResolvingStates
  <2>3. RequestEarned(to)'
    BY <1>0, <2>1, <2>2 DEF RequestEarned, Gone
  <2> QED BY <1>0, <1>2, <2>3, PlainStep
<1> QED BY <1>1, <1>2 DEF Find

LEMMA CreateKeeps ==
  ASSUME Typed, AccountsInv, NEW r \in Requests, Create(r)
  PROVE  AccountsInv'
<1>0. request[r].pc = "create" /\ UNCHANGED <<session, required, stamped>>
  BY DEF Create, processVars
<1>1. CASE /\ AccountFree(request[r].account) /\ Unused(staff) # {}
           /\ staff' = [staff EXCEPT ![NextId(staff)] =
                [account |-> request[r].account, role |-> NoRole, version |-> 0]]
           /\ Resolved(r, NextId(staff))
  <2> PICK i, row : i = NextId(staff)
                    /\ row = [account |-> request[r].account, role |-> NoRole, version |-> 0]
    OBVIOUS
  <2>1. i \in StaffIds /\ staff[i] = Absent
    BY <1>1, NextIdUnused, AccountsAssumption DEF Typed, AccountsTyped
  <2>2. request[r] \in ResolvingStates
    BY <1>0, StateOfPc DEF Typed, RequestsTyped, ResolvingPcs
  <2>3. row \in StaffRows
    BY <2>2, AccountsAssumption DEF ResolvingStates, StaffRows
  <2>4. row \notin {Absent, Deleted} /\ Absent # Deleted
    BY <2>3, AccountsAssumption
  <2>5. staff'[i] = row /\ \A x \in StaffIds : x # i => staff'[x] = staff[x]
    BY <1>1, <2>1 DEF Typed, AccountsTyped
  <2>6. row.version = 0 /\ row.account = request[r].account
    OBVIOUS
  <2>7. StaffGrows
    BY <1>0, <1>1, <2>1, <2>4, <2>5, <2>6 DEF StaffGrows, Exists
  <2>8. SessionsEarned'
    BY <1>0, <2>7, SessionsKept DEF Typed, AccountsInv
  <2>9. \E to : RequestGoes(r, to) /\ RequestEarned(to)'
    BY <1>0, <1>1, <2>1, <2>4, <2>5, <2>7, ResolvedEarned
  <2> QED BY <2>7, <2>8, <2>9, StepKeeps
<1>2. CASE Answered(r) /\ UNCHANGED staff
  BY <1>0, <1>2, PlainStep
<1> QED BY <1>1, <1>2 DEF Create

\* A login goes on from one of its statements to the next.
LEMMA LoginEarned ==
  ASSUME Typed, AccountsInv, StaffGrows, NEW r \in Requests,
         request[r].pc \in {"role", "years", "version"}, NEW pc \in {"years", "version", "open"},
         pc = "open" => request[r].staff \in stamped', Next_(r, pc)
  PROVE  \E to : RequestGoes(r, to) /\ RequestEarned(to)'
<1> PICK q : q = request[r]
  OBVIOUS
<1> PICK to : to = [q EXCEPT !.pc = pc]
  OBVIOUS
<1>1. q \in ResolvingStates /\ q \in States /\ CarriesAll(q) /\ RequestEarned(q)
  BY StateOfPc DEF Typed, RequestsTyped, ResolvingPcs, AccountsInv
<1>2. RequestEarned(q)'
  BY <1>1, RequestKept DEF Typed
<1>3. to.pc = pc /\ to.staff = q.staff /\ to.gone = q.gone
  BY <1>1 DEF ResolvingStates
<1>4. RequestEarned(to)'
  BY <1>2, <1>3 DEF RequestEarned, BusyPcs, ResolvingPcs
<1> QED BY <1>4 DEF Next_

LEMMA SetRoleKeeps ==
  ASSUME Typed, AccountsInv, NEW r \in Requests, SetRole(r)
  PROVE  AccountsInv'
<1>0. request[r].pc = "role" /\ Next_(r, "years") /\ UNCHANGED <<session, required, stamped>>
  BY DEF SetRole, processVars
<1>1. StaffGrows
  <2>1. CASE UNCHANGED staff
    BY <1>0, <2>1, UnchangedGrows
  <2>2. CASE /\ Exists(staff, request[r].staff)
             /\ staff' = [staff EXCEPT ![request[r].staff].role = request[r].role]
    <3>1. request[r].staff \in StaffIds
      BY <1>0 DEF Typed, RequestsTyped, CarriesAll
    <3> PICK i \in StaffIds : i = request[r].staff
      BY <3>1
    <3> PICK role : role = request[r].role
      OBVIOUS
    <3> PICK row : row = [staff[i] EXCEPT !.role = role]
      OBVIOUS
    <3>2. staff[i] \in StaffRows
      BY <2>2 DEF Exists, Typed, AccountsTyped
    <3>3. row.account = staff[i].account /\ row.version = staff[i].version
      BY <3>2 DEF StaffRows
    <3>4. \A x \in StaffIds : staff'[x] = IF x = i THEN row ELSE staff[x]
      BY <2>2 DEF Typed, AccountsTyped
    <3>5. row \notin {Absent, Deleted}
      <4>1. row = [account |-> staff[i].account, role |-> role, version |-> staff[i].version]
        BY <3>2 DEF StaffRows
      <4>2. role \in Roles
        BY <1>0 DEF Typed, RequestsTyped, CarriesAll, ResolvingPcs
      <4>3. row \in StaffRows
        BY <3>2, <4>1, <4>2 DEF StaffRows
      <4> QED BY <4>3, AccountsAssumption
    <3> QED BY <1>0, <2>2, <3>3, <3>4, <3>5 DEF StaffGrows, Exists
  <2> QED BY <2>1, <2>2 DEF SetRole
<1>2. SessionsEarned'
  BY <1>0, <1>1, SessionsKept DEF Typed, AccountsInv
<1>3. \E to : RequestGoes(r, to) /\ RequestEarned(to)'
  BY <1>0, <1>1, LoginEarned
<1> QED BY <1>1, <1>2, <1>3, StepKeeps

LEMMA AddYearsKeeps ==
  ASSUME Typed, AccountsInv, NEW r \in Requests, AddYears(r)
  PROVE  AccountsInv'
<1>0. request[r].pc = "years" /\ Next_(r, "version") /\ UNCHANGED <<staff, session, required, stamped>>
  BY DEF AddYears, processVars
<1>1. \E to : RequestGoes(r, to) /\ RequestEarned(to)'
  BY <1>0, UnchangedGrows, LoginEarned
<1> QED BY <1>0, <1>1, PlainStep

LEMMA StampVersionKeeps ==
  ASSUME Typed, AccountsInv, NEW r \in Requests, StampVersion(r)
  PROVE  AccountsInv'
<1> PICK q, i : q = request[r] /\ i = q.staff
  OBVIOUS
<1>0. q.pc = "version" /\ UNCHANGED <<session, required>>
  BY DEF StampVersion
<1>1. i \in StaffIds /\ q \in ResolvingStates /\ RequestEarned(q) /\ q \in States /\ CarriesAll(q)
  BY <1>0, StateOfPc DEF Typed, RequestsTyped, CarriesAll, ResolvingPcs, AccountsInv
<1>2. ASSUME StaffGrows PROVE RequestEarned(Serving("bearer", i, q.role, q.gone))'
  <2>1. RequestEarned(q)'
    BY <1>1, <1>2, RequestKept DEF Typed
  <2> PICK to : to = [pc |-> "serve", via |-> "bearer", staff |-> i, role |-> q.role, gone |-> q.gone]
    OBVIOUS
  <2>2. RequestEarned(to)'
    BY <1>0, <2>1 DEF RequestEarned, BusyPcs, ResolvingPcs
  <2> QED BY <2>2 DEF Serving
<1>3. CASE /\ Exists(staff, i)
           /\ staff' = [staff EXCEPT ![i].version = required]
           /\ stamped' = stamped \cup {i}
           /\ Next_(r, "open") \/ RequestGoes(r, Serving("bearer", i, q.role, q.gone))
  <2> PICK row : row = [staff[i] EXCEPT !.version = required]
    OBVIOUS
  <2>1. staff[i] \in StaffRows
    BY <1>1, <1>3 DEF Exists, Typed, AccountsTyped
  <2>2. row.account = staff[i].account /\ row.version = required /\ row \in StaffRows
    BY <2>1 DEF StaffRows, Typed, AccountsTyped
  <2>3. row \notin {Absent, Deleted}
    BY <2>2, AccountsAssumption
  <2>4. \A x \in StaffIds : staff'[x] = IF x = i THEN row ELSE staff[x]
    BY <1>3 DEF Typed, AccountsTyped
  <2>5. StaffGrows
    BY <1>0, <1>3, <2>2, <2>3, <2>4 DEF StaffGrows, Exists
  <2>6. SessionsEarned'
    BY <1>0, <2>5, SessionsKept DEF Typed, AccountsInv
  <2>7. \E to : RequestGoes(r, to) /\ RequestEarned(to)'
    <3>1. CASE Next_(r, "open")
      BY <1>0, <1>3, <2>5, <3>1, LoginEarned
    <3>2. CASE RequestGoes(r, Serving("bearer", i, q.role, q.gone))
      BY <1>2, <2>5, <3>2
    <3> QED BY <1>3, <3>1, <3>2
  <2> QED BY <2>5, <2>6, <2>7, StepKeeps
<1>4. CASE RequestGoes(r, Serving("bearer", i, q.role, q.gone)) /\ UNCHANGED <<staff, stamped>>
  <2>1. RequestEarned(Serving("bearer", i, q.role, q.gone))'
    BY <1>0, <1>2, <1>4, UnchangedGrows
  <2> QED BY <1>0, <1>4, <2>1, PlainStep
<1>5. CASE Answered(r) /\ UNCHANGED <<staff, stamped>>
  BY <1>0, <1>5, PlainStep
<1> QED BY <1>3, <1>4, <1>5 DEF StampVersion

LEMMA OpenSessionKeeps ==
  ASSUME Typed, AccountsInv, NEW r \in Requests, OpenSession(r)
  PROVE  AccountsInv'
<1> PICK q, i : q = request[r] /\ i = q.staff
  OBVIOUS
<1>0. q.pc = "open" /\ Answered(r) /\ UNCHANGED <<staff, required, stamped>>
  BY DEF OpenSession, processVars
<1>1. PICK t \in Unused(session) : session' = [session EXCEPT ![t] = [staff |-> i, role |-> q.role]]
  BY DEF OpenSession
<1>2. i \in stamped /\ staff[i] # Absent
  BY <1>0 DEF AccountsInv, RequestEarned, BusyPcs, ResolvingPcs
<1> PICK row : row = [staff |-> i, role |-> q.role]
  OBVIOUS
<1>3. \A x \in Tokens : session'[x] = IF x = t THEN row ELSE session[x]
  BY <1>1 DEF Typed, AccountsTyped
<1>4. SessionsEarned'
  <2> SUFFICES ASSUME NEW x \in Tokens, Exists(session', x)
               PROVE  /\ staff[session'[x].staff] # Absent
                      /\ Exists(staff, session'[x].staff)
                           /\ staff[session'[x].staff].version = required =>
                         session'[x].staff \in stamped
    BY <1>0 DEF SessionsEarned, Exists, VersionCurrent
  <2>1. CASE x = t
    BY <1>2, <1>3, <2>1
  <2>2. CASE x # t
    BY <1>3, <2>2 DEF AccountsInv, SessionsEarned, Exists, VersionCurrent
  <2> QED BY <2>1, <2>2
<1>5. StaffGrows
  BY <1>0, UnchangedGrows
<1> QED BY <1>0, <1>4, <1>5, IdleEarned, StepKeeps DEF Answered

LEMMA SessionArrivesKeeps ==
  ASSUME Typed, AccountsInv, NEW r \in Requests, NEW t \in Tokens,
         NEW via \in {"session", "optional"}, SessionArrives(r, t, via)
  PROVE  AccountsInv'
<1> PICK to, i, gone : gone = Gone /\ i = session[t].staff /\
      to = [pc |-> "load", via |-> via, token |-> t, staff |-> i, role |-> session[t].role, gone |-> gone]
  OBVIOUS
<1>1. Exists(session, t) /\ RequestGoes(r, to) /\ UNCHANGED <<staff, session, required, stamped>>
  BY DEF SessionArrives, Usable, tableVars, processVars
<1>2. staff[i] # Absent /\ (Exists(staff, i) /\ VersionCurrent(i) => i \in stamped)
  BY <1>1 DEF AccountsInv, SessionsEarned
<1>3. RequestEarned(to)'
  BY <1>1, <1>2 DEF RequestEarned, BusyPcs, ResolvingPcs, Gone, Exists, VersionCurrent
<1> QED BY <1>1, <1>3, PlainStep

\* A session that a request takes out of the table is gone, the others stay.
LEMMA WithoutOne ==
  ASSUME Typed, NEW t, session' = session \/ session' = Without(t)
  PROVE  \A x \in Tokens : session'[x] = session[x] \/ session'[x] = Deleted
  BY DEF Without, Typed, AccountsTyped

LEMMA LoadKeeps ==
  ASSUME Typed, AccountsInv, NEW r \in Requests, LoadStaff(r) \/ LoadForReader(r)
  PROVE  AccountsInv'
<1> PICK q : q = request[r]
  OBVIOUS
<1>0. q.pc = "load" /\ UNCHANGED <<staff, required, stamped>>
  BY DEF LoadStaff, LoadForReader, processVars
<1>1. CASE Answered(r) /\ (session' = session \/ session' = Without(request[r].token))
  BY <1>0, <1>1, WithoutOne, PlainStep
<1>2. CASE Current(r) /\ Next_(r, "csrf") /\ UNCHANGED session
  <2> PICK to : to = [q EXCEPT !.pc = "csrf"]
    OBVIOUS
  <2>1. q \in LoadingStates /\ RequestEarned(q)
    BY <1>0, StateOfPc DEF Typed, RequestsTyped, AccountsInv
  <2>2. to.pc = "csrf" /\ to.staff = q.staff /\ to.gone = q.gone
    BY <2>1 DEF LoadingStates
  <2>3. Exists(staff, q.staff) /\ VersionCurrent(q.staff)
    BY <1>2 DEF Current
  <2>4. q.staff \in stamped /\ staff[q.staff] # Absent /\ q.gone \subseteq Gone
    BY <1>0, <2>1, <2>3 DEF RequestEarned, BusyPcs, ResolvingPcs
  <2>5. q.staff \notin q.gone
    BY <2>3, <2>4 DEF Gone, Exists
  <2>6. RequestEarned(to)'
    BY <1>0, <2>2, <2>4, <2>5 DEF RequestEarned, BusyPcs, ResolvingPcs, Gone
  <2> QED BY <1>0, <1>2, <2>6, PlainStep DEF Next_
<1> QED BY <1>1, <1>2 DEF LoadStaff, LoadForReader

LEMMA CheckCSRFKeeps ==
  ASSUME Typed, AccountsInv, NEW r \in Requests, CheckCSRF(r)
  PROVE  AccountsInv'
<1> PICK q : q = request[r]
  OBVIOUS
<1>0. q.pc = "csrf" /\ UNCHANGED <<staff, session, required, stamped>>
  BY DEF CheckCSRF, tableVars, processVars
<1>1. CASE Answered(r)
  BY <1>0, <1>1, PlainStep
<1>2. CASE RequestGoes(r, Serving("session", q.staff, q.role, q.gone))
  <2> PICK to : to = [pc |-> "serve", via |-> "session", staff |-> q.staff, role |-> q.role,
                      gone |-> q.gone]
    OBVIOUS
  <2>1. RequestEarned(q)
    BY DEF AccountsInv
  <2>2. RequestEarned(to)'
    BY <1>0, <2>1 DEF RequestEarned, BusyPcs, ResolvingPcs, Gone
  <2> QED BY <1>0, <1>2, <2>2, PlainStep DEF Serving
<1> QED BY <1>1, <1>2 DEF CheckCSRF

LEMMA LogoutKeeps ==
  ASSUME Typed, AccountsInv, NEW r \in Requests, NEW t \in Tokens, Logout(r, t)
  PROVE  AccountsInv'
<1>1. session' = Without(t) /\ UNCHANGED <<staff, required, stamped, request>>
  BY DEF Logout, processVars
<1> QED BY <1>1, WithoutOne, PlainStep

LEMMA DeleteStaffKeeps ==
  ASSUME Typed, AccountsInv, NEW r \in Requests, NEW i \in StaffIds, DeleteStaff(r, i)
  PROVE  AccountsInv'
<1>0. /\ Exists(staff, i) /\ staff' = [staff EXCEPT ![i] = Deleted]
      /\ Answered(r) /\ UNCHANGED <<session, required, stamped>>
  BY DEF DeleteStaff, processVars
<1>1. \A x \in StaffIds : staff'[x] = IF x = i THEN Deleted ELSE staff[x]
  BY <1>0 DEF Typed, AccountsTyped
<1>2. StaffGrows
  BY <1>0, <1>1, AccountsAssumption DEF StaffGrows, Exists
<1>3. SessionsEarned'
  BY <1>0, <1>2, SessionsKept DEF Typed, AccountsInv
<1> QED BY <1>0, <1>2, <1>3, IdleEarned, StepKeeps DEF Answered

LEMMA AccountStepsKeep ==
  ASSUME Typed, AccountsInv, NEW r \in Requests, AccountStep(r)
  PROVE  AccountsInv'
<1>1. "session" \in {"session", "optional"} /\ "optional" \in {"session", "optional"}
  OBVIOUS
<1> QED BY <1>1, ArrivalsKeep, FindKeeps, CreateKeeps, SetRoleKeeps, AddYearsKeeps, StampVersionKeeps,
       OpenSessionKeeps, SessionArrivesKeeps, LoadKeeps, CheckCSRFKeeps, LogoutKeeps,
       DeleteStaffKeeps DEF AccountStep

\* The requests end, and the required version may rise above every stored one.
LEMMA DeployKeeps ==
  ASSUME Typed, AccountsInv, Deploy
  PROVE  AccountsInv'
<1>0. request' = [r \in Requests |-> Idle] /\ UNCHANGED <<staff, session>>
  BY DEF Deploy, tableVars
<1>1. PICK v \in {required, required + 1} :
        required' = v /\ stamped' = IF v = required THEN stamped ELSE {}
  BY DEF Deploy
<1>2. required \in Nat /\ \A i \in StaffIds : Exists(staff, i) => staff[i].version \in Nat
  BY AccountsAssumption DEF Typed, AccountsTyped, Exists, StaffRows
<1>3. OneRowPerAccount'
  BY <1>0 DEF AccountsInv, OneRowPerAccount, Exists
<1>4. VersionsBounded'
  BY <1>0, <1>1, <1>2 DEF AccountsInv, VersionsBounded, VersionAtMost, Exists
<1>5. SessionsEarned'
  <2> SUFFICES ASSUME NEW t \in Tokens, Exists(session, t)
               PROVE  /\ staff[session[t].staff] # Absent
                      /\ Exists(staff, session[t].staff)
                           /\ staff[session[t].staff].version = required' =>
                         session[t].staff \in stamped'
    BY <1>0 DEF SessionsEarned, Exists, VersionCurrent
  <2> PICK i : i = session[t].staff
    OBVIOUS
  <2>1. i \in StaffIds
    BY DEF Typed, AccountsTyped, Exists, SessionRows
  <2>2. staff[i] # Absent /\ (Exists(staff, i) /\ staff[i].version = required => i \in stamped)
    BY DEF AccountsInv, SessionsEarned, VersionCurrent
  <2>3. Exists(staff, i) => staff[i].version <= required
    BY <2>1 DEF AccountsInv, VersionsBounded, VersionAtMost
  <2> QED BY <1>1, <1>2, <2>1, <2>2, <2>3
<1>6. \A r \in Requests : RequestEarned(request[r])'
  <2>1. \A r \in Requests : request'[r] = Idle
    BY <1>0
  <2>2. RequestEarned(Idle)'
    BY IdleEarned
  <2> QED BY <2>1, <2>2 DEF RequestEarned, Gone, Exists, VersionCurrent
<1> QED BY <1>3, <1>4, <1>5, <1>6 DEF AccountsInv

\* A step on schedules or announcements ends the request or leaves it to the services.
LEMMA ServicesAreQuiet ==
  ASSUME Typed, NEW r \in Requests, ScheduleStep(r) \/ AnnouncementStep(r)
  PROVE  \E to : RequestGoes(r, to) /\ to.pc \notin BusyPcs
<1> PICK q : q = request[r]
  OBVIOUS
<1>0. q \in States
  BY DEF Typed, RequestsTyped
<1>1. Idle.pc \notin BusyPcs /\ (Answered(r) => RequestGoes(r, Idle))
  BY DEF Idle, BusyPcs, ResolvingPcs, Answered
<1>3. CASE CreateSchedule(r) \/ Update(r) \/ (\E s \in ScheduleIds : DeleteSchedule(r, s))
             \/ (\E place \in Places : UpdateWeekday(r, place)) \/ Insert(r) \/ Remove(r)
  BY <1>1, <1>3 DEF CreateSchedule, Update, DeleteSchedule, UpdateWeekday, Insert, Remove
<1>4. ASSUME NEW s \in ScheduleIds, BeginUpdate(r, s) \/ BeginWeekday(r, s)
      PROVE  \E to : RequestGoes(r, to) /\ to.pc \notin BusyPcs
  BY <1>4 DEF BeginUpdate, BeginWeekday, BusyPcs, ResolvingPcs
<1>5. ASSUME NEW s, NEW st, NEW place, BeginAdd(r, s, st, place)
      PROVE  \E to : RequestGoes(r, to) /\ to.pc \notin BusyPcs
  BY <1>5 DEF BeginAdd, BusyPcs, ResolvingPcs
<1>6. ASSUME NEW i, NEW st, BeginRemove(r, i, st)
      PROVE  \E to : RequestGoes(r, to) /\ to.pc \notin BusyPcs
  BY <1>6 DEF BeginRemove, BusyPcs, ResolvingPcs
<1>7. CASE FindSlot(r) \/ NewSlot(r) \/ CheckAssigned(r) \/ CheckFails(r)
  <2>1. q \in StaffingStates
    BY <1>0, <1>7, StateOfPc DEF FindSlot, NewSlot, CheckAssigned, CheckFails
  <2>2. \A i : [q EXCEPT !.pc = "check", !.slot = i].pc = "check"
    BY <2>1 DEF StaffingStates
  <2>3. [q EXCEPT !.pc = "new_slot"].pc = "new_slot" /\ [q EXCEPT !.pc = "insert"].pc = "insert"
    BY <2>1 DEF StaffingStates
  <2>4. \/ Answered(r)
        \/ \E i : RequestGoes(r, [q EXCEPT !.pc = "check", !.slot = i])
        \/ RequestGoes(r, [q EXCEPT !.pc = "new_slot"]) \/ RequestGoes(r, [q EXCEPT !.pc = "insert"])
    BY <1>7 DEF FindSlot, NewSlot, CheckAssigned, CheckFails
  <2>5. "check" \notin BusyPcs /\ "new_slot" \notin BusyPcs /\ "insert" \notin BusyPcs
    BY DEF BusyPcs, ResolvingPcs
  <2>6. CASE \E i : RequestGoes(r, [q EXCEPT !.pc = "check", !.slot = i])
    <3>1. PICK i : RequestGoes(r, [q EXCEPT !.pc = "check", !.slot = i])
      BY <2>6
    <3> QED BY <2>2, <2>5, <3>1
  <2> QED BY <1>1, <2>3, <2>4, <2>5, <2>6
<1>8. ASSUME NEW tag, NEW enabled, BeginPublish(r, tag, enabled)
      PROVE  \E to : RequestGoes(r, to) /\ to.pc \notin BusyPcs
  BY <1>8 DEF BeginPublish, BusyPcs, ResolvingPcs
<1>9. CASE Publish(r)
  <2> PICK to, n : n = NextId(announcement) /\ to = [pc |-> "hide", announcement |-> n]
    OBVIOUS
  <2>1. Answered(r) \/ RequestGoes(r, to)
    BY <1>9 DEF Publish
  <2>2. to.pc \notin BusyPcs
    BY DEF BusyPcs, ResolvingPcs
  <2> QED BY <1>1, <2>1, <2>2
<1>10. CASE Hide(r) \/ Edit(r) \/ \E n \in AnnouncementIds : Withdraw(r, n)
  BY <1>1, <1>10 DEF Hide, Edit, Withdraw
<1>11. ASSUME NEW n, NEW e, BeginEdit(r, n, e)
       PROVE  \E to : RequestGoes(r, to) /\ to.pc \notin BusyPcs
  BY <1>11 DEF BeginEdit, BusyPcs, ResolvingPcs
<1> QED BY <1>3, <1>4, <1>5, <1>6, <1>7, <1>8, <1>9, <1>10, <1>11 DEF ScheduleStep, AnnouncementStep

LEMMA AccountsInvInit == Init => AccountsInv
<1> SUFFICES ASSUME Init PROVE AccountsInv
  OBVIOUS
<1>0. PICK a \in Accounts, t \in Tokens : \E g \in Groups[a] :
        /\ g.role = "admin"
        /\ staff = [i \in StaffIds |->
             IF i = 1 THEN [account |-> a, role |-> g.role, version |-> 0] ELSE Absent]
        /\ session = [x \in Tokens |->
             IF x = t THEN [staff |-> 1, role |-> g.role] ELSE Absent]
  BY DEF Init, AccountsInit
<1>1. PICK row, ticket :
        /\ \A i \in StaffIds : staff[i] = IF i = 1 THEN row ELSE Absent
        /\ \A x \in Tokens : session[x] = IF x = t THEN ticket ELSE Absent
        /\ row.version = 0 /\ ticket.staff = 1
  BY <1>0
<1>2. required = 0 /\ stamped = {1} /\ \A r \in Requests : request[r] = Idle
  BY DEF Init, AccountsInit
<1>3. 1 \in StaffIds /\ AccountsTyped
  BY TypedInit, AccountsAssumption DEF Typed
<1>4. staff[1] # Absent
  <2>1. PICK role : role = "admin" /\ staff[1] = [account |-> a, role |-> role, version |-> 0]
    BY <1>0, <1>3
  <2>2. staff[1] \in StaffRows
    BY <2>1, AccountsAssumption DEF StaffRows, Roles
  <2> QED BY <2>2, AccountsAssumption
<1>5. OneRowPerAccount /\ VersionsBounded
  BY <1>1, <1>2 DEF OneRowPerAccount, VersionsBounded, VersionAtMost, Exists
<1>6. SessionsEarned
  BY <1>1, <1>2, <1>3, <1>4 DEF SessionsEarned, Exists
<1>7. \A r \in Requests : RequestEarned(request[r])
  BY <1>2 DEF RequestEarned, Idle, BusyPcs, ResolvingPcs
<1> QED BY <1>5, <1>6, <1>7 DEF AccountsInv

LEMMA AccountsNext == Typed /\ AccountsInv /\ [Next]_vars => AccountsInv'
<1> SUFFICES ASSUME Typed, AccountsInv, [Next]_vars PROVE AccountsInv'
  OBVIOUS
<1>1. CASE UNCHANGED vars
  BY <1>1 DEF vars, accountVars, AccountsInv, OneRowPerAccount, VersionsBounded, VersionAtMost,
     SessionsEarned, VersionCurrent, RequestEarned, Gone, Exists
<1>2. ASSUME NEW r \in Requests, AccountStep(r) PROVE AccountsInv'
  BY <1>2, AccountStepsKeep
<1>3. ASSUME NEW r \in Requests, ScheduleStep(r) \/ AnnouncementStep(r) PROVE AccountsInv'
  <2>1. UNCHANGED <<staff, session, required, stamped>>
    BY <1>3, TypesOfScheduleSteps, TypesOfAnnouncementSteps DEF tableVars, processVars
  <2>2. \E to : RequestGoes(r, to) /\ RequestEarned(to)'
    BY <1>3, ServicesAreQuiet, QuietEarned
  <2> QED BY <2>1, <2>2, PlainStep
<1>4. ASSUME NEW r \in Requests, End(r) PROVE AccountsInv'
  BY <1>4, PlainStep DEF End, tableVars, processVars
<1> QED BY <1>1, <1>2, <1>3, <1>4, DeployKeeps DEF Next

LEMMA AlwaysAccounts == Spec => []AccountsInv
  BY AccountsInvInit, AccountsNext, AlwaysTyped, PTL DEF Spec

\* A session is served only if its staff member has logged in since STAFF_VERSION was
\* last raised, whatever requests and redeployments overlap.
THEOREM SessionsNeedALogin == Spec => []OldSessionsNeedALogin
<1>1. AccountsInv => OldSessionsNeedALogin
  BY DEF AccountsInv, RequestEarned, OldSessionsNeedALogin
<1> QED BY <1>1, AlwaysAccounts, PTL

\* Nobody acts as a staff member who was deleted before the request came in.
THEOREM DeletedStaffCannotAct == Spec => []DeletedCannotAct
<1>1. AccountsInv => DeletedCannotAct
  BY DEF AccountsInv, RequestEarned, DeletedCannotAct, BusyPcs, ResolvingPcs
<1> QED BY <1>1, AlwaysAccounts, PTL
-----------------------------------------------------------------------------
(***************************************************************************)
(* One of each: the indexes of the database decide, whatever the requests  *)
(* found when they looked.                                                 *)
(***************************************************************************)
\* A step changes one schedule, or one announcement, if any.
LEMMA EnabledKept ==
  ASSUME SchedulesTyped, OneEnabled, NEW s \in ScheduleIds,
         \A x \in ScheduleIds \ {s} : schedule'[x] = schedule[x],
         Exists(schedule', s) /\ schedule'[s].enabled = TRUE =>
           ~AnotherEnabled(s) \/ (Exists(schedule, s) /\ schedule[s].enabled = TRUE)
  PROVE  OneEnabled'
<1> SUFFICES ASSUME NEW x \in ScheduleIds, NEW y \in ScheduleIds,
                    Exists(schedule', x), schedule'[x].enabled,
                    Exists(schedule', y), schedule'[y].enabled
             PROVE  x = y
  BY DEF OneEnabled, Exists
<1> QED BY DEF OneEnabled, AnotherEnabled, Exists

LEMMA OneEnabledNext ==
  ASSUME Typed, OneEnabled, NEW r \in Requests, ScheduleStep(r)
  PROVE  OneEnabled'
<1>0. SchedulesTyped
  BY DEF Typed
<1>1. CASE UNCHANGED schedule
  BY <1>1 DEF OneEnabled, Exists
<1>2. CASE CreateSchedule(r)
  <2> PICK n : n = NextId(schedule)
    OBVIOUS
  <2>1. PICK start, end \in Dates, enabled \in BOOLEAN \cup {Keep} :
          /\ schedule' = [schedule EXCEPT ![n] = NewRow(start, end, enabled)]
          /\ EnabledIndex(n, enabled = TRUE)
    BY <1>2 DEF CreateSchedule
  <2>2. n \in ScheduleIds
    BY <1>0, <1>2, NextIdUnused, WorkSchedulesAssumption DEF CreateSchedule, SchedulesTyped
  <2>3. schedule'[n] = NewRow(start, end, enabled) /\ \A x \in ScheduleIds \ {n} : schedule'[x] = schedule[x]
    BY <1>0, <2>1, <2>2 DEF SchedulesTyped
  <2>4. schedule'[n].enabled = TRUE => ~AnotherEnabled(n)
    <3>1. CASE enabled = TRUE
      BY <2>1, <3>1 DEF EnabledIndex
    <3>2. CASE enabled # TRUE
      <4>1. (enabled = TRUE) = FALSE
        BY <3>2, Zenon
      <4>2. schedule'[n] = [start |-> start, end |-> end, enabled |-> FALSE]
        BY <2>3, <4>1, Zenon DEF NewRow
      <4> QED BY <4>2
    <3> QED BY <3>1, <3>2
  <2> QED BY <1>0, <2>2, <2>3, <2>4, EnabledKept
<1>3. CASE Update(r)
  <2> PICK s : s = request[r].schedule
    OBVIOUS
  <2>1. s \in ScheduleIds
    BY <1>3, StateOfPc DEF Update, UpdateStates, Typed, RequestsTyped
  <2>2. PICK u \in Updates :
          /\ u.enabled = TRUE => EnabledIndex(s, TRUE)
          /\ schedule' = IF ~Exists(schedule, s) THEN schedule
                         ELSE [schedule EXCEPT ![s] = [start |-> Given(u.start, @.start),
                                                       end |-> Given(u.end, @.end),
                                                       enabled |-> Given(u.enabled, @.enabled)]]
    BY <1>3 DEF Update
  <2>3. CASE Exists(schedule, s)
    <3> PICK row : row = [start |-> Given(u.start, schedule[s].start),
                          end |-> Given(u.end, schedule[s].end),
                          enabled |-> Given(u.enabled, schedule[s].enabled)]
      OBVIOUS
    <3>1. schedule'[s] = row /\ \A x \in ScheduleIds \ {s} : schedule'[x] = schedule[x]
      BY <1>0, <2>1, <2>2, <2>3 DEF SchedulesTyped
    <3>2. row.enabled = Given(u.enabled, schedule[s].enabled)
      OBVIOUS
    <3>3. row.enabled = TRUE => ~AnotherEnabled(s) \/ schedule[s].enabled = TRUE
      BY <2>2, <3>2 DEF EnabledIndex, Given
    <3> QED BY <1>0, <2>1, <2>3, <3>1, <3>3, EnabledKept
  <2> QED BY <1>1, <2>2, <2>3
<1>4. ASSUME NEW s \in ScheduleIds, DeleteSchedule(r, s) PROVE OneEnabled'
  <2>1. schedule'[s] = Deleted /\ \A x \in ScheduleIds \ {s} : schedule'[x] = schedule[x]
    BY <1>0, <1>4 DEF DeleteSchedule, SchedulesTyped
  <2> QED BY <1>0, <2>1, EnabledKept DEF Exists
<1>5. \/ UNCHANGED schedule \/ CreateSchedule(r) \/ Update(r)
      \/ \E s \in ScheduleIds : DeleteSchedule(r, s)
  BY DEF ScheduleStep, BeginUpdate, BeginWeekday, UpdateWeekday, BeginAdd, FindSlot, NewSlot,
     CheckAssigned, CheckFails, Insert, BeginRemove, Remove, scheduleVars
<1> QED BY <1>1, <1>2, <1>3, <1>4, <1>5

LEMMA TOSKept ==
  ASSUME AnnouncementsTyped, OneTOS, NEW n \in AnnouncementIds,
         \A x \in AnnouncementIds \ {n} : announcement'[x] = announcement[x],
         Exists(announcement', n) /\ announcement'[n].tag = "tos" =>
           ~TOSBeside(n) \/ (Exists(announcement, n) /\ announcement[n].tag = "tos")
  PROVE  OneTOS'
<1> SUFFICES ASSUME NEW x \in AnnouncementIds, NEW y \in AnnouncementIds,
                    Exists(announcement', x), announcement'[x].tag = "tos",
                    Exists(announcement', y), announcement'[y].tag = "tos"
             PROVE  x = y
  BY DEF OneTOS, Exists
<1> QED BY DEF OneTOS, TOSBeside, Exists

AnnouncementsInv == OneTOS /\ HiddenUnlessCut

Shown(row) == row.enabled /\ ~row.meant

\* Request r leaves the other announcements alone, and the one it writes is shown against
\* what was meant only as before, or until r has hidden it.
LEMMA HiddenKept ==
  ASSUME RequestsTyped, HiddenUnlessCut, NEW r \in Requests, NEW to, RequestGoes(r, to), UNCHANGED cut,
         NEW n, \A x \in AnnouncementIds \ {n} : announcement'[x] = announcement[x],
         request[r].pc = "hide" => request[r].announcement = n,
         n \in AnnouncementIds /\ Exists(announcement', n) /\ Shown(announcement'[n]) =>
           \/ to.pc = "hide" /\ to.announcement = n
           \/ request[r].pc # "hide" /\ Exists(announcement, n) /\ Shown(announcement[n])
  PROVE  HiddenUnlessCut'
<1>0. request'[r] = to /\ \A q \in Requests \ {r} : request'[q] = request[q]
  BY RequestMoves
<1> SUFFICES ASSUME NEW x \in AnnouncementIds, Exists(announcement', x), Shown(announcement'[x])
             PROVE  x \in cut \/ \E q \in Requests : request'[q].pc = "hide" /\ request'[q].announcement = x
  BY DEF HiddenUnlessCut, Exists, Shown
<1>1. CASE x # n
  <2>1. x \in cut \/ \E q \in Requests : request[q].pc = "hide" /\ request[q].announcement = x
    BY <1>1 DEF HiddenUnlessCut, Exists, Shown
  <2> QED BY <1>0, <1>1, <2>1
<1>2. CASE x = n /\ to.pc = "hide" /\ to.announcement = n
  BY <1>0, <1>2
<1>3. CASE x = n /\ request[r].pc # "hide" /\ Exists(announcement, n) /\ Shown(announcement[n])
  <2>1. x \in cut \/ \E q \in Requests : request[q].pc = "hide" /\ request[q].announcement = x
    BY <1>3 DEF HiddenUnlessCut, Exists, Shown
  <2> QED BY <1>0, <1>3, <2>1
<1> QED BY <1>1, <1>2, <1>3

\* The same for a request that is answered: it is no longer about to hide anything.
LEMMA HiddenWhenAnswered ==
  ASSUME RequestsTyped, HiddenUnlessCut, NEW r \in Requests, Answered(r), UNCHANGED cut,
         NEW n, \A x \in AnnouncementIds \ {n} : announcement'[x] = announcement[x],
         request[r].pc = "hide" => request[r].announcement = n,
         n \in AnnouncementIds /\ Exists(announcement', n) /\ Shown(announcement'[n]) =>
           request[r].pc # "hide" /\ Exists(announcement, n) /\ Shown(announcement[n])
  PROVE  HiddenUnlessCut'
<1>1. RequestGoes(r, Idle)
  BY DEF Answered
<1> QED BY <1>1, HiddenKept

LEMMA PublishKeeps ==
  ASSUME Typed, AnnouncementsInv, NEW r \in Requests, Publish(r)
  PROVE  AnnouncementsInv'
<1>0. RequestsTyped /\ AnnouncementsTyped /\ OneTOS /\ HiddenUnlessCut
  BY DEF Typed, AnnouncementsInv
<1> PICK q, n, row : q = request[r] /\ n = NextId(announcement)
                     /\ row = [tag |-> q.tag, enabled |-> TRUE, meant |-> q.enabled]
  OBVIOUS
<1>1. /\ q.pc = "publish" /\ UNCHANGED cut /\ TOSIndex(n, q.tag)
      /\ announcement' = [announcement EXCEPT ![n] = row]
      /\ IF q.enabled THEN Answered(r) ELSE RequestGoes(r, [pc |-> "hide", announcement |-> n])
  BY DEF Publish
<1>2. n \in AnnouncementIds
  BY <1>0, NextIdUnused, AnnouncementsAssumption DEF Publish, AnnouncementsTyped
<1>3. announcement'[n] = row /\ \A x \in AnnouncementIds \ {n} : announcement'[x] = announcement[x]
  BY <1>0, <1>1, <1>2 DEF AnnouncementsTyped
<1>4. OneTOS'
  BY <1>0, <1>1, <1>2, <1>3, TOSKept DEF TOSIndex
<1>5. HiddenUnlessCut'
  <2>1. CASE q.enabled
    <3>1. ~Shown(announcement'[n])
      BY <1>3, <2>1 DEF Shown
    <3>2. request[r].pc # "hide" /\ Answered(r) /\ UNCHANGED cut
      BY <1>1, <2>1
    <3> QED BY <1>0, <1>3, <3>1, <3>2, HiddenWhenAnswered
  <2>2. CASE ~q.enabled
    <3> PICK to : to = [pc |-> "hide", announcement |-> n]
      OBVIOUS
    <3>1. RequestGoes(r, to) /\ to.pc = "hide" /\ to.announcement = n
      BY <1>1, <2>2
    <3>2. request[r].pc # "hide"
      BY <1>1
    <3> QED BY <1>0, <1>1, <1>3, <3>1, <3>2, HiddenKept
  <2> QED BY <2>1, <2>2
<1> QED BY <1>4, <1>5 DEF AnnouncementsInv

LEMMA HideKeeps ==
  ASSUME Typed, AnnouncementsInv, NEW r \in Requests, Hide(r)
  PROVE  AnnouncementsInv'
<1>0. RequestsTyped /\ AnnouncementsTyped /\ OneTOS /\ HiddenUnlessCut
  BY DEF Typed, AnnouncementsInv
<1> PICK n : n = request[r].announcement
  OBVIOUS
<1>1. /\ request[r].pc = "hide" /\ UNCHANGED cut /\ Answered(r)
      /\ announcement' = IF Exists(announcement, n)
                         THEN [announcement EXCEPT ![n].enabled = FALSE] ELSE announcement
  BY DEF Hide, SetEnabled
<1>2. n \in AnnouncementIds
  BY <1>0, <1>1, StateOfPc DEF RequestsTyped, HideStates
<1>3. CASE Exists(announcement, n)
  <2> PICK row : row = [announcement[n] EXCEPT !.enabled = FALSE]
    OBVIOUS
  <2>1. announcement[n] \in AnnouncementRows
    BY <1>0, <1>2, <1>3 DEF AnnouncementsTyped, Exists
  <2>2. row.tag = announcement[n].tag /\ row.enabled = FALSE
    BY <2>1 DEF AnnouncementRows
  <2>3. announcement'[n] = row /\ \A x \in AnnouncementIds \ {n} : announcement'[x] = announcement[x]
    BY <1>0, <1>1, <1>2, <1>3 DEF AnnouncementsTyped
  <2>4. OneTOS'
    BY <1>0, <1>2, <1>3, <2>2, <2>3, TOSKept
  <2>5. ~Shown(announcement'[n])
    BY <2>2, <2>3 DEF Shown
  <2>6. HiddenUnlessCut'
    BY <1>0, <1>1, <2>3, <2>5, HiddenWhenAnswered
  <2> QED BY <2>4, <2>6 DEF AnnouncementsInv
<1>4. CASE ~Exists(announcement, n)
  <2>1. UNCHANGED announcement /\ ~Exists(announcement', n)
    BY <1>1, <1>4
  <2>2. OneTOS'
    BY <1>0, <2>1 DEF OneTOS, Exists
  <2>3. HiddenUnlessCut'
    <3>1. \A x \in AnnouncementIds \ {n} : announcement'[x] = announcement[x]
      BY <2>1
    <3> QED BY <1>0, <1>1, <2>1, <3>1, HiddenWhenAnswered
  <2> QED BY <2>2, <2>3 DEF AnnouncementsInv
<1> QED BY <1>3, <1>4

LEMMA EditKeeps ==
  ASSUME Typed, AnnouncementsInv, NEW r \in Requests, Edit(r)
  PROVE  AnnouncementsInv'
<1>0. RequestsTyped /\ AnnouncementsTyped /\ OneTOS /\ HiddenUnlessCut
  BY DEF Typed, AnnouncementsInv
<1> PICK n, e : n = request[r].announcement /\ e = request[r].edit
  OBVIOUS
<1>1. request[r].pc = "edit" /\ UNCHANGED cut /\ Answered(r)
  BY DEF Edit
<1>2. n \in AnnouncementIds
  BY <1>0, <1>1, StateOfPc DEF RequestsTyped, EditStates
<1>3. CASE ~Exists(announcement, n) /\ UNCHANGED announcement
  <2>1. OneTOS'
    BY <1>0, <1>3 DEF OneTOS, Exists
  <2>2. HiddenUnlessCut'
    <3>1. request[r].pc # "hide"
      BY <1>1
    <3>2. \A x \in AnnouncementIds \ {n} : announcement'[x] = announcement[x]
      BY <1>3
    <3>3. ~Exists(announcement', n)
      BY <1>3
    <3> QED BY <1>0, <1>1, <3>1, <3>2, <3>3, HiddenWhenAnswered
  <2> QED BY <2>1, <2>2 DEF AnnouncementsInv
<1>4. CASE /\ Exists(announcement, n)
           /\ TOSIndex(n, Given(e.tag, announcement[n].tag))
           /\ announcement' = [announcement EXCEPT ![n] =
                [tag |-> Given(e.tag, @.tag), enabled |-> Given(e.enabled, @.enabled),
                 meant |-> Given(e.enabled, @.meant)]]
  <2> PICK old, row : old = announcement[n] /\ row = [tag |-> Given(e.tag, old.tag),
        enabled |-> Given(e.enabled, old.enabled), meant |-> Given(e.enabled, old.meant)]
    OBVIOUS
  <2>1. announcement'[n] = row /\ \A x \in AnnouncementIds \ {n} : announcement'[x] = announcement[x]
    BY <1>0, <1>2, <1>4 DEF AnnouncementsTyped
  <2>2. row.tag = Given(e.tag, old.tag) /\ (Shown(row) => Shown(old))
    BY DEF Shown, Given
  <2>3. OneTOS'
    BY <1>0, <1>2, <1>4, <2>1, <2>2, TOSKept DEF TOSIndex
  <2>4. HiddenUnlessCut'
    <3>1. request[r].pc # "hide"
      BY <1>1
    <3>2. Shown(announcement'[n]) => Exists(announcement, n) /\ Shown(announcement[n])
      BY <1>4, <2>1, <2>2
    <3> QED BY <1>0, <1>1, <2>1, <3>1, <3>2, HiddenWhenAnswered
  <2> QED BY <2>3, <2>4 DEF AnnouncementsInv
<1> QED BY <1>3, <1>4 DEF Edit

LEMMA OtherAnnouncementSteps ==
  ASSUME Typed, AnnouncementsInv, NEW r \in Requests,
         \/ \E tag \in AnnouncementTags, enabled \in BOOLEAN : BeginPublish(r, tag, enabled)
         \/ \E n \in AnnouncementIds, e \in Edits : BeginEdit(r, n, e)
         \/ \E n \in AnnouncementIds : Withdraw(r, n)
  PROVE  AnnouncementsInv'
<1>0. RequestsTyped /\ AnnouncementsTyped /\ OneTOS /\ HiddenUnlessCut
  BY DEF Typed, AnnouncementsInv
<1>1. request[r].pc = "serve" /\ UNCHANGED cut /\ \E to : RequestGoes(r, to)
  BY DEF BeginPublish, BeginEdit, Withdraw, Admin, announcementVars, Answered
<1>2. CASE UNCHANGED announcement
  <2>1. OneTOS'
    BY <1>0, <1>2 DEF OneTOS, Exists
  <2>2. HiddenUnlessCut'
    <3>1. PICK to : RequestGoes(r, to)
      BY <1>1
    <3>2. \A n \in AnnouncementIds : announcement'[n] = announcement[n]
      BY <1>2
    <3>3. request'[r] = to /\ \A q \in Requests \ {r} : request'[q] = request[q]
      BY <1>0, <3>1, RequestMoves
    <3> SUFFICES ASSUME NEW x \in AnnouncementIds, Exists(announcement, x),
                        announcement[x].enabled, ~announcement[x].meant
                 PROVE  x \in cut \/ \E q \in Requests : request'[q].pc = "hide" /\ request'[q].announcement = x
      BY <1>1, <1>2 DEF HiddenUnlessCut, Exists
    <3>4. x \in cut \/ \E q \in Requests : request[q].pc = "hide" /\ request[q].announcement = x
      BY <1>0 DEF HiddenUnlessCut
    <3> QED BY <1>1, <3>3, <3>4
  <2> QED BY <2>1, <2>2 DEF AnnouncementsInv
<1>3. ASSUME NEW n \in AnnouncementIds, Withdraw(r, n) PROVE AnnouncementsInv'
  <2>1. announcement'[n] = Deleted /\ \A x \in AnnouncementIds \ {n} : announcement'[x] = announcement[x]
    BY <1>0, <1>3 DEF Withdraw, AnnouncementsTyped
  <2>2. ~Exists(announcement', n)
    BY <2>1 DEF Exists
  <2>3. OneTOS'
    BY <1>0, <2>1, <2>2, TOSKept
  <2>4. HiddenUnlessCut'
    <3>1. PICK to : RequestGoes(r, to)
      BY <1>1
    <3>2. request[r].pc # "hide"
      BY <1>1
    <3> QED BY <1>0, <1>1, <2>1, <2>2, <3>1, <3>2, HiddenKept
  <2> QED BY <2>3, <2>4 DEF AnnouncementsInv
<1> QED BY <1>2, <1>3 DEF BeginPublish, BeginEdit, announcementVars

\* A step elsewhere is not of a request that is about to hide an announcement.
LEMMA StepsElsewhere ==
  ASSUME Typed, NEW r \in Requests, AccountStep(r) \/ ScheduleStep(r)
  PROVE  request[r].pc # "hide" /\ (UNCHANGED request \/ \E to : RequestGoes(r, to))
<1>0. Arrive(r) => request[r].pc # "hide"
  BY DEF Arrive, Idle
<1>1. Admin(r) => request[r].pc # "hide"
  BY DEF Admin
<1>2. ASSUME NEW a, LoginArrives(r, a) \/ BearerArrives(r, a) \/ CreateStaff(r, a)
      PROVE  request[r].pc # "hide" /\ (UNCHANGED request \/ \E to : RequestGoes(r, to))
  BY <1>0, <1>2 DEF LoginArrives, BearerArrives, CreateStaff
<1>3. ASSUME NEW t, NEW via, SessionArrives(r, t, via)
      PROVE  request[r].pc # "hide" /\ (UNCHANGED request \/ \E to : RequestGoes(r, to))
  BY <1>0, <1>3 DEF SessionArrives
<1>4. ASSUME NEW t, Logout(r, t)
      PROVE  request[r].pc # "hide" /\ (UNCHANGED request \/ \E to : RequestGoes(r, to))
  BY <1>0, <1>4 DEF Logout
<1>5. ASSUME NEW i, DeleteStaff(r, i)
      PROVE  request[r].pc # "hide" /\ (UNCHANGED request \/ \E to : RequestGoes(r, to))
  BY <1>1, <1>5 DEF DeleteStaff, Answered
<1>6. CASE Find(r) \/ Create(r)
  BY <1>6 DEF Find, Create, Resolved, Answered
<1>7. CASE SetRole(r) \/ AddYears(r) \/ OpenSession(r)
  BY <1>7 DEF SetRole, AddYears, OpenSession, Next_, Answered
<1>8. CASE StampVersion(r)
  BY <1>8 DEF StampVersion, Next_, Answered
<1>9. CASE LoadStaff(r) \/ LoadForReader(r) \/ CheckCSRF(r)
  BY <1>9 DEF LoadStaff, LoadForReader, CheckCSRF, Next_, Answered
<1>10. CASE AccountStep(r)
  BY <1>2, <1>3, <1>4, <1>5, <1>6, <1>7, <1>8, <1>9, <1>10 DEF AccountStep
<1>11. CASE ScheduleStep(r)
  <2>1. \E to : RequestGoes(r, to)
    BY <1>11, ServicesAreQuiet
  <2>2. request[r].pc # "hide"
    BY <1>1, <1>11 DEF ScheduleStep, CreateSchedule, BeginUpdate, Update, DeleteSchedule, BeginWeekday,
       UpdateWeekday, BeginAdd, FindSlot, NewSlot, CheckAssigned, CheckFails, Insert, BeginRemove, Remove
  <2> QED BY <2>1, <2>2
<1> QED BY <1>10, <1>11

LEMMA AnnouncementsElsewhere ==
  ASSUME Typed, AnnouncementsInv, NEW r \in Requests, AccountStep(r) \/ ScheduleStep(r),
         UNCHANGED announcementVars
  PROVE  AnnouncementsInv'
<1>1. OneTOS'
  BY DEF AnnouncementsInv, OneTOS, Exists, announcementVars
<1>2. request[r].pc # "hide" /\ \A q \in Requests : q # r => request'[q] = request[q]
  BY StepsElsewhere, RequestMoves DEF Typed
<1> SUFFICES ASSUME NEW x \in AnnouncementIds, Exists(announcement, x),
                    announcement[x].enabled, ~announcement[x].meant
             PROVE  x \in cut \/ \E q \in Requests : request'[q].pc = "hide" /\ request'[q].announcement = x
  BY <1>1 DEF AnnouncementsInv, HiddenUnlessCut, Exists, announcementVars
<1>3. x \in cut \/ \E q \in Requests : request[q].pc = "hide" /\ request[q].announcement = x
  BY DEF AnnouncementsInv, HiddenUnlessCut
<1> QED BY <1>2, <1>3

\* Requests that end on their way leave what they were about to hide in "cut".
LEMMA CutKeeps ==
  ASSUME Typed, AnnouncementsInv, NEW R \in SUBSET Requests, CutShort(R),
         \A q \in Requests \ R : request'[q] = request[q]
  PROVE  AnnouncementsInv'
<1>1. UNCHANGED announcement
  BY DEF CutShort
<1>2. cut' = cut \cup {request[r].announcement : r \in {q \in R : request[q].pc = "hide"}}
  BY DEF CutShort
<1>3. OneTOS'
  BY <1>1 DEF AnnouncementsInv, OneTOS, Exists
<1> SUFFICES ASSUME NEW x \in AnnouncementIds, Exists(announcement, x),
                    announcement[x].enabled, ~announcement[x].meant
             PROVE  x \in cut' \/ \E q \in Requests : request'[q].pc = "hide" /\ request'[q].announcement = x
  BY <1>1, <1>3 DEF AnnouncementsInv, HiddenUnlessCut, Exists
<1>4. x \in cut \/ \E q \in Requests : request[q].pc = "hide" /\ request[q].announcement = x
  BY DEF AnnouncementsInv, HiddenUnlessCut
<1> QED BY <1>2, <1>4

Unique == OneEnabled /\ AnnouncementsInv

LEMMA UniqueInit == Init => Unique
<1> SUFFICES ASSUME Init PROVE Unique
  OBVIOUS
<1>1. OneEnabled
  <2>1. PICK row : \A s \in ScheduleIds : schedule[s] = IF s = 1 THEN row ELSE Absent
    BY DEF Init, SchedulesInit
  <2> QED BY <2>1 DEF OneEnabled, Exists
<1>2. \A n \in AnnouncementIds : announcement[n] = Absent
  BY DEF Init, AnnouncementsInit
<1>3. OneTOS /\ HiddenUnlessCut
  BY <1>2 DEF OneTOS, HiddenUnlessCut, Exists
<1> QED BY <1>1, <1>3 DEF Unique, AnnouncementsInv

LEMMA UniqueNext == Typed /\ Unique /\ [Next]_vars => Unique'
<1> SUFFICES ASSUME Typed, Unique, [Next]_vars PROVE Unique'
  OBVIOUS
<1>0. OneEnabled /\ AnnouncementsInv
  BY DEF Unique
<1>1. UNCHANGED scheduleVars => OneEnabled'
  BY <1>0 DEF OneEnabled, Exists, scheduleVars
<1>2. CASE UNCHANGED vars
  <2>1. AnnouncementsInv'
    BY <1>0, <1>2 DEF AnnouncementsInv, OneTOS, HiddenUnlessCut, Exists, vars, accountVars, announcementVars
  <2> QED BY <1>1, <1>2, <2>1 DEF vars, Unique
<1>3. ASSUME NEW r \in Requests, AccountStep(r) /\ UNCHANGED <<scheduleVars, announcementVars>>
      PROVE  Unique'
  BY <1>0, <1>1, <1>3, AnnouncementsElsewhere DEF Unique
<1>4. ASSUME NEW r \in Requests, ScheduleStep(r) /\ UNCHANGED announcementVars PROVE Unique'
  BY <1>0, <1>4, OneEnabledNext, AnnouncementsElsewhere DEF Unique
<1>5. ASSUME NEW r \in Requests, AnnouncementStep(r) /\ UNCHANGED scheduleVars PROVE Unique'
  <2>1. AnnouncementsInv'
    BY <1>0, <1>5, PublishKeeps, HideKeeps, EditKeeps, OtherAnnouncementSteps DEF AnnouncementStep
  <2> QED BY <1>1, <1>5, <2>1 DEF Unique
<1>6. ASSUME NEW r \in Requests, End(r) /\ CutShort({r}) /\ UNCHANGED scheduleVars PROVE Unique'
  <2>1. \A q \in Requests \ {r} : request'[q] = request[q]
    BY <1>6, RequestEnds DEF End, Typed
  <2>2. {r} \in SUBSET Requests
    OBVIOUS
  <2>3. AnnouncementsInv'
    BY <1>0, <1>6, <2>1, <2>2, CutKeeps
  <2> QED BY <1>1, <1>6, <2>3 DEF Unique
<1>7. CASE Deploy /\ CutShort(Requests) /\ UNCHANGED scheduleVars
  <2>1. Requests \in SUBSET Requests /\ Requests \ Requests = {}
    OBVIOUS
  <2>2. AnnouncementsInv'
    BY <1>0, <1>7, <2>1, CutKeeps
  <2> QED BY <1>1, <1>7, <2>2 DEF Unique
<1> QED BY <1>2, <1>3, <1>4, <1>5, <1>6, <1>7 DEF Next

LEMMA AlwaysUnique == Spec => []Unique
  BY UniqueInit, UniqueNext, AlwaysTyped, PTL DEF Spec

\* One staff row for an account, one enabled work schedule, one terms of service.
THEOREM OneOfEach == Spec => []AtMostOne
<1>1. AccountsInv /\ Unique => AtMostOne
  BY DEF AccountsInv, Unique, AnnouncementsInv, AtMostOne
<1> QED BY <1>1, AlwaysAccounts, AlwaysUnique, PTL

\* An announcement that nobody enabled is shown only until it is hidden, or when the
\* request that created it was cut short.
THEOREM HiddenAsMeant == Spec => []HiddenUnlessCut
<1>1. Unique => HiddenUnlessCut
  BY DEF Unique, AnnouncementsInv
<1> QED BY <1>1, AlwaysUnique, PTL
-----------------------------------------------------------------------------
(***************************************************************************)
(* The roster: what a request read of a schedule still stands when it      *)
(* writes, as long as no other request changes that schedule.              *)
(***************************************************************************)
Periods == \A s \in ScheduleIds : Exists(schedule, s) => schedule[s].start <= schedule[s].end

SlotsHaveSchedules == \A i \in SlotIds : Exists(slot, i) => Exists(schedule, slot[i].schedule)

AssignedToSlots ==
  \A i \in SlotIds, st \in StaffIds : assigned[i][st] > 0 => Exists(slot, i)

SlotPcs == {"check", "insert", "remove"}

WorkPcs == SlotPcs \cup {"update", "find_slot", "new_slot", "weekday"}

StillStands(q) ==
  /\ q.pc \in WorkPcs => Exists(schedule, q.schedule)
  /\ q.pc = "update" => schedule[q.schedule].start = q.start /\ schedule[q.schedule].end = q.end
  /\ q.pc \in SlotPcs => Exists(slot, q.slot) /\ slot[q.slot].schedule = q.schedule
  /\ q.pc = "insert" => <<q.slot, q.staff>> \in blind \/ assigned[q.slot][q.staff] = 0

Sound ==
  /\ Periods
  /\ SlotsHaveSchedules
  /\ AssignedToSlots
  /\ \A r \in Requests : StillStands(request[r])

\* A step is about schedule s: it leaves the other schedules and their slots alone.
Elsewhere(i, s) == Exists(slot, i) /\ slot[i].schedule # s

OnlyAbout(s) ==
  /\ \A x \in ScheduleIds \ {s} : schedule'[x] = schedule[x]
  /\ \A i \in SlotIds : Elsewhere(i, s) =>
       slot'[i] = slot[i] /\ \A st \in StaffIds : assigned'[i][st] = assigned[i][st]

\* No other request is at work on s.
AloneOn(r, s) == \A q \in Requests \ {r} : request[q].pc \in WorkPcs => request[q].schedule # s

LEMMA AtWorkTyped ==
  ASSUME NEW q \in States, CarriesAll(q)
  PROVE  /\ q.pc \in WorkPcs => q.schedule \in ScheduleIds
         /\ q.pc \in SlotPcs => q.slot \in SlotIds /\ q.staff \in StaffIds
<1>1. q.pc \in WorkPcs => q.schedule \in ScheduleIds
  BY StateOfPc DEF WorkPcs, SlotPcs, UpdateStates, StaffingStates, WeekdayStates
<1>2. q.pc \in SlotPcs => q.slot \in SlotIds /\ q.staff \in StaffIds
  BY StateOfPc DEF SlotPcs, StaffingStates, CarriesAll
<1> QED BY <1>1, <1>2

LEMMA StandsOn ==
  ASSUME NEW q \in States, CarriesAll(q), StillStands(q), NEW s, OnlyAbout(s), UNCHANGED blind,
         q.pc \in WorkPcs => q.schedule # s
  PROVE  StillStands(q)'
<1>1. q.pc \in WorkPcs => schedule'[q.schedule] = schedule[q.schedule]
  BY AtWorkTyped DEF OnlyAbout
<1>2. ASSUME q.pc \in SlotPcs
      PROVE  slot'[q.slot] = slot[q.slot] /\ assigned'[q.slot][q.staff] = assigned[q.slot][q.staff]
  <2>1. q.slot \in SlotIds /\ q.staff \in StaffIds /\ q.pc \in WorkPcs
    BY <1>2, AtWorkTyped DEF WorkPcs
  <2>2. Elsewhere(q.slot, s)
    BY <1>2, <2>1 DEF StillStands, Elsewhere
  <2> QED BY <2>1, <2>2 DEF OnlyAbout
<1>3. q.pc = "update" => q.pc \in WorkPcs
  BY DEF WorkPcs
<1>4. q.pc = "insert" => q.pc \in SlotPcs
  BY DEF SlotPcs
<1> QED BY <1>1, <1>2, <1>3, <1>4 DEF StillStands, Exists

LEMMA SoundStep ==
  ASSUME Typed, Sound, NEW r \in Requests, NEW s \in ScheduleIds, OnlyAbout(s), AloneOn(r, s),
         UNCHANGED blind,
         NEW to, RequestGoes(r, to), StillStands(to)',
         Exists(schedule', s) => schedule'[s].start <= schedule'[s].end,
         \A i \in SlotIds : Exists(slot', i) /\ ~Elsewhere(i, s) => Exists(schedule', slot'[i].schedule),
         \A i \in SlotIds, st \in StaffIds : ~Elsewhere(i, s) =>
           (assigned'[i][st] > 0 => Exists(slot', i))
  PROVE  Sound'
<1>1. Periods'
  <2> SUFFICES ASSUME NEW x \in ScheduleIds, Exists(schedule', x)
               PROVE  schedule'[x].start <= schedule'[x].end
    BY DEF Periods, Exists
  <2>1. CASE x = s
    BY <2>1
  <2>2. CASE x # s
    BY <2>2 DEF OnlyAbout, Sound, Periods, Exists
  <2> QED BY <2>1, <2>2
<1>2. SlotsHaveSchedules'
  <2> SUFFICES ASSUME NEW i \in SlotIds, Exists(slot', i)
               PROVE  Exists(schedule', slot'[i].schedule)
    BY DEF SlotsHaveSchedules, Exists
  <2>1. CASE Elsewhere(i, s)
    <3>1. slot'[i] = slot[i] /\ slot[i].schedule # s /\ Exists(slot, i)
      BY <2>1 DEF OnlyAbout, Elsewhere
    <3>2. slot[i].schedule \in ScheduleIds
      BY <3>1 DEF Typed, SchedulesTyped, Exists, SlotRows
    <3>3. Exists(schedule, slot[i].schedule)
      BY <3>1 DEF Sound, SlotsHaveSchedules
    <3> QED BY <3>1, <3>2, <3>3 DEF OnlyAbout, Exists
  <2>2. CASE ~Elsewhere(i, s)
    BY <2>2
  <2> QED BY <2>1, <2>2
<1>3. AssignedToSlots'
  <2> SUFFICES ASSUME NEW i \in SlotIds, NEW st \in StaffIds
               PROVE  assigned'[i][st] > 0 => Exists(slot', i)
    BY DEF AssignedToSlots, Exists
  <2>1. CASE Elsewhere(i, s)
    BY <2>1 DEF OnlyAbout, Elsewhere, Sound, AssignedToSlots, Exists
  <2>2. CASE ~Elsewhere(i, s)
    BY <2>2
  <2> QED BY <2>1, <2>2
<1>4. ASSUME NEW x \in Requests PROVE StillStands(request[x])'
  <2>0. request'[r] = to /\ \A q \in Requests \ {r} : request'[q] = request[q]
    BY RequestMoves DEF Typed
  <2>1. CASE x = r
    BY <2>0, <2>1 DEF StillStands, Exists
  <2>2. CASE x # r
    <3> PICK q : q = request[x]
      OBVIOUS
    <3>1. q \in States /\ CarriesAll(q) /\ StillStands(q) /\ (q.pc \in WorkPcs => q.schedule # s)
      BY <2>2 DEF Typed, RequestsTyped, Sound, AloneOn
    <3>2. StillStands(q)'
      BY <3>1, StandsOn
    <3>3. request'[x] = q
      BY <2>0, <2>2
    <3> QED BY <3>2, <3>3 DEF StillStands, Exists
  <2> QED BY <2>1, <2>2
<1> QED BY <1>1, <1>2, <1>3, <1>4 DEF Sound

\* A step that changes no schedule.
LEMMA StandsWhenLooking ==
  ASSUME UNCHANGED <<schedule, slot, assigned>>, blind \subseteq blind'
  PROVE  \A q : StillStands(q) => StillStands(q)'
  BY DEF StillStands, Exists

LEMMA LookingStep ==
  ASSUME Typed, Sound, UNCHANGED <<schedule, slot, assigned>>, blind \subseteq blind',
         NEW r \in Requests,
         UNCHANGED request \/ (\E to : RequestGoes(r, to) /\ (StillStands(to) \/ StillStands(to)'))
  PROVE  Sound'
<1>1. Periods' /\ SlotsHaveSchedules' /\ AssignedToSlots'
  BY DEF Sound, Periods, SlotsHaveSchedules, AssignedToSlots, Exists
<1>2. ASSUME NEW x \in Requests PROVE StillStands(request[x])'
  <2>1. CASE UNCHANGED request
    <3> PICK q : q = request[x]
      OBVIOUS
    <3>1. StillStands(q)'
      BY StandsWhenLooking DEF Sound
    <3> QED BY <2>1, <3>1 DEF StillStands, Exists
  <2>2. CASE \E to : RequestGoes(r, to) /\ (StillStands(to) \/ StillStands(to)')
    <3> PICK to : RequestGoes(r, to) /\ (StillStands(to) \/ StillStands(to)')
      BY <2>2
    <3>1. request'[r] = to /\ \A q \in Requests \ {r} : request'[q] = request[q]
      BY RequestMoves DEF Typed
    <3> PICK q : q = request'[x]
      OBVIOUS
    <3>2. StillStands(q)'
      BY <3>1, StandsWhenLooking DEF Sound
    <3> QED BY <3>2 DEF StillStands, Exists
  <2> QED BY <2>1, <2>2
<1> QED BY <1>1, <1>2 DEF Sound

LEMMA IdleStands == StillStands(Idle) /\ StillStands(Idle)'
  BY DEF StillStands, Idle, WorkPcs, SlotPcs

LEMMA NotRaced ==
  ASSUME NEW r \in Requests, NEW s, Changes(r, s), ~raced'
  PROVE  ~raced /\ AloneOn(r, s)
  BY DEF Changes, AtWorkOn, AloneOn, WorkPcs, SlotPcs

\* The slots of s are replaced by a week of its own.
LEMMA ReplacedSound ==
  ASSUME SchedulesTyped, AssignedToSlots, NEW s \in ScheduleIds, NEW week, week \in Weeks \/ week = <<>>,
         ReplaceSlots(SlotsOf(s), s, week), week # <<>> => Exists(schedule', s)
  PROVE  /\ \A i \in SlotIds : Elsewhere(i, s) =>
              slot'[i] = slot[i] /\ \A st \in StaffIds : assigned'[i][st] = assigned[i][st]
         /\ \A i \in SlotIds : Exists(slot', i) /\ ~Elsewhere(i, s) => Exists(schedule', slot'[i].schedule)
         /\ \A i \in SlotIds, st \in StaffIds : ~Elsewhere(i, s) =>
              (assigned'[i][st] > 0 => Exists(slot', i))
<1> SUFFICES ASSUME NEW i \in SlotIds
             PROVE  /\ Elsewhere(i, s) =>
                         slot'[i] = slot[i] /\ \A st \in StaffIds : assigned'[i][st] = assigned[i][st]
                    /\ Exists(slot', i) /\ ~Elsewhere(i, s) => Exists(schedule', slot'[i].schedule)
                    /\ \A st \in StaffIds : ~Elsewhere(i, s) =>
                         (assigned'[i][st] > 0 => Exists(slot', i))
  OBVIOUS
<1>1. i \in SlotsOf(s) <=> Exists(slot, i) /\ slot[i].schedule = s
  BY DEF SlotsOf
<1>2. IsNew(i, week) => slot[i] = Absent
  BY EmptyWeekNew, PlaceOfNew
<1>3. CASE IsNew(i, week)
  <2>1. week # <<>> /\ week \in Weeks
    BY <1>3, EmptyWeekNew
  <2>2. week[Place(i)] \in [place : Places, staff : Seq(StaffIds)]
    BY <1>3, <2>1, PlaceOfNew
  <2> PICK row : row = [schedule |-> s, place |-> week[Place(i)].place]
    OBVIOUS
  <2>3. slot'[i] = row /\ row.schedule = s
    BY <1>3 DEF ReplaceSlots
  <2>4. row \in SlotRows
    BY <2>2 DEF SlotRows
  <2>5. Exists(slot', i)
    BY <2>3, <2>4, WorkSchedulesAssumption DEF Exists
  <2>6. ~Elsewhere(i, s)
    BY <1>2, <1>3 DEF Elsewhere, Exists
  <2> QED BY <2>1, <2>3, <2>5, <2>6
<1>4. CASE ~IsNew(i, week) /\ i \in SlotsOf(s)
  <2>1. slot'[i] = Deleted /\ \A st \in StaffIds : assigned'[i][st] = 0
    BY <1>4 DEF ReplaceSlots
  <2>2. ~Elsewhere(i, s) /\ ~Exists(slot', i)
    BY <1>1, <1>4, <2>1 DEF Elsewhere, Exists
  <2> QED BY <2>1, <2>2
<1>5. CASE ~IsNew(i, week) /\ i \notin SlotsOf(s)
  <2>1. slot'[i] = slot[i] /\ \A st \in StaffIds : assigned'[i][st] = assigned[i][st]
    BY <1>5 DEF ReplaceSlots
  <2>2. ~Elsewhere(i, s) => ~Exists(slot, i)
    BY <1>1, <1>5 DEF Elsewhere
  <2>3. \A st \in StaffIds : assigned[i][st] > 0 => Exists(slot, i)
    BY DEF AssignedToSlots
  <2> QED BY <2>1, <2>2, <2>3 DEF Exists
<1> QED BY <1>3, <1>4, <1>5

LEMMA CreateScheduleSound ==
  ASSUME Typed, Sound, NEW r \in Requests, CreateSchedule(r)
  PROVE  Sound'
<1>0. SchedulesTyped
  BY DEF Typed
<1> PICK n : n = NextId(schedule)
  OBVIOUS
<1>1. PICK start, end \in Dates, enabled \in BOOLEAN \cup {Keep}, week \in Weeks :
        /\ start <= end
        /\ schedule' = [schedule EXCEPT ![n] = NewRow(start, end, enabled)]
        /\ ReplaceSlots({}, n, week)
  BY DEF CreateSchedule
<1>2. n \in ScheduleIds /\ schedule[n] = Absent
  BY <1>0, NextIdUnused, WorkSchedulesAssumption DEF CreateSchedule, SchedulesTyped
<1> PICK row : row = NewRow(start, end, enabled)
  OBVIOUS
<1>3. row \in ScheduleRows /\ row.start = start /\ row.end = end
  BY DEF NewRow, ScheduleRows
<1>4. schedule'[n] = row /\ \A x \in ScheduleIds \ {n} : schedule'[x] = schedule[x]
  BY <1>0, <1>1, <1>2 DEF SchedulesTyped
<1>5. SlotsOf(n) = {}
  BY <1>2 DEF SlotsOf, Sound, SlotsHaveSchedules, Exists
<1>6. Exists(schedule', n)
  BY <1>3, <1>4, WorkSchedulesAssumption DEF Exists
<1>7. AloneOn(r, n)
  BY <1>2 DEF AloneOn, Sound, StillStands, Exists
<1>8. ReplaceSlots(SlotsOf(n), n, week)
  BY <1>1, <1>5
<1>9. /\ \A i \in SlotIds : Elsewhere(i, n) =>
           slot'[i] = slot[i] /\ \A st \in StaffIds : assigned'[i][st] = assigned[i][st]
      /\ \A i \in SlotIds : Exists(slot', i) /\ ~Elsewhere(i, n) => Exists(schedule', slot'[i].schedule)
      /\ \A i \in SlotIds, st \in StaffIds : ~Elsewhere(i, n) =>
           (assigned'[i][st] > 0 => Exists(slot', i))
  BY <1>0, <1>2, <1>6, <1>8, ReplacedSound DEF Sound
<1>10. OnlyAbout(n)
  BY <1>4, <1>9 DEF OnlyAbout
<1>11. RequestGoes(r, Idle) /\ UNCHANGED blind
  BY DEF CreateSchedule, Answered, historyVars
<1>12. schedule'[n].start <= schedule'[n].end
  BY <1>1, <1>3, <1>4
<1> QED BY <1>2, <1>7, <1>9, <1>10, <1>11, <1>12, IdleStands, SoundStep

LEMMA UpdateSound ==
  ASSUME Typed, Sound, NEW r \in Requests, Update(r), ~raced'
  PROVE  Sound'
<1>0. SchedulesTyped
  BY DEF Typed
<1> PICK q, s : q = request[r] /\ s = q.schedule
  OBVIOUS
<1>1. q.pc = "update" /\ RequestGoes(r, Idle) /\ Changes(r, s) /\ UNCHANGED blind
  BY DEF Update, Answered
<1>2. s \in ScheduleIds /\ q.start \in Dates /\ q.end \in Dates
  BY <1>1, StateOfPc DEF UpdateStates, Typed, RequestsTyped
<1>3. Exists(schedule, s) /\ schedule[s].start = q.start /\ schedule[s].end = q.end
  BY <1>1 DEF Sound, StillStands, WorkPcs
<1>4. PICK u \in Updates :
        /\ DatesInOrder(q, u)
        /\ schedule' = IF ~Exists(schedule, s) THEN schedule
                       ELSE [schedule EXCEPT ![s] = [start |-> Given(u.start, @.start),
                                                     end |-> Given(u.end, @.end),
                                                     enabled |-> Given(u.enabled, @.enabled)]]
        /\ IF u.week = Keep THEN UNCHANGED <<slot, assigned>>
           ELSE CanBeCreated(u.week) /\ ReplaceSlots(SlotsOf(s), s, u.week)
  BY DEF Update
<1> PICK row : row = [start |-> Given(u.start, schedule[s].start),
                      end |-> Given(u.end, schedule[s].end),
                      enabled |-> Given(u.enabled, schedule[s].enabled)]
  OBVIOUS
<1>5. schedule'[s] = row /\ \A x \in ScheduleIds \ {s} : schedule'[x] = schedule[x]
  BY <1>0, <1>2, <1>3, <1>4 DEF SchedulesTyped
<1>6. schedule[s] \in ScheduleRows
  BY <1>0, <1>2, <1>3 DEF SchedulesTyped, Exists
<1>7. row \in ScheduleRows
  BY <1>6 DEF ScheduleRows, Updates, Given
<1>8. Exists(schedule', s)
  BY <1>5, <1>7, WorkSchedulesAssumption DEF Exists
<1>9. schedule'[s].start <= schedule'[s].end
  <2>1. row.start = Given(u.start, q.start) /\ row.end = Given(u.end, q.end)
    BY <1>3
  <2>2. CASE u.start # Keep \/ u.end # Keep
    BY <1>4, <1>5, <2>1, <2>2 DEF DatesInOrder
  <2>3. CASE u.start = Keep /\ u.end = Keep
    BY <1>2, <1>3, <1>5, <2>1, <2>3 DEF Given, Sound, Periods
  <2> QED BY <2>2, <2>3
<1>10. /\ \A i \in SlotIds : Elsewhere(i, s) =>
            slot'[i] = slot[i] /\ \A st \in StaffIds : assigned'[i][st] = assigned[i][st]
       /\ \A i \in SlotIds : Exists(slot', i) /\ ~Elsewhere(i, s) => Exists(schedule', slot'[i].schedule)
       /\ \A i \in SlotIds, st \in StaffIds : ~Elsewhere(i, s) =>
            (assigned'[i][st] > 0 => Exists(slot', i))
  <2>1. CASE u.week = Keep
    <3>1. UNCHANGED <<slot, assigned>>
      BY <1>4, <2>1
    <3>2. \A i \in SlotIds : Exists(slot, i) /\ ~Elsewhere(i, s) => slot[i].schedule = s
      BY DEF Elsewhere
    <3> QED BY <1>8, <3>1, <3>2 DEF Sound, AssignedToSlots, Exists
  <2>2. CASE u.week # Keep
    <3>1. u.week \in Weeks
      BY <2>2 DEF Updates
    <3> QED BY <1>0, <1>2, <1>4, <1>8, <2>2, <3>1, ReplacedSound DEF Sound
  <2> QED BY <2>1, <2>2
<1>11. OnlyAbout(s)
  BY <1>5, <1>10 DEF OnlyAbout
<1>12. AloneOn(r, s)
  BY <1>1, NotRaced
<1> QED BY <1>1, <1>2, <1>9, <1>10, <1>11, <1>12, IdleStands, SoundStep

LEMMA DeleteScheduleSound ==
  ASSUME Typed, Sound, NEW r \in Requests, NEW s \in ScheduleIds, DeleteSchedule(r, s), ~raced'
  PROVE  Sound'
<1>0. SchedulesTyped
  BY DEF Typed
<1>1. schedule'[s] = Deleted /\ \A x \in ScheduleIds \ {s} : schedule'[x] = schedule[x]
  BY <1>0 DEF DeleteSchedule, SchedulesTyped
<1>2. /\ ReplaceSlots(SlotsOf(s), s, <<>>) /\ RequestGoes(r, Idle) /\ Changes(r, s)
      /\ UNCHANGED blind
  BY DEF DeleteSchedule, SlotsDeleted, Answered
<1>3. /\ \A i \in SlotIds : Elsewhere(i, s) =>
           slot'[i] = slot[i] /\ \A st \in StaffIds : assigned'[i][st] = assigned[i][st]
      /\ \A i \in SlotIds : Exists(slot', i) /\ ~Elsewhere(i, s) => Exists(schedule', slot'[i].schedule)
      /\ \A i \in SlotIds, st \in StaffIds : ~Elsewhere(i, s) =>
           (assigned'[i][st] > 0 => Exists(slot', i))
  BY <1>0, <1>2, ReplacedSound DEF Sound
<1>4. OnlyAbout(s) /\ AloneOn(r, s)
  BY <1>1, <1>2, <1>3, NotRaced DEF OnlyAbout
<1>5. ~Exists(schedule', s)
  BY <1>1 DEF Exists
<1> QED BY <1>2, <1>3, <1>4, <1>5, IdleStands, SoundStep

\* A slot of its own is added to schedule s.
LEMMA AddedSound ==
  ASSUME Typed, Sound, NEW r \in Requests, NEW s \in ScheduleIds, NEW place \in Places, AddSlot(s, place),
         Exists(schedule, s), UNCHANGED <<schedule, assigned, blind>>, AloneOn(r, s),
         NEW to, RequestGoes(r, to), StillStands(to)'
  PROVE  Sound'
<1> PICK i, row : i = NextId(slot) /\ row = [schedule |-> s, place |-> place]
  OBVIOUS
<1>1. i \in SlotIds /\ slot[i] = Absent /\ slot' = [slot EXCEPT ![i] = row]
  BY SlotAdded DEF Typed
<1>2. slot'[i] = row /\ \A x \in SlotIds \ {i} : slot'[x] = slot[x]
  BY <1>1 DEF Typed, SchedulesTyped
<1>3. ~Exists(slot, i) /\ row.schedule = s
  BY <1>1 DEF Exists
<1>4. row \in SlotRows
  BY DEF SlotRows
<1>5. Exists(slot', i)
  BY <1>2, <1>4, WorkSchedulesAssumption DEF Exists
<1>6. OnlyAbout(s)
  BY <1>2, <1>3 DEF OnlyAbout, Elsewhere
<1>7. \A x \in SlotIds : Exists(slot', x) /\ ~Elsewhere(x, s) => Exists(schedule', slot'[x].schedule)
  BY <1>2, <1>3 DEF Elsewhere, Exists
<1>8. \A x \in SlotIds, st \in StaffIds :
        assigned'[x][st] > 0 => Exists(slot', x)
  BY <1>2, <1>5 DEF Sound, AssignedToSlots, Exists
<1>9. Exists(schedule', s) => schedule'[s].start <= schedule'[s].end
  BY DEF Sound, Periods
<1> QED BY <1>6, <1>7, <1>8, <1>9, SoundStep

LEMMA UpdateWeekdaySound ==
  ASSUME Typed, Sound, NEW r \in Requests, NEW place \in Places, UpdateWeekday(r, place), ~raced'
  PROVE  Sound'
<1> PICK q, s : q = request[r] /\ s = q.schedule
  OBVIOUS
<1>1. /\ q.pc = "weekday" /\ RequestGoes(r, Idle) /\ Changes(r, s)
      /\ UNCHANGED <<schedule, assigned, blind>>
  BY DEF UpdateWeekday, Answered
<1>2. s \in ScheduleIds /\ Exists(schedule, s)
  <2>1. q \in WeekdayStates /\ StillStands(q)
    BY <1>1, StateOfPc DEF Typed, RequestsTyped, Sound
  <2> QED BY <1>1, <2>1 DEF WeekdayStates, StillStands, WorkPcs
<1>3. CASE AddSlot(s, place)
  BY <1>1, <1>2, <1>3, NotRaced, IdleStands, AddedSound
<1>4. CASE UNCHANGED slot
  BY <1>1, <1>4, IdleStands, LookingStep
<1> QED BY <1>3, <1>4 DEF UpdateWeekday

LEMMA NewSlotSound ==
  ASSUME Typed, Sound, NEW r \in Requests, NewSlot(r), ~raced'
  PROVE  Sound'
<1> PICK q, s, i, place : q = request[r] /\ s = q.schedule /\ i = NextId(slot) /\ place = q.place
  OBVIOUS
<1> PICK to : to = [q EXCEPT !.pc = "check", !.slot = i]
  OBVIOUS
<1>1. /\ q.pc = "new_slot" /\ RequestGoes(r, to) /\ Changes(r, s) /\ AddSlot(s, place)
      /\ UNCHANGED <<schedule, assigned, blind>>
  BY DEF NewSlot
<1>2. q \in StaffingStates /\ Exists(schedule, s)
  BY <1>1, StateOfPc DEF Typed, RequestsTyped, Sound, StillStands, WorkPcs
<1>3. s \in ScheduleIds /\ place \in Places
  BY <1>2 DEF StaffingStates
<1>4. to.pc = "check" /\ to.slot = i /\ to.schedule = s
  BY <1>2 DEF StaffingStates
<1>5. slot'[i] = [schedule |-> s, place |-> place]
  BY <1>1, <1>3, SlotAdded DEF Typed, SchedulesTyped
<1>6. [schedule |-> s, place |-> place] \in SlotRows
  BY <1>3 DEF SlotRows
<1>7. Exists(slot', i) /\ slot'[i].schedule = s
  BY <1>5, <1>6, WorkSchedulesAssumption DEF Exists
<1>8. StillStands(to)'
  BY <1>1, <1>2, <1>4, <1>7 DEF StillStands, Exists
<1> QED BY <1>1, <1>2, <1>3, <1>8, NotRaced, AddedSound

\* An assignment to a slot of schedule s is written.
LEMMA AssignedSound ==
  ASSUME Typed, Sound, NEW r \in Requests, Insert(r) \/ Remove(r), ~raced'
  PROVE  Sound'
<1> PICK q, s, i, st : q = request[r] /\ s = q.schedule /\ i = q.slot /\ st = q.staff
  OBVIOUS
<1>1. /\ q.pc \in {"insert", "remove"} /\ RequestGoes(r, Idle) /\ Changes(r, s)
      /\ UNCHANGED <<schedule, slot, blind>>
  BY DEF Insert, Remove, Answered
<1>2. s \in ScheduleIds /\ i \in SlotIds /\ st \in StaffIds
  BY <1>1, AtWorkTyped DEF Typed, RequestsTyped, WorkPcs, SlotPcs
<1>3. Exists(slot, i) /\ slot[i].schedule = s
  BY <1>1 DEF Sound, StillStands, SlotPcs
<1>4. PICK n : assigned' = [assigned EXCEPT ![i][st] = n]
  <2>1. CASE Insert(r)
    <3> PICK m : m = assigned[i][st] + 1
      OBVIOUS
    <3> QED BY <2>1 DEF Insert
  <2>2. CASE Remove(r)
    BY <2>2 DEF Remove
  <2> QED BY <2>1, <2>2
<1>5. \A x \in SlotIds, y \in StaffIds :
        assigned'[x][y] = IF x = i /\ y = st THEN n ELSE assigned[x][y]
  BY <1>2, <1>4 DEF Typed, SchedulesTyped
<1>6. OnlyAbout(s)
  BY <1>1, <1>3, <1>5 DEF OnlyAbout, Elsewhere
<1>7. \A x \in SlotIds, y \in StaffIds :
        assigned'[x][y] > 0 => Exists(slot', x)
  BY <1>1, <1>3, <1>4, <1>5 DEF Sound, AssignedToSlots
<1>8. \A x \in SlotIds : Exists(slot', x) => Exists(schedule', slot'[x].schedule)
  BY <1>1 DEF Sound, SlotsHaveSchedules
<1>9. Exists(schedule', s) => schedule'[s].start <= schedule'[s].end
  BY <1>1, <1>2 DEF Sound, Periods
<1> QED BY <1>1, <1>2, <1>6, <1>7, <1>8, <1>9, NotRaced, IdleStands, SoundStep

\* The steps that only look.
LEMMA LookingSound ==
  ASSUME Typed, Sound, NEW r \in Requests,
         \/ \E s \in ScheduleIds : BeginUpdate(r, s) \/ BeginWeekday(r, s)
         \/ \E s \in ScheduleIds, st \in StaffIds, place \in Places : BeginAdd(r, s, st, place)
         \/ \E i \in SlotIds, st \in StaffIds : BeginRemove(r, i, st)
         \/ FindSlot(r) \/ CheckAssigned(r) \/ CheckFails(r)
  PROVE  Sound'
<1>0. UNCHANGED <<schedule, slot, assigned>> /\ blind \subseteq blind'
  BY DEF BeginUpdate, BeginWeekday, BeginAdd, BeginRemove, FindSlot, CheckAssigned, CheckFails, scheduleVars
<1> PICK q : q = request[r]
  OBVIOUS
<1>1. ASSUME NEW s \in ScheduleIds, BeginUpdate(r, s) PROVE Sound'
  <2> PICK to : to = [pc |-> "update", schedule |-> s,
                      start |-> schedule[s].start, end |-> schedule[s].end]
    OBVIOUS
  <2>1. RequestGoes(r, to) /\ Exists(schedule, s)
    BY <1>1 DEF BeginUpdate
  <2>2. StillStands(to)
    BY <2>1 DEF StillStands, SlotPcs
  <2> QED BY <1>0, <2>1, <2>2, LookingStep
<1>2. ASSUME NEW s \in ScheduleIds, BeginWeekday(r, s) PROVE Sound'
  <2> PICK to : to = [pc |-> "weekday", schedule |-> s]
    OBVIOUS
  <2>1. RequestGoes(r, to) /\ Exists(schedule, s)
    BY <1>2 DEF BeginWeekday
  <2>2. StillStands(to)
    BY <2>1 DEF StillStands, SlotPcs
  <2> QED BY <1>0, <2>1, <2>2, LookingStep
<1>3. ASSUME NEW s \in ScheduleIds, NEW st \in StaffIds, NEW place \in Places, BeginAdd(r, s, st, place)
      PROVE  Sound'
  <2> PICK to : to = [pc |-> "find_slot", schedule |-> s, staff |-> st, place |-> place, slot |-> 0]
    OBVIOUS
  <2>1. RequestGoes(r, to) /\ Exists(schedule, s)
    BY <1>3 DEF BeginAdd
  <2>2. StillStands(to)
    BY <2>1 DEF StillStands, SlotPcs
  <2> QED BY <1>0, <2>1, <2>2, LookingStep
<1>4. ASSUME NEW i \in SlotIds, NEW st \in StaffIds, BeginRemove(r, i, st) PROVE Sound'
  <2> PICK to : to = [pc |-> "remove", schedule |-> slot[i].schedule, staff |-> st,
                      place |-> slot[i].place, slot |-> i]
    OBVIOUS
  <2>1. RequestGoes(r, to) /\ Exists(slot, i)
    BY <1>4 DEF BeginRemove
  <2>2. StillStands(to)
    BY <2>1 DEF StillStands, SlotPcs, WorkPcs, Sound, SlotsHaveSchedules
  <2> QED BY <1>0, <2>1, <2>2, LookingStep
<1>5. CASE FindSlot(r)
  <2> PICK s, here : s = q.schedule /\ here = SlotsAt(s, q.place)
    OBVIOUS
  <2>1. q.pc = "find_slot" /\ q \in StaffingStates /\ Exists(schedule, s)
    BY <1>5, StateOfPc DEF FindSlot, Typed, RequestsTyped, Sound, StillStands, WorkPcs
  <2>2. ASSUME NEW i \in SlotsOf(s), RequestGoes(r, [q EXCEPT !.pc = "check", !.slot = i])
        PROVE  Sound'
    <3> PICK to : to = [q EXCEPT !.pc = "check", !.slot = i]
      OBVIOUS
    <3>1. to.pc = "check" /\ to.slot = i /\ to.schedule = s
      BY <2>1 DEF StaffingStates
    <3>2. StillStands(to)
      BY <2>1, <3>1 DEF StillStands, SlotsOf
    <3> QED BY <1>0, <2>2, <3>2, LookingStep
  <2>3. CASE here # {} /\ RequestGoes(r, [q EXCEPT !.pc = "check", !.slot = Min(here)])
    <3>1. here \subseteq Nat /\ here \subseteq SlotsOf(s)
      BY WorkSchedulesAssumption DEF SlotsAt, SlotsOf
    <3>2. Min(here) \in SlotsOf(s)
      BY <2>3, <3>1, LeastExists
    <3> QED BY <2>2, <2>3, <3>2
  <2>4. CASE RequestGoes(r, [q EXCEPT !.pc = "new_slot"])
    <3> PICK to : to = [q EXCEPT !.pc = "new_slot"]
      OBVIOUS
    <3>1. to.pc = "new_slot" /\ to.schedule = s
      BY <2>1 DEF StaffingStates
    <3>2. StillStands(to)
      BY <2>1, <3>1 DEF StillStands, SlotPcs
    <3> QED BY <1>0, <2>4, <3>2, LookingStep
  <2> QED BY <1>5, <2>2, <2>3, <2>4 DEF FindSlot
<1>6. CASE CheckAssigned(r)
  <2>1. q.pc = "check" /\ q \in StaffingStates /\ CarriesAll(q) /\ StillStands(q)
    BY <1>6, StateOfPc DEF CheckAssigned, Typed, RequestsTyped, Sound
  <2>2. CASE Answered(r)
    BY <1>0, <2>2, IdleStands, LookingStep DEF Answered
  <2>3. CASE ~(assigned[q.slot][q.staff] > 0) /\ RequestGoes(r, [q EXCEPT !.pc = "insert"])
    <3> PICK to : to = [q EXCEPT !.pc = "insert"]
      OBVIOUS
    <3>1. /\ to.pc = "insert" /\ to.schedule = q.schedule /\ to.slot = q.slot /\ to.staff = q.staff
          /\ q.slot \in SlotIds /\ q.staff \in StaffIds
      BY <2>1 DEF StaffingStates, CarriesAll
    <3>2. assigned[q.slot][q.staff] \in Nat
      BY <3>1 DEF Typed, SchedulesTyped
    <3>3. assigned[q.slot][q.staff] = 0
      BY <2>3, <3>2
    <3>4. StillStands(to)
      BY <2>1, <3>1, <3>3 DEF StillStands, WorkPcs, SlotPcs
    <3> QED BY <1>0, <2>3, <3>4, LookingStep
  <2> QED BY <1>6, <2>2, <2>3 DEF CheckAssigned
<1>7. CASE CheckFails(r)
  <2>1. /\ q.pc = "check" /\ q \in StaffingStates /\ StillStands(q)
        /\ RequestGoes(r, [q EXCEPT !.pc = "insert"]) /\ blind' = blind \cup {<<q.slot, q.staff>>}
    BY <1>7, StateOfPc DEF CheckFails, Typed, RequestsTyped, Sound
  <2> PICK to : to = [q EXCEPT !.pc = "insert"]
    OBVIOUS
  <2>2. to.pc = "insert" /\ to.schedule = q.schedule /\ to.slot = q.slot /\ to.staff = q.staff
    BY <2>1 DEF StaffingStates
  <2>3. StillStands(to)'
    BY <1>0, <2>1, <2>2 DEF StillStands, WorkPcs, SlotPcs, Exists
  <2> QED BY <1>0, <2>1, <2>3, LookingStep
<1> QED BY <1>1, <1>2, <1>3, <1>4, <1>5, <1>6, <1>7

\* A step on accounts or announcements is not at work on a schedule.
LEMMA OthersDoNotWork ==
  ASSUME Typed, NEW r \in Requests, AccountStep(r) \/ AnnouncementStep(r)
  PROVE  UNCHANGED request \/ \E to : RequestGoes(r, to) /\ to.pc \notin WorkPcs
<1> PICK q : q = request[r]
  OBVIOUS
<1>1. Idle.pc \notin WorkPcs /\ (Answered(r) => RequestGoes(r, Idle))
  BY DEF Idle, WorkPcs, SlotPcs, Answered
<1>2. ASSUME q \in ResolvingStates \/ q \in LoadingStates, NEW pc \in BusyPcs, Next_(r, pc)
      PROVE  \E to : RequestGoes(r, to) /\ to.pc \notin WorkPcs
  <2>1. [q EXCEPT !.pc = pc].pc = pc
    BY <1>2 DEF ResolvingStates, LoadingStates
  <2>2. pc \notin WorkPcs
    BY DEF BusyPcs, ResolvingPcs, WorkPcs, SlotPcs
  <2> QED BY <1>2, <2>1, <2>2 DEF Next_
<1>3. ASSUME NEW via, NEW i, NEW role, NEW gone, RequestGoes(r, Serving(via, i, role, gone))
      PROVE  \E to : RequestGoes(r, to) /\ to.pc \notin WorkPcs
  BY <1>3 DEF Serving, WorkPcs, SlotPcs
<1>4. ASSUME NEW via, NEW a, NEW role, NEW ys, RequestGoes(r, Resolving("find", via, a, role, ys))
      PROVE  \E to : RequestGoes(r, to) /\ to.pc \notin WorkPcs
  BY <1>4 DEF Resolving, WorkPcs, SlotPcs
<1>5. ASSUME NEW a, LoginArrives(r, a) \/ BearerArrives(r, a) \/ CreateStaff(r, a)
      PROVE  UNCHANGED request \/ \E to : RequestGoes(r, to) /\ to.pc \notin WorkPcs
  BY <1>4, <1>5 DEF LoginArrives, BearerArrives, CreateStaff
<1>6. ASSUME NEW t, NEW via, SessionArrives(r, t, via)
      PROVE  \E to : RequestGoes(r, to) /\ to.pc \notin WorkPcs
  BY <1>6 DEF SessionArrives, WorkPcs, SlotPcs
<1>7. ASSUME NEW i, Logout(r, i) \/ DeleteStaff(r, i)
      PROVE  UNCHANGED request \/ \E to : RequestGoes(r, to) /\ to.pc \notin WorkPcs
  BY <1>1, <1>7 DEF Logout, DeleteStaff
<1>8. q.pc \in ResolvingPcs => q \in ResolvingStates
  BY StateOfPc DEF Typed, RequestsTyped
<1>9. q.pc = "load" => q \in LoadingStates
  BY StateOfPc DEF Typed, RequestsTyped
<1>10. {"create", "role", "years", "version", "open", "csrf"} \subseteq BusyPcs
  BY DEF BusyPcs, ResolvingPcs
<1>11. CASE Find(r) \/ Create(r)
  <2>1. q \in ResolvingStates
    BY <1>8, <1>11 DEF Find, Create, ResolvingPcs
  <2>2. ASSUME NEW i, Resolved(r, i) PROVE \E to : RequestGoes(r, to) /\ to.pc \notin WorkPcs
    <3> PICK to : to = [q EXCEPT !.pc = "role", !.staff = i]
      OBVIOUS
    <3>1. to.pc = "role"
      BY <2>1 DEF ResolvingStates
    <3>2. to.pc \notin WorkPcs
      BY <3>1 DEF WorkPcs, SlotPcs
    <3> QED BY <1>1, <2>2, <3>2 DEF Resolved
  <2> QED BY <1>1, <1>2, <1>10, <1>11, <2>1, <2>2 DEF Find, Create, Next_
<1>12. CASE SetRole(r) \/ AddYears(r) \/ OpenSession(r) \/ StampVersion(r)
  <2>1. q \in ResolvingStates
    BY <1>8, <1>12 DEF SetRole, AddYears, OpenSession, StampVersion, ResolvingPcs
  <2>2. CASE SetRole(r) \/ AddYears(r) \/ OpenSession(r)
    BY <1>1, <1>2, <1>10, <2>1, <2>2 DEF SetRole, AddYears, OpenSession
  <2>3. CASE StampVersion(r)
    <3>1. \/ Answered(r) \/ Next_(r, "open")
          \/ RequestGoes(r, Serving("bearer", q.staff, q.role, q.gone))
      BY <2>3 DEF StampVersion
    <3> QED BY <1>1, <1>2, <1>3, <1>10, <2>1, <3>1
  <2> QED BY <1>12, <2>2, <2>3
<1>13. CASE LoadStaff(r) \/ LoadForReader(r) \/ CheckCSRF(r)
  BY <1>1, <1>2, <1>3, <1>9, <1>10, <1>13 DEF LoadStaff, LoadForReader, CheckCSRF
<1>14. CASE AccountStep(r)
  BY <1>5, <1>6, <1>7, <1>11, <1>12, <1>13, <1>14 DEF AccountStep
<1>15. CASE AnnouncementStep(r)
  <2>1. ASSUME NEW tag, NEW enabled, BeginPublish(r, tag, enabled)
        PROVE  \E to : RequestGoes(r, to) /\ to.pc \notin WorkPcs
    BY <2>1 DEF BeginPublish, WorkPcs, SlotPcs
  <2>2. CASE Publish(r)
    <3> PICK to : to = [pc |-> "hide", announcement |-> NextId(announcement)]
      OBVIOUS
    <3>1. to.pc \notin WorkPcs
      BY DEF WorkPcs, SlotPcs
    <3>2. Answered(r) \/ RequestGoes(r, to)
      BY <2>2 DEF Publish
    <3> QED BY <1>1, <3>1, <3>2
  <2>3. ASSUME NEW n, NEW e, BeginEdit(r, n, e)
        PROVE  \E to : RequestGoes(r, to) /\ to.pc \notin WorkPcs
    BY <2>3 DEF BeginEdit, WorkPcs, SlotPcs
  <2>4. CASE Hide(r) \/ Edit(r) \/ \E n \in AnnouncementIds : Withdraw(r, n)
    BY <1>1, <2>4 DEF Hide, Edit, Withdraw
  <2> QED BY <1>15, <2>1, <2>2, <2>3, <2>4 DEF AnnouncementStep
<1> QED BY <1>14, <1>15

LEMMA SoundElsewhere ==
  ASSUME Typed, Sound, NEW r \in Requests, AccountStep(r) \/ AnnouncementStep(r), UNCHANGED scheduleVars
  PROVE  Sound'
<1>1. \A to : to.pc \notin WorkPcs => StillStands(to)
  BY DEF StillStands, WorkPcs, SlotPcs
<1>2. UNCHANGED <<schedule, slot, assigned, blind>>
  BY DEF scheduleVars
<1> QED BY <1>1, <1>2, OthersDoNotWork, LookingStep

UntilRaced == ~raced => Sound

LEMMA SoundInit == Init => UntilRaced
<1> SUFFICES ASSUME Init PROVE Sound
  BY DEF UntilRaced
<1>1. Min(Dates) \in Dates /\ \A x \in Dates : Min(Dates) <= x
  BY LeastExists, WorkSchedulesAssumption
<1>2. Max(Dates) \in Dates
  <2>1. PICK last \in Dates : \A d \in Dates : last >= d
    BY WorkSchedulesAssumption
  <2> QED BY <2>1 DEF Max
<1>3. \A s \in ScheduleIds : schedule[s] =
        IF s = 1 THEN [start |-> Min(Dates), end |-> Max(Dates), enabled |-> TRUE] ELSE Absent
  BY DEF Init, SchedulesInit
<1>4. Periods
  BY <1>1, <1>2, <1>3 DEF Periods, Exists
<1>5. \A i \in SlotIds : slot[i] = Absent /\ \A st \in StaffIds : assigned[i][st] = 0
  BY DEF Init, SchedulesInit
<1>6. SlotsHaveSchedules /\ AssignedToSlots
  BY <1>5 DEF SlotsHaveSchedules, AssignedToSlots, Exists
<1>7. \A r \in Requests : request[r] = Idle
  BY DEF Init, AccountsInit
<1>8. \A r \in Requests : StillStands(request[r])
  BY <1>7, IdleStands
<1> QED BY <1>4, <1>6, <1>8 DEF Sound

LEMMA SoundNext == Typed /\ UntilRaced /\ [Next]_vars => UntilRaced'
<1> SUFFICES ASSUME Typed, UntilRaced, [Next]_vars, ~raced' PROVE Sound'
  BY DEF UntilRaced
<1>1. ~raced
  <2>1. \A r, s : Changes(r, s) => ~raced
    BY DEF Changes
  <2>2. ASSUME NEW r \in Requests, ScheduleStep(r) PROVE ~raced
    BY <2>1, <2>2 DEF ScheduleStep, CreateSchedule, BeginUpdate, Update, DeleteSchedule, BeginWeekday,
       UpdateWeekday, BeginAdd, FindSlot, NewSlot, CheckAssigned, CheckFails, Insert, BeginRemove, Remove, scheduleVars, historyVars
  <2>3. UNCHANGED scheduleVars => ~raced
    BY DEF scheduleVars
  <2> QED BY <2>2, <2>3 DEF Next, vars
<1>2. Sound
  BY <1>1 DEF UntilRaced
<1>3. CASE UNCHANGED vars
  BY <1>2, <1>3 DEF vars, accountVars, scheduleVars, Sound, Periods, SlotsHaveSchedules, AssignedToSlots,
     StillStands, Exists
<1>4. ASSUME NEW r \in Requests, ScheduleStep(r) PROVE Sound'
  BY <1>2, <1>4, CreateScheduleSound, UpdateSound, DeleteScheduleSound, UpdateWeekdaySound,
     NewSlotSound, AssignedSound, LookingSound DEF ScheduleStep
<1>5. ASSUME NEW r \in Requests, AccountStep(r) \/ AnnouncementStep(r), UNCHANGED scheduleVars PROVE Sound'
  BY <1>2, <1>5, SoundElsewhere
<1>6. ASSUME NEW r \in Requests, End(r), UNCHANGED scheduleVars PROVE Sound'
  BY <1>2, <1>6, IdleStands, LookingStep DEF End, Answered, scheduleVars
<1>7. CASE Deploy /\ UNCHANGED scheduleVars
  <2>1. Periods' /\ SlotsHaveSchedules' /\ AssignedToSlots'
    BY <1>2, <1>7 DEF scheduleVars, Sound, Periods, SlotsHaveSchedules, AssignedToSlots, Exists
  <2>2. \A r \in Requests : request'[r] = Idle
    BY <1>7 DEF Deploy
  <2>3. \A r \in Requests : StillStands(request[r])'
    BY <2>2, IdleStands DEF StillStands, Exists
  <2> QED BY <2>1, <2>3 DEF Sound
<1> QED BY <1>3, <1>4, <1>5, <1>6, <1>7 DEF Next

LEMMA AlwaysSound == Spec => []UntilRaced
  BY SoundInit, SoundNext, AlwaysTyped, PTL DEF Spec

\* As long as no two requests have been at work on the same schedule, every period runs
\* forwards, every slot belongs to a schedule and every assignment to a slot.
THEOREM RosterStaysSound == Spec => []RosterSound
<1>1. UntilRaced => RosterSound
  BY DEF UntilRaced, Sound, Periods, SlotsHaveSchedules, AssignedToSlots, RosterSound
<1> QED BY <1>1, AlwaysSound, PTL
-----------------------------------------------------------------------------
(***************************************************************************)
(* Assignments that AddStaff makes: those a slot has, and those that       *)
(* requests which found none are about to insert, are never more than the  *)
(* requests.  Nobody is about to insert for a slot that is not made yet.   *)
(***************************************************************************)
Inserting(i, st) ==
  {r \in Requests : request[r].pc = "insert" /\ request[r].slot = i /\ request[r].staff = st}

Room(i, st) ==
  \/ <<i, st>> \in blind
  \/ Inserting(i, st) = {}
  \/ assigned[i][st] + Cardinality(Inserting(i, st)) <= Cardinality(Requests)

SlotMade(q) == q.pc \in SlotPcs => slot[q.slot] # Absent

AddsInv ==
  /\ \A r \in Requests : SlotMade(request[r])
  /\ \A i \in SlotIds, st \in StaffIds : Room(i, st)

LEMMA InsertingCounted ==
  ASSUME NEW U, U \subseteq Requests
  PROVE  /\ IsFiniteSet(U) /\ Cardinality(U) \in Nat /\ Cardinality(Requests) \in Nat
         /\ Cardinality(U) <= Cardinality(Requests)
         /\ \A V : V \subseteq U => Cardinality(V) \in Nat /\ Cardinality(V) <= Cardinality(U)
  BY AccountsAssumption, FS_Subset, FS_CardinalityType

\* A step keeps the slots that were made, and makes no assignment to one of them.
SlotsStay == \A i \in SlotIds : slot[i] # Absent => slot'[i] # Absent

NoneMade ==
  \A i \in SlotIds, st \in StaffIds : slot[i] # Absent => assigned'[i][st] <= assigned[i][st]

LEMMA NothingAdded ==
  ASSUME Typed, Typed', AddsInv,
         SlotsStay,
         NoneMade,
         blind \subseteq blind',
         \A r \in Requests :
           \/ request'[r] = request[r]
           \/ /\ request'[r].pc # "insert"
              /\ request'[r].pc \in SlotPcs => slot'[request'[r].slot] # Absent
  PROVE  AddsInv'
<1>1. ASSUME NEW r \in Requests PROVE SlotMade(request[r])'
  <2>1. CASE request'[r] = request[r]
    <3>1. SlotMade(request[r]) /\ (request[r].pc \in SlotPcs => request[r].slot \in SlotIds)
      BY AtWorkTyped DEF AddsInv, Typed, RequestsTyped
    <3> QED BY <2>1, <3>1 DEF SlotMade, SlotsStay
  <2>2. CASE request'[r].pc \in SlotPcs => slot'[request'[r].slot] # Absent
    BY <2>2 DEF SlotMade
  <2> QED BY <2>1, <2>2
<1>2. ASSUME NEW i \in SlotIds, NEW st \in StaffIds PROVE Room(i, st)'
  <2> PICK old, new : old = Inserting(i, st) /\ new = Inserting(i, st)'
    OBVIOUS
  <2>1. new \subseteq old /\ old \subseteq Requests
    BY DEF Inserting
  <2>2. slot[i] = Absent => old = {}
    BY DEF Inserting, AddsInv, SlotMade, SlotPcs
  <2>3. CASE slot[i] # Absent
    <3>1. assigned[i][st] \in Nat /\ assigned'[i][st] \in Nat /\ assigned'[i][st] <= assigned[i][st]
      BY <2>3 DEF Typed, SchedulesTyped, NoneMade
    <3>2. /\ Cardinality(new) \in Nat /\ Cardinality(old) \in Nat
          /\ Cardinality(new) <= Cardinality(old) /\ Cardinality(Requests) \in Nat
      BY <2>1, InsertingCounted
    <3>3. \/ <<i, st>> \in blind \/ old = {}
          \/ assigned[i][st] + Cardinality(old) <= Cardinality(Requests)
      BY DEF AddsInv, Room
    <3>4. \/ <<i, st>> \in blind' \/ new = {}
          \/ assigned'[i][st] + Cardinality(new) <= Cardinality(Requests)
      <4>1. CASE <<i, st>> \in blind \/ old = {}
        BY <2>1, <4>1
      <4>2. CASE assigned[i][st] + Cardinality(old) <= Cardinality(Requests)
        BY <3>1, <3>2, <4>2
      <4> QED BY <3>3, <4>1, <4>2
    <3> QED BY <3>4 DEF Room
  <2>4. CASE slot[i] = Absent
    <3>1. new = {}
      BY <2>1, <2>2, <2>4
    <3> QED BY <3>1 DEF Room
  <2> QED BY <2>3, <2>4
<1> QED BY <1>1, <1>2 DEF AddsInv

\* One request goes on without making an assignment.
LEMMA OneGoesOn ==
  ASSUME Typed, Typed', AddsInv, NEW r \in Requests, NEW to, RequestGoes(r, to),
         to.pc # "insert", SlotMade(to)',
         SlotsStay,
         NoneMade,
         blind \subseteq blind'
  PROVE  AddsInv' /\ NoneMade
<1>1. request'[r] = to /\ \A q \in Requests \ {r} : request'[q] = request[q]
  BY RequestMoves DEF Typed
<1>2. ASSUME NEW q \in Requests
      PROVE  \/ request'[q] = request[q]
             \/ /\ request'[q].pc # "insert"
                /\ request'[q].pc \in SlotPcs => slot'[request'[q].slot] # Absent
  <2>1. CASE q = r
    BY <1>1, <2>1 DEF SlotMade
  <2>2. CASE q # r
    BY <1>1, <2>2
  <2> QED BY <2>1, <2>2
<1> QED BY <1>2, NothingAdded

LEMMA IdleMakesNothing == Idle.pc # "insert" /\ SlotMade(Idle)'
  BY DEF Idle, SlotMade, SlotPcs

\* Slots are replaced: new ones come with their assignments, the others lose theirs.
LEMMA ReplacedAdds ==
  ASSUME SchedulesTyped, NEW old, NEW s \in ScheduleIds, NEW week, week \in Weeks \/ week = <<>>,
         ReplaceSlots(old, s, week)
  PROVE  /\ SlotsStay
         /\ NoneMade
<1> SUFFICES ASSUME NEW i \in SlotIds, slot[i] # Absent
             PROVE  /\ slot'[i] # Absent
                    /\ \A st \in StaffIds : assigned'[i][st] <= assigned[i][st]
  BY DEF SlotsStay, NoneMade
<1>1. ~IsNew(i, week)
  BY EmptyWeekNew, PlaceOfNew
<1>2. slot'[i] = IF i \in old THEN Deleted ELSE slot[i]
  BY <1>1 DEF ReplaceSlots
<1>3. slot'[i] # Absent
  BY <1>2, AccountsAssumption
<1>4. ASSUME NEW st \in StaffIds PROVE assigned'[i][st] <= assigned[i][st]
  <2>1. assigned'[i][st] = IF i \in old THEN 0 ELSE assigned[i][st]
    BY <1>1 DEF ReplaceSlots
  <2>2. assigned[i][st] \in Nat
    BY DEF SchedulesTyped
  <2> QED BY <2>1, <2>2
<1> QED BY <1>3, <1>4

LEMMA SlotAddedAdds ==
  ASSUME SchedulesTyped, NEW s \in ScheduleIds, NEW place \in Places, AddSlot(s, place)
  PROVE  /\ SlotsStay
         /\ slot'[NextId(slot)] # Absent
<1> PICK n, row : n = NextId(slot) /\ row = [schedule |-> s, place |-> place]
  OBVIOUS
<1>1. n \in SlotIds /\ slot' = [slot EXCEPT ![n] = row] /\ row \in SlotRows
  BY SlotAdded DEF SlotRows
<1>2. row # Absent
  BY <1>1, WorkSchedulesAssumption
<1> QED BY <1>1, <1>2 DEF SchedulesTyped, SlotsStay

\* What leaves slots and assignments alone.
LEMMA AsBefore ==
  ASSUME Typed, UNCHANGED <<slot, assigned>>
  PROVE  /\ SlotsStay
         /\ NoneMade
<1>1. \A i \in SlotIds, st \in StaffIds : assigned[i][st] \in Nat
  BY DEF Typed, SchedulesTyped
<1>2. \A n \in Nat : n <= n
  OBVIOUS
<1> QED BY <1>1, <1>2 DEF SlotsStay, NoneMade

LEMMA PeriodsAdd ==
  ASSUME Typed, Typed', AddsInv, NEW r \in Requests,
         CreateSchedule(r) \/ Update(r) \/ (\E s \in ScheduleIds : DeleteSchedule(r, s))
           \/ (\E place \in Places : UpdateWeekday(r, place))
  PROVE  AddsInv' /\ NoneMade
<1>0. SchedulesTyped
  BY DEF Typed
<1>1. RequestGoes(r, Idle) /\ UNCHANGED blind
  BY DEF CreateSchedule, Update, DeleteSchedule, UpdateWeekday, Answered, historyVars
<1>2. CASE \E old, week : \E s \in ScheduleIds :
             (week \in Weeks \/ week = <<>>) /\ ReplaceSlots(old, s, week)
  BY <1>0, <1>1, <1>2, ReplacedAdds, IdleMakesNothing, OneGoesOn
<1>3. CASE UNCHANGED <<slot, assigned>>
  BY <1>1, <1>3, AsBefore, IdleMakesNothing, OneGoesOn
<1>4. CASE CreateSchedule(r)
  <2>1. NextId(schedule) \in ScheduleIds
    BY <1>0, <1>4, NextIdUnused, WorkSchedulesAssumption DEF CreateSchedule, SchedulesTyped
  <2> QED BY <1>2, <1>4, <2>1 DEF CreateSchedule
<1>5. CASE Update(r)
  <2> PICK s : s = request[r].schedule
    OBVIOUS
  <2>1. s \in ScheduleIds
    BY <1>5, StateOfPc DEF Update, UpdateStates, Typed, RequestsTyped
  <2>2. PICK u \in Updates : IF u.week = Keep THEN UNCHANGED <<slot, assigned>>
                             ELSE ReplaceSlots(SlotsOf(s), s, u.week)
    BY <1>5 DEF Update
  <2>3. u.week \in Weeks \cup {Keep}
    BY DEF Updates
  <2> QED BY <1>2, <1>3, <2>1, <2>2, <2>3
<1>6. ASSUME NEW s \in ScheduleIds, DeleteSchedule(r, s) PROVE AddsInv' /\ NoneMade
  BY <1>2, <1>6 DEF DeleteSchedule, SlotsDeleted
<1>7. ASSUME NEW place \in Places, UpdateWeekday(r, place) PROVE AddsInv' /\ NoneMade
  <2> PICK s : s = request[r].schedule
    OBVIOUS
  <2>1. s \in ScheduleIds
    BY <1>7, StateOfPc DEF UpdateWeekday, WeekdayStates, Typed, RequestsTyped
  <2>2. UNCHANGED assigned /\ (AddSlot(s, place) \/ UNCHANGED slot)
    BY <1>7 DEF UpdateWeekday
  <2>3. CASE AddSlot(s, place)
    <3>1. NoneMade
      <4>1. \A i \in SlotIds, st \in StaffIds : assigned[i][st] \in Nat
        BY <1>0 DEF SchedulesTyped
      <4> QED BY <2>2, <4>1 DEF NoneMade
    <3> QED BY <1>0, <1>1, <2>1, <2>3, <3>1, SlotAddedAdds, IdleMakesNothing, OneGoesOn
  <2> QED BY <1>3, <2>2, <2>3
<1> QED BY <1>4, <1>5, <1>6, <1>7

LEMMA BeginningsAdd ==
  ASSUME Typed, Typed', AddsInv, NEW r \in Requests,
         \/ \E s \in ScheduleIds : BeginUpdate(r, s) \/ BeginWeekday(r, s)
         \/ \E s \in ScheduleIds, st \in StaffIds, place \in Places : BeginAdd(r, s, st, place)
         \/ \E i \in SlotIds, st \in StaffIds : BeginRemove(r, i, st)
  PROVE  AddsInv' /\ NoneMade
<1>0. UNCHANGED <<slot, assigned, blind>>
  BY DEF BeginUpdate, BeginWeekday, BeginAdd, BeginRemove, scheduleVars
<1> SUFFICES \E to : RequestGoes(r, to) /\ to.pc # "insert" /\ SlotMade(to)'
  BY <1>0, AsBefore, OneGoesOn
<1>1. ASSUME NEW s \in ScheduleIds, BeginUpdate(r, s)
      PROVE  \E to : RequestGoes(r, to) /\ to.pc # "insert" /\ SlotMade(to)'
  BY <1>1 DEF BeginUpdate, SlotMade, SlotPcs
<1>2. ASSUME NEW s \in ScheduleIds, BeginWeekday(r, s)
      PROVE  \E to : RequestGoes(r, to) /\ to.pc # "insert" /\ SlotMade(to)'
  BY <1>2 DEF BeginWeekday, SlotMade, SlotPcs
<1>3. ASSUME NEW s, NEW st, NEW place, BeginAdd(r, s, st, place)
      PROVE  \E to : RequestGoes(r, to) /\ to.pc # "insert" /\ SlotMade(to)'
  BY <1>3 DEF BeginAdd, SlotMade, SlotPcs
<1>4. ASSUME NEW i, NEW st, BeginRemove(r, i, st)
      PROVE  \E to : RequestGoes(r, to) /\ to.pc # "insert" /\ SlotMade(to)'
  <2> PICK to : to = [pc |-> "remove", schedule |-> slot[i].schedule, staff |-> st,
                      place |-> slot[i].place, slot |-> i]
    OBVIOUS
  <2>1. RequestGoes(r, to) /\ slot'[i] # Absent
    BY <1>0, <1>4 DEF BeginRemove, Exists
  <2>2. SlotMade(to)'
    BY <2>1 DEF SlotMade
  <2> QED BY <2>1, <2>2
<1> QED BY <1>1, <1>2, <1>3, <1>4

LEMMA FindingAdds ==
  ASSUME Typed, Typed', AddsInv, NEW r \in Requests, FindSlot(r) \/ NewSlot(r)
  PROVE  AddsInv' /\ NoneMade
<1> PICK q, s : q = request[r] /\ s = q.schedule
  OBVIOUS
<1>1. q \in StaffingStates /\ s \in ScheduleIds /\ q.place \in Places
  <2>1. q \in StaffingStates
    BY StateOfPc DEF FindSlot, NewSlot, Typed, RequestsTyped
  <2> QED BY <2>1 DEF StaffingStates
<1>2. \A i : /\ [q EXCEPT !.pc = "check", !.slot = i].pc = "check"
             /\ [q EXCEPT !.pc = "check", !.slot = i].slot = i
  BY <1>1 DEF StaffingStates
<1>3. [q EXCEPT !.pc = "new_slot"].pc = "new_slot"
  BY <1>1 DEF StaffingStates
<1>4. ASSUME NEW i, slot'[i] # Absent PROVE SlotMade([q EXCEPT !.pc = "check", !.slot = i])'
  BY <1>2, <1>4 DEF SlotMade
<1>5. CASE FindSlot(r)
  <2>1. UNCHANGED <<slot, assigned, blind>>
    BY <1>5 DEF FindSlot, scheduleVars
  <2>2. ASSUME NEW i \in SlotsOf(s), RequestGoes(r, [q EXCEPT !.pc = "check", !.slot = i])
        PROVE  AddsInv' /\ NoneMade
    <3>1. slot'[i] # Absent
      BY <2>1 DEF SlotsOf, Exists
    <3> QED BY <1>2, <1>4, <2>1, <2>2, <3>1, AsBefore, OneGoesOn
  <2>3. CASE RequestGoes(r, [q EXCEPT !.pc = "new_slot"])
    <3>1. SlotMade([q EXCEPT !.pc = "new_slot"])'
      BY <1>3 DEF SlotMade, SlotPcs
    <3> QED BY <1>3, <2>1, <2>3, <3>1, AsBefore, OneGoesOn
  <2> PICK here : here = SlotsAt(s, q.place)
    OBVIOUS
  <2>4. here # {} => Min(here) \in SlotsOf(s)
    BY LeastExists, WorkSchedulesAssumption DEF SlotsAt, SlotsOf
  <2> QED BY <1>5, <2>2, <2>3, <2>4 DEF FindSlot
<1>6. CASE NewSlot(r)
  <2> PICK i, to : i = NextId(slot) /\ to = [q EXCEPT !.pc = "check", !.slot = i]
    OBVIOUS
  <2>1. AddSlot(s, q.place) /\ RequestGoes(r, to) /\ UNCHANGED <<assigned, blind>>
    BY <1>6 DEF NewSlot
  <2>2. slot'[i] # Absent /\ SlotsStay
    BY <1>1, <2>1, SlotAddedAdds DEF Typed
  <2>3. NoneMade
    <3>1. \A x \in SlotIds, st \in StaffIds : assigned[x][st] \in Nat
      BY DEF Typed, SchedulesTyped
    <3> QED BY <2>1, <3>1 DEF NoneMade
  <2> QED BY <1>2, <1>4, <2>1, <2>2, <2>3, OneGoesOn
<1> QED BY <1>5, <1>6

LEMMA RemovingAdds ==
  ASSUME Typed, Typed', AddsInv, NEW r \in Requests, Remove(r)
  PROVE  AddsInv' /\ NoneMade
<1> PICK i, st : i = request[r].slot /\ st = request[r].staff
  OBVIOUS
<1>1. /\ assigned' = [assigned EXCEPT ![i][st] = 0]
      /\ RequestGoes(r, Idle) /\ UNCHANGED <<slot, blind>>
  BY DEF Remove, Answered
<1>2. \A x \in SlotIds, y \in StaffIds :
        assigned[x][y] \in Nat /\ (assigned'[x][y] = 0 \/ assigned'[x][y] = assigned[x][y])
  BY <1>1 DEF Typed, SchedulesTyped
<1>3. \A n \in Nat : 0 <= n /\ n <= n
  OBVIOUS
<1>4. NoneMade
  BY <1>2, <1>3 DEF NoneMade
<1>5. SlotsStay
  BY <1>1 DEF SlotsStay
<1> QED BY <1>1, <1>4, <1>5, IdleMakesNothing, OneGoesOn

\* A request that found no assignment, or whose look failed, goes on to insert one.
LEMMA CheckingAdds ==
  ASSUME Typed, Typed', AddsInv, NEW r \in Requests, CheckAssigned(r) \/ CheckFails(r)
  PROVE  AddsInv' /\ NoneMade
<1> PICK q, i, st : q = request[r] /\ i = q.slot /\ st = q.staff
  OBVIOUS
<1>1. q.pc = "check" /\ UNCHANGED <<slot, assigned>> /\ blind \subseteq blind'
  BY DEF CheckAssigned, CheckFails, scheduleVars
<1>2. q \in StaffingStates /\ i \in SlotIds /\ st \in StaffIds /\ slot[i] # Absent
  BY <1>1, StateOfPc, AtWorkTyped DEF Typed, RequestsTyped, AddsInv, SlotMade, SlotPcs
<1>3. CASE Answered(r)
  BY <1>1, <1>3, AsBefore, IdleMakesNothing, OneGoesOn DEF Answered
<1>4. CASE RequestGoes(r, [q EXCEPT !.pc = "insert"]) /\ (assigned[i][st] = 0 \/ <<i, st>> \in blind')
  <2> PICK to : to = [q EXCEPT !.pc = "insert"]
    OBVIOUS
  <2>1. to.pc = "insert" /\ to.slot = i /\ to.staff = st
    BY <1>2 DEF StaffingStates
  <2>2. request'[r] = to /\ \A x \in Requests \ {r} : request'[x] = request[x]
    BY <1>4, RequestMoves DEF Typed
  <2>3. ASSUME NEW x \in Requests PROVE SlotMade(request[x])'
    <3>1. CASE x = r
      BY <1>1, <1>2, <2>1, <2>2, <3>1 DEF SlotMade
    <3>2. CASE x # r
      BY <1>1, <2>2, <3>2 DEF SlotMade, AddsInv
    <3> QED BY <3>1, <3>2
  <2>4. ASSUME NEW x \in SlotIds, NEW y \in StaffIds PROVE Room(x, y)'
    <3>1. CASE x = i /\ y = st
      <4> PICK new : new = Inserting(x, y)'
        OBVIOUS
      <4>1. Cardinality(new) \in Nat /\ Cardinality(new) <= Cardinality(Requests)
        BY InsertingCounted DEF Inserting
      <4>2. CASE <<i, st>> \in blind'
        BY <3>1, <4>2 DEF Room
      <4>3. CASE assigned[i][st] = 0
        <5>1. assigned'[x][y] + Cardinality(new) <= Cardinality(Requests)
          BY <1>1, <3>1, <4>1, <4>3
        <5> QED BY <5>1 DEF Room
      <4> QED BY <1>4, <4>2, <4>3
    <3>2. CASE ~(x = i /\ y = st)
      <4>1. q.pc # "insert" /\ ~(to.slot = x /\ to.staff = y)
        BY <1>1, <2>1, <3>2
      <4>2. Inserting(x, y)' = Inserting(x, y)
        BY <2>2, <4>1 DEF Inserting
      <4> QED BY <1>1, <4>2 DEF Room, AddsInv
    <3> QED BY <3>1, <3>2
  <2> QED BY <1>1, <2>3, <2>4, AsBefore DEF AddsInv
<1>5. assigned[i][st] \in Nat
  BY <1>2 DEF Typed, SchedulesTyped
<1>6. CASE CheckAssigned(r)
  <2>1. Answered(r) \/ (RequestGoes(r, [q EXCEPT !.pc = "insert"]) /\ ~(assigned[i][st] > 0))
    BY <1>6 DEF CheckAssigned
  <2>2. ~(assigned[i][st] > 0) => assigned[i][st] = 0
    BY <1>5
  <2> QED BY <1>3, <1>4, <2>1, <2>2
<1>7. CASE CheckFails(r)
  BY <1>4, <1>7 DEF CheckFails
<1> QED BY <1>6, <1>7

\* The insert takes the place of the request that made it.
LEMMA InsertAdds ==
  ASSUME Typed, Typed', AddsInv, NEW r \in Requests, Insert(r)
  PROVE  AddsInv' /\ MadeAtMost(Cardinality(Requests))
<1> PICK q, i, st : q = request[r] /\ i = q.slot /\ st = q.staff
  OBVIOUS
<1> PICK m : m = assigned[i][st] + 1
  OBVIOUS
<1>1. /\ q.pc = "insert" /\ assigned' = [assigned EXCEPT ![i][st] = m]
      /\ RequestGoes(r, Idle) /\ UNCHANGED <<slot, blind>>
  BY DEF Insert, Answered
<1>2. i \in SlotIds /\ st \in StaffIds
  BY <1>1, AtWorkTyped DEF Typed, RequestsTyped, SlotPcs
<1>3. \A x \in SlotIds, y \in StaffIds :
        assigned'[x][y] = IF x = i /\ y = st THEN m ELSE assigned[x][y]
  BY <1>1, <1>2 DEF Typed, SchedulesTyped
<1>4. request'[r] = Idle /\ \A x \in Requests \ {r} : request'[x] = request[x]
  BY <1>1, RequestMoves DEF Typed
<1>5. Idle.pc = "idle"
  BY DEF Idle
<1> PICK old, new : old = Inserting(i, st) /\ new = Inserting(i, st)'
  OBVIOUS
<1>6. r \in old /\ old \subseteq Requests /\ new = old \ {r}
  BY <1>1, <1>4, <1>5 DEF Inserting
<1>7. Cardinality(old) \in Nat /\ Cardinality(new) = Cardinality(old) - 1 /\ Cardinality(new) \in Nat
  BY <1>6, InsertingCounted, FS_RemoveElement
<1>8. assigned[i][st] \in Nat /\ Cardinality(Requests) \in Nat
  BY <1>2, InsertingCounted DEF Typed, SchedulesTyped
<1>9. <<i, st>> \in blind \/ assigned[i][st] + Cardinality(old) <= Cardinality(Requests)
  BY <1>2, <1>6 DEF AddsInv, Room
<1>10. ASSUME NEW x \in Requests PROVE SlotMade(request[x])'
  <2>1. CASE x = r
    BY <1>4, <1>5, <2>1 DEF SlotMade, SlotPcs
  <2>2. CASE x # r
    BY <1>1, <1>4, <2>2 DEF SlotMade, AddsInv
  <2> QED BY <2>1, <2>2
<1>11. ASSUME NEW x \in SlotIds, NEW y \in StaffIds PROVE Room(x, y)'
  <2>1. CASE x = i /\ y = st
    <3>1. <<i, st>> \in blind' \/ assigned'[i][st] + Cardinality(new) <= Cardinality(Requests)
      <4>1. assigned'[i][st] = assigned[i][st] + 1
        BY <1>2, <1>3
      <4> QED BY <1>1, <1>7, <1>8, <1>9, <4>1
    <3> QED BY <2>1, <3>1 DEF Room
  <2>2. CASE ~(x = i /\ y = st)
    <3>1. Inserting(x, y)' = Inserting(x, y)
      BY <1>1, <1>4, <1>5, <2>2 DEF Inserting
    <3>2. assigned'[x][y] = assigned[x][y]
      BY <1>3, <2>2
    <3> QED BY <1>1, <3>1, <3>2 DEF Room, AddsInv
  <2> QED BY <2>1, <2>2
<1>12. ASSUME NEW x \in SlotIds, NEW y \in StaffIds,
              assigned'[x][y] > assigned[x][y], <<x, y>> \notin blind
       PROVE  assigned'[x][y] <= Cardinality(Requests)
  <2>1. assigned[x][y] \in Nat
    BY DEF Typed, SchedulesTyped
  <2>2. x = i /\ y = st /\ assigned'[x][y] = assigned[i][st] + 1
    BY <1>3, <1>12, <2>1
  <2> QED BY <1>7, <1>8, <1>9, <1>12, <2>2
<1> QED BY <1>10, <1>11, <1>12 DEF AddsInv, MadeAtMost

\* No other step makes an assignment.
LEMMA OtherStepsAdd ==
  ASSUME Typed, Typed', AddsInv, [Next]_vars, ~(\E r \in Requests : Insert(r))
  PROVE  AddsInv' /\ NoneMade
<1>1. UNCHANGED scheduleVars => SlotsStay /\ NoneMade /\ blind \subseteq blind'
  BY AsBefore DEF scheduleVars
<1>2. CASE UNCHANGED vars
  <2>1. UNCHANGED scheduleVars /\ UNCHANGED request
    BY <1>2 DEF vars, accountVars
  <2> QED BY <1>1, <2>1, NothingAdded
<1>3. ASSUME NEW r \in Requests, ScheduleStep(r) PROVE AddsInv' /\ NoneMade
  <2>1. ~Insert(r)
    OBVIOUS
  <2> QED BY <1>3, <2>1, PeriodsAdd, BeginningsAdd, FindingAdds, CheckingAdds, RemovingAdds DEF ScheduleStep
<1>4. ASSUME NEW r \in Requests, AccountStep(r) \/ AnnouncementStep(r), UNCHANGED scheduleVars
      PROVE  AddsInv' /\ NoneMade
  <2>1. CASE UNCHANGED request
    BY <1>1, <1>4, <2>1, NothingAdded
  <2>2. CASE \E to : RequestGoes(r, to) /\ to.pc \notin WorkPcs
    <3>1. PICK to : RequestGoes(r, to) /\ to.pc \notin WorkPcs
      BY <2>2
    <3>2. to.pc # "insert" /\ SlotMade(to)'
      BY <3>1 DEF WorkPcs, SlotPcs, SlotMade
    <3> QED BY <1>1, <1>4, <3>1, <3>2, OneGoesOn
  <2> QED BY <1>4, <2>1, <2>2, OthersDoNotWork
<1>5. ASSUME NEW r \in Requests, End(r), UNCHANGED scheduleVars PROVE AddsInv' /\ NoneMade
  BY <1>1, <1>5, IdleMakesNothing, OneGoesOn DEF End, Answered
<1>6. CASE Deploy /\ UNCHANGED scheduleVars
  <2>1. \A r \in Requests : request'[r] = Idle
    BY <1>6 DEF Deploy
  <2>2. Idle.pc = "idle"
    BY DEF Idle
  <2>3. \A r \in Requests : request'[r].pc # "insert" /\ request'[r].pc \notin SlotPcs
    BY <2>1, <2>2 DEF SlotPcs
  <2> QED BY <1>1, <1>6, <2>3, NothingAdded
<1> QED BY <1>2, <1>3, <1>4, <1>5, <1>6 DEF Next

LEMMA AddsInvInit == Init => AddsInv
<1> SUFFICES ASSUME Init PROVE AddsInv
  OBVIOUS
<1>1. \A r \in Requests : request[r] = Idle
  BY DEF Init, AccountsInit
<1>2. Idle.pc = "idle"
  BY DEF Idle
<1> QED BY <1>1, <1>2 DEF AddsInv, SlotMade, SlotPcs, Room, Inserting

LEMMA AddsInvNext == Typed /\ Typed' /\ AddsInv /\ [Next]_vars => AddsInv'
  BY InsertAdds, OtherStepsAdd

\* Without an overlap the look of the request that inserts still stands.
LEMMA AloneAddsOne ==
  ASSUME Typed, Sound, NEW r \in Requests, Insert(r)
  PROVE  MadeAtMost(1)
<1> PICK q, i, st : q = request[r] /\ i = q.slot /\ st = q.staff
  OBVIOUS
<1> PICK m : m = assigned[i][st] + 1
  OBVIOUS
<1>1. q.pc = "insert" /\ assigned' = [assigned EXCEPT ![i][st] = m]
  BY DEF Insert
<1>2. i \in SlotIds /\ st \in StaffIds
  BY <1>1, AtWorkTyped DEF Typed, RequestsTyped, SlotPcs
<1>3. <<i, st>> \in blind \/ assigned[i][st] = 0
  BY <1>1 DEF Sound, StillStands
<1>4. \A x \in SlotIds, y \in StaffIds :
        /\ assigned'[x][y] = IF x = i /\ y = st THEN m ELSE assigned[x][y]
        /\ assigned[x][y] \in Nat
  BY <1>1, <1>2 DEF Typed, SchedulesTyped
<1> SUFFICES ASSUME NEW x \in SlotIds, NEW y \in StaffIds,
                    assigned'[x][y] > assigned[x][y], <<x, y>> \notin blind
             PROVE  assigned'[x][y] <= 1
  BY DEF MadeAtMost
<1>5. x = i /\ y = st /\ assigned'[x][y] = m
  BY <1>4
<1> QED BY <1>3, <1>5

LEMMA AddsStep ==
  ASSUME Typed, Typed', UntilRaced, AddsInv, [Next]_vars
  PROVE  MadeAtMost(IF raced' THEN Cardinality(Requests) ELSE 1)
<1>1. CASE ~(\E r \in Requests : Insert(r))
  <2>1. NoneMade
    BY <1>1, OtherStepsAdd
  <2>2. ASSUME NEW i \in SlotIds, NEW st \in StaffIds, Exists(slot, i)
        PROVE  ~(assigned'[i][st] > assigned[i][st])
    <3>1. assigned'[i][st] <= assigned[i][st]
      BY <2>1, <2>2 DEF NoneMade, Exists
    <3>2. assigned[i][st] \in Nat /\ assigned'[i][st] \in Nat
      BY DEF Typed, SchedulesTyped
    <3> QED BY <3>1, <3>2
  <2> QED BY <2>2 DEF MadeAtMost
<1>2. ASSUME NEW r \in Requests, Insert(r)
      PROVE  MadeAtMost(IF raced' THEN Cardinality(Requests) ELSE 1)
  <2>1. CASE raced'
    BY <1>2, <2>1, InsertAdds
  <2>2. CASE ~raced'
    <3>1. ~raced
      BY <1>2, <2>2 DEF Insert, Changes
    <3> QED BY <1>2, <2>2, <3>1, AloneAddsOne DEF UntilRaced
  <2> QED BY <2>1, <2>2
<1> QED BY <1>1, <1>2

\* However requests overlap, AddStaff makes no more assignments of a staff member to a
\* slot than requests are served at a time, and one while no requests have overlapped on a
\* schedule, unless a look at the assignments has failed and was taken for "none".
THEOREM AddsStayBounded == Spec => AddsBounded
<1>1. Init => AddsInv
  BY AddsInvInit
<1>2. Typed /\ Typed' /\ AddsInv /\ [Next]_vars => AddsInv'
  BY AddsInvNext
<1>3. Typed /\ Typed' /\ UntilRaced /\ AddsInv /\ [Next]_vars
        => [MadeAtMost(IF raced' THEN Cardinality(Requests) ELSE 1)]_scheduleVars
  BY AddsStep
<1> QED BY <1>1, <1>2, <1>3, AlwaysTyped, AlwaysSound, PTL DEF Spec, AddsBounded
=============================================================================
