------------------------------ MODULE Accounts ------------------------------
(***************************************************************************)
(* Staff accounts, logins and sessions: staff/service/staff_service.go,    *)
(* auth/service/session_service.go and the handlers that use them          *)
(* (cas_auth.go, keycloak_auth.go, admin_auth.go, staff_handler.go).       *)
(*                                                                         *)
(* A step is one statement on the database, with what the handler decides  *)
(* on its result.  The identity provider is external.  A request that has  *)
(* been authorised is in state "serve"; what the services do for it is     *)
(* modelled in the modules that extend this one.                           *)
(***************************************************************************)
EXTENDS Naturals, FiniteSets, FiniteSetsExt

CONSTANTS
  Accounts,     \* account names of the identity provider
  Groups,       \* for each account, the answers the provider may give: the role
                \* and the work years that its groups stand for
  StaffIds,     \* primary keys of clinic_staff, handed out in increasing order
  Tokens,       \* session tokens, each drawn once
  Requests,     \* requests being served at the same time
  NoRole,       \* determineRole: ""
  Absent,       \* no row yet
  Deleted,      \* no row any more
  Keep,         \* a field that a request leaves out
  MaxVersion,   \* bound on STAFF_VERSION
  MaxRequests   \* bound on the number of requests

Roles == {"admin", "staff"}

StaffRows == [account : Accounts, role : Roles \cup {NoRole}, version : 0..MaxVersion]

SessionRows == [staff : StaffIds, role : Roles]

ASSUME AccountsAssumption ==
  /\ StaffIds \subseteq Nat \ {0} /\ 1 \in StaffIds
  /\ \A a \in Accounts : \A g \in Groups[a] : g.role \in Roles \cup {NoRole}
  /\ NoRole \notin Roles
  /\ Absent # Deleted /\ {Absent, Deleted} \cap (StaffRows \cup SessionRows) = {}
  /\ MaxVersion \in Nat /\ MaxRequests \in Nat /\ IsFiniteSet(Requests)

VARIABLES
  staff,      \* table clinic_staff
  years,      \* table clinic_staff_workyear
  session,    \* table auth_session
  required,   \* STAFF_VERSION of the running process
  stamped,    \* history: staff that logged in since it was last raised
  request,    \* where each request is
  served      \* requests so far

tableVars == <<staff, years, session>>
processVars == <<required, stamped>>
accountVars == <<staff, years, session, required, stamped, request, served>>
-----------------------------------------------------------------------------
Idle == [pc |-> "idle"]

RequestGoes(r, to) == request' = [request EXCEPT ![r] = to]

Answered(r) == RequestGoes(r, Idle)

Exists(table, i) == table[i] \notin {Absent, Deleted}

Unused(table) == {i \in DOMAIN table : table[i] = Absent}

Given(value, old) == IF value = Keep THEN old ELSE value

LowestFree(table) == Min({i \in DOMAIN table : ~Exists(table, i)})

\* The primary key of the next row: auto-increment keys are not used again.
NextId(table) == Min(Unused(table))

StaffOf(a) == {i \in StaffIds : Exists(staff, i) /\ staff[i].account = a}

Gone == {i \in StaffIds : staff[i] = Deleted}

\* handleSession: the login version of the staff row is the configured one.
VersionAtMost(i) == staff[i].version <= required
VersionCurrent(i) == staff[i].version = required

\* Get finds the session as long as it has not expired.  There is no clock: a
\* session that has expired is one that is not used again.
Usable(t) == Exists(session, t)

\* DeleteExpired removes the sessions that have expired, whichever they are.
Purged(expired) == [t \in Tokens |-> IF t \in expired THEN Deleted ELSE session[t]]

\* SessionService.Delete.
Without(t) == [session EXCEPT ![t] = Deleted]

\* Resolving an account: by a CAS login, for a bearer token, or by an admin who
\* creates a staff member.
Resolving(pc, via, a, role, ys) ==
  [pc |-> pc, via |-> via, account |-> a, role |-> role, years |-> ys, staff |-> 0, gone |-> Gone]

Serving(via, i, role, gone) == [pc |-> "serve", via |-> via, staff |-> i, role |-> role, gone |-> gone]

WorkYears == UNION {g.years : g \in UNION {Groups[a] : a \in Accounts}}

ResolvingStates ==
  [pc : {"find", "create", "role", "years", "version", "open"},
   via : {"cas", "bearer", "admin"}, account : Accounts, role : Roles \cup {NoRole},
   years : SUBSET WorkYears, staff : StaffIds \cup {0}, gone : SUBSET StaffIds]

LoadingStates ==
  [pc : {"load", "csrf"}, via : {"session", "optional"}, token : Tokens,
   staff : StaffIds, role : Roles, gone : SUBSET StaffIds]

ServingStates ==
  [pc : {"serve"}, via : {"session", "bearer"}, staff : StaffIds, role : Roles,
   gone : SUBSET StaffIds]

AuthStates == {Idle} \cup ResolvingStates \cup LoadingStates \cup ServingStates
-----------------------------------------------------------------------------
\* A clinic at work: an admin has logged in, nobody else.
AccountsInit ==
  /\ \E a \in Accounts, t \in Tokens : \E g \in Groups[a] :
       /\ g.role = "admin"
       /\ staff = [i \in StaffIds |->
            IF i = 1 THEN [account |-> a, role |-> g.role, version |-> 0] ELSE Absent]
       /\ years = {1} \X g.years
       /\ session = [x \in Tokens |->
            IF x = t THEN [staff |-> 1, role |-> g.role] ELSE Absent]
  /\ required = 0 /\ stamped = {1}
  /\ request = [r \in Requests |-> Idle]
  /\ served = 0

\* A request reaches the server.
Arrive(r) ==
  /\ request[r] = Idle /\ served < MaxRequests
  /\ served' = served + 1

AnyRole(g) == TRUE

\* determineRole: a group of the admins, or of the staff.
GivesRole(g) == g.role # NoRole

\* Login removes expired sessions and has the CAS ticket validated; groups that
\* give no role are refused.
LoginArrives(r, a) ==
  /\ Arrive(r)
  /\ \E expired \in SUBSET {t \in Tokens : Exists(session, t)} : session' = Purged(expired)
  /\ \E g \in Groups[a] :
       \/ GivesRole(g) /\ RequestGoes(r, Resolving("find", "cas", a, g.role, g.years))
       \/ ~GivesRole(g) /\ UNCHANGED request
  /\ UNCHANGED <<staff, years, processVars>>

\* A bearer token that parses, with groups that give a role.
BearerArrives(r, a) ==
  /\ Arrive(r)
  /\ \E g \in Groups[a] :
       GivesRole(g) /\ RequestGoes(r, Resolving("find", "bearer", a, g.role, g.years))
  /\ UNCHANGED <<tableVars, processVars>>

\* StaffHandler.Create, for an admin.
CreateStaff(r, a) ==
  /\ request[r].pc = "serve" /\ request[r].role = "admin"
  /\ RequestGoes(r, Resolving("find", "admin", a, NoRole, {}))
  /\ UNCHANGED <<tableVars, processVars, served>>

\* With the row at hand an admin's request has only an email to write, a login
\* goes on with the role.
Resolved(r, i) ==
  IF request[r].via = "admin"
    THEN Answered(r)
    ELSE RequestGoes(r, [request[r] EXCEPT !.pc = "role", !.staff = i])

\* GetOrCreateByAccountID looks for the account.
Find(r) ==
  /\ request[r].pc = "find"
  /\ \/ \E i \in StaffOf(request[r].account) : Resolved(r, i)
     \/ /\ StaffOf(request[r].account) = {}
        /\ RequestGoes(r, [request[r] EXCEPT !.pc = "create"])
  /\ UNCHANGED <<tableVars, processVars, served>>

AccountAlwaysFree(a) == TRUE

\* The unique column account_id.
AccountFree(a) == StaffOf(a) = {}

\* It did not find it and inserts a row; the insert is refused when another
\* request has inserted one.
Create(r) ==
  /\ request[r].pc = "create"
  /\ \/ /\ AccountFree(request[r].account) /\ Unused(staff) # {}
        /\ staff' = [staff EXCEPT ![NextId(staff)] =
             [account |-> request[r].account, role |-> NoRole, version |-> 0]]
        /\ Resolved(r, NextId(staff))
     \/ /\ ~AccountFree(request[r].account)
        /\ Answered(r)
        /\ UNCHANGED staff
  /\ UNCHANGED <<years, session, processVars, served>>

Next_(r, pc) == RequestGoes(r, [request[r] EXCEPT !.pc = pc])

\* UpdateRole; no row, or an error, is only logged.
SetRole(r) ==
  /\ request[r].pc = "role"
  /\ \/ UNCHANGED staff
     \/ /\ Exists(staff, request[r].staff)
        /\ staff' = [staff EXCEPT ![request[r].staff].role = request[r].role]
  /\ Next_(r, "years")
  /\ UNCHANGED <<years, session, processVars, served>>

\* EnsureWorkYears, in one transaction; an error is only logged.
AddYears(r) ==
  /\ request[r].pc = "years"
  /\ \/ years' = years \cup ({request[r].staff} \X request[r].years)
     \/ UNCHANGED years
  /\ Next_(r, "version")
  /\ UNCHANGED <<staff, session, processVars, served>>

\* UpdateVersion; without the row a CAS login ends, a bearer request goes on.
StampVersion(r) ==
  LET i == request[r].staff
      goesOn == IF request[r].via = "cas" THEN Next_(r, "open")
                ELSE RequestGoes(r, Serving("bearer", i, request[r].role, request[r].gone))
  IN
  /\ request[r].pc = "version"
  /\ \/ /\ Exists(staff, i)
        /\ staff' = [staff EXCEPT ![i].version = required]
        /\ stamped' = stamped \cup {i}
        /\ goesOn
     \/ /\ request[r].via = "bearer"
        /\ goesOn
        /\ UNCHANGED <<staff, stamped>>
     \/ /\ request[r].via = "cas" /\ ~Exists(staff, i)
        /\ Answered(r)
        /\ UNCHANGED <<staff, stamped>>
  /\ UNCHANGED <<years, session, required, served>>

\* SessionService.Create with the role of this login.
OpenSession(r) ==
  /\ request[r].pc = "open"
  /\ \E t \in Unused(session) :
       session' = [session EXCEPT ![t] =
         [staff |-> request[r].staff, role |-> request[r].role]]
  /\ Answered(r)
  /\ UNCHANGED <<staff, years, processVars, served>>
-----------------------------------------------------------------------------
\* handleSession and optionalTrySession find the session of the cookie.
SessionArrives(r, t, via) ==
  /\ Arrive(r)
  /\ Usable(t)
  /\ RequestGoes(r, [pc |-> "load", via |-> via, token |-> t, staff |-> session[t].staff,
                     role |-> session[t].role, gone |-> Gone])
  /\ UNCHANGED <<tableVars, processVars>>

\* Does the session of request r belong to a staff member who may use it?
Current(r) == Exists(staff, request[r].staff) /\ VersionCurrent(request[r].staff)

\* GetByID and the version check; a session that fails them is deleted.
LoadStaff(r) ==
  /\ request[r].pc = "load" /\ request[r].via = "session"
  /\ \/ Current(r) /\ Next_(r, "csrf") /\ UNCHANGED session
     \/ /\ ~Current(r)
        /\ session' = Without(request[r].token)
        /\ Answered(r)
  /\ UNCHANGED <<staff, years, processVars, served>>

\* optionalTrySession serves a reader in any case, and keeps the session of a staff
\* member who is gone.
LoadForReader(r) ==
  /\ request[r].pc = "load" /\ request[r].via = "optional"
  /\ session' = IF Exists(staff, request[r].staff) /\ ~VersionCurrent(request[r].staff)
                THEN Without(request[r].token) ELSE session
  /\ Answered(r)
  /\ UNCHANGED <<staff, years, processVars, served>>

\* ValidateCSRF reads the session again.
CheckCSRF(r) ==
  /\ request[r].pc = "csrf"
  /\ \/ /\ Usable(request[r].token)
        /\ RequestGoes(r, Serving("session", request[r].staff, request[r].role, request[r].gone))
     \/ Answered(r)
  /\ UNCHANGED <<tableVars, processVars, served>>

Logout(r, t) ==
  /\ Arrive(r)
  /\ Exists(session, t)
  /\ session' = Without(t)
  /\ UNCHANGED <<staff, years, processVars, request>>

\* A request authorised as admin.
Admin(r) == request[r].pc = "serve" /\ request[r].role = "admin"

\* StaffService.Delete removes the row and nothing else.
DeleteStaff(r, i) ==
  /\ Admin(r)
  /\ Exists(staff, i)
  /\ staff' = [staff EXCEPT ![i] = Deleted]
  /\ Answered(r)
  /\ UNCHANGED <<years, session, processVars, served>>

\* A read, a refusal, or a database error at any statement: the request ends.
End(r) ==
  /\ request[r] # Idle
  /\ Answered(r)
  /\ UNCHANGED <<tableVars, processVars, served>>

\* The process ends with all its requests, and the next one starts, with the same
\* STAFF_VERSION or a higher one.
Deploy ==
  /\ \E v \in {required, required + 1} :
       /\ v <= MaxVersion
       /\ required' = v
       /\ stamped' = IF v = required THEN stamped ELSE {}
  /\ request' = [r \in Requests |-> Idle]
  /\ UNCHANGED <<tableVars, served>>

AccountStep(r) ==
  \/ \E a \in Accounts : LoginArrives(r, a)
  \/ \E a \in Accounts : BearerArrives(r, a)
  \/ \E a \in Accounts : CreateStaff(r, a)
  \/ Find(r)
  \/ Create(r)
  \/ SetRole(r)
  \/ AddYears(r)
  \/ StampVersion(r)
  \/ OpenSession(r)
  \/ \E t \in Tokens : SessionArrives(r, t, "session")
  \/ \E t \in Tokens : SessionArrives(r, t, "optional")
  \/ LoadStaff(r)
  \/ LoadForReader(r)
  \/ CheckCSRF(r)
  \/ \E t \in Tokens : Logout(r, t)
  \/ \E i \in StaffIds : DeleteStaff(r, i)
-----------------------------------------------------------------------------
OneRowPerAccount ==
  \A i, j \in StaffIds :
    Exists(staff, i) /\ Exists(staff, j) /\ staff[i].account = staff[j].account => i = j

(***************************************************************************)
(* A session is served only if its staff member has logged in, or used a   *)
(* bearer token, since STAFF_VERSION was last raised: rows that an admin    *)
(* created, that still hold the default version or that a login left       *)
(* half written give nobody access (admin_auth.go:211, cas_auth.go:102).   *)
(***************************************************************************)
OldSessionsNeedALogin ==
  \A r \in Requests :
    request[r].pc = "serve" /\ request[r].via = "session" => request[r].staff \in stamped

(***************************************************************************)
(* Nobody acts as a staff member who was deleted before the request came   *)
(* in, though the sessions of deleted staff stay in the table and the      *)
(* account may log in again under a new row (staff_service.go:287,         *)
(* admin_auth.go:200-209).                                                 *)
(***************************************************************************)
DeletedCannotAct ==
  \A r \in Requests : request[r].pc = "serve" => request[r].staff \notin request[r].gone
=============================================================================
