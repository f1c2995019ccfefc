---------------------------- MODULE WorkSchedules ----------------------------
(***************************************************************************)
(* Work schedules (scheduling/service/work_schedule_service.go): each has  *)
(* a period, weekly slots in rooms, and staff assigned to the slots; one   *)
(* schedule may be enabled, and the booking calendar follows it.           *)
(*                                                                         *)
(* Create, Update, Delete and UpdateWeekday write in a transaction, which  *)
(* the default SQLite database runs alone; AddStaff and RemoveStaff are    *)
(* sequences of statements.  Foreign keys are not enforced there.  Names   *)
(* and times of day decide only refusals of the input and are left out.    *)
(***************************************************************************)
EXTENDS Accounts, Sequences

CONSTANTS
  ScheduleIds, SlotIds,   \* primary keys, handed out in increasing order
  Places,                 \* a weekday and a room that exists
  Dates,                  \* first and last days of schedules
  YearOf,                 \* the work year a day lies in
  Weeks                   \* the slots a request gives: a sequence of a place
                          \* and the sequence of its staff, repeated or not

ScheduleRows == [start : Dates, end : Dates, enabled : BOOLEAN]

SlotRows == [schedule : ScheduleIds, place : Places]

ASSUME WorkSchedulesAssumption ==
  /\ ScheduleIds \subseteq Nat \ {0} /\ 1 \in ScheduleIds /\ SlotIds \subseteq Nat \ {0}
  /\ Dates \subseteq Nat /\ \E last \in Dates : \A d \in Dates : d <= last
  /\ {Absent, Deleted} \cap (ScheduleRows \cup SlotRows) = {}
  /\ \A week \in Weeks : week \in Seq([place : Places, staff : Seq(StaffIds)])

VARIABLES
  schedule,   \* table clinic_work_schedule
  slot,       \* table clinic_work_schedule_weekday
  assigned,   \* table clinic_work_schedule_staff: rows for a slot and a staff member
  raced,      \* history: a schedule was changed while another request was at work on it
  blind       \* history: the slots and staff for which AddStaff missed an assignment

historyVars == <<raced, blind>>
scheduleVars == <<schedule, slot, assigned, raced, blind>>
-----------------------------------------------------------------------------
\* UpdateWorkScheduleInput: a nil field keeps what is there.
Updates == [start : Dates \cup {Keep}, end : Dates \cup {Keep},
            enabled : BOOLEAN \cup {Keep}, week : Weeks \cup {Keep}]

UpdateStates == [pc : {"update"}, schedule : ScheduleIds, start : Dates, end : Dates]

StaffingStates ==
  [pc : {"find_slot", "new_slot", "check", "insert", "remove"}, schedule : ScheduleIds,
   staff : StaffIds, place : Places, slot : SlotIds \cup {0}]

WeekdayStates == [pc : {"weekday"}, schedule : ScheduleIds]

ScheduleStates == UpdateStates \cup StaffingStates \cup WeekdayStates

AtWorkOn(q, s) ==
  /\ request[q].pc \in {"update", "find_slot", "new_slot", "check", "insert", "remove", "weekday"}
  /\ request[q].schedule = s

\* This step of r changes schedule s.
Changes(r, s) == raced' = (raced \/ \E q \in Requests \ {r} : AtWorkOn(q, s))

SlotsOf(s) == {i \in SlotIds : Exists(slot, i) /\ slot[i].schedule = s}

SlotsAt(s, place) == {i \in SlotsOf(s) : slot[i].place = place}

\* hasEnabledSchedule.
AnotherEnabled(s) ==
  \E x \in ScheduleIds \ {s} : Exists(schedule, x) /\ schedule[x].enabled

\* The index idx_unique_enabled_schedule lets row s have this value.
EnabledIndex(s, enabled) == enabled => ~AnotherEnabled(s)

\* The row that a request asks for; a schedule is disabled unless it says otherwise.
NewRow(start, end, enabled) ==
  [start |-> start, end |-> end, enabled |-> enabled = TRUE]

\* createWeekdaysInTx: the k-th slot of the week gets the k-th unused key.
Place(i) == Cardinality({j \in Unused(slot) : j <= i})

IsNew(i, week) == i \in Unused(slot) /\ Place(i) <= Len(week)

\* validateWeekdayInTx finds the staff of every slot.
CanBeCreated(week) ==
  /\ Cardinality(Unused(slot)) >= Len(week)
  /\ \A k \in DOMAIN week : \A n \in DOMAIN week[k].staff : Exists(staff, week[k].staff[n])

\* How often a list of staff names one of them; each time makes a row.
Times(st, list) == Cardinality({n \in DOMAIN list : list[n] = st})

\* The slots in old are replaced by the week, for schedule s.
ReplaceSlots(old, s, week) ==
  /\ slot' = [i \in SlotIds |->
       IF IsNew(i, week) THEN [schedule |-> s, place |-> week[Place(i)].place]
       ELSE IF i \in old THEN Deleted ELSE slot[i]]
  /\ assigned' = [i \in SlotIds |-> [st \in StaffIds |->
       IF IsNew(i, week) THEN Times(st, week[Place(i)].staff)
       ELSE IF i \in old THEN 0 ELSE assigned[i][st]]]

\* A slot of its own for a place, found by nobody before.
AddSlot(s, place) ==
  /\ Unused(slot) # {}
  /\ slot' = [slot EXCEPT ![NextId(slot)] = [schedule |-> s, place |-> place]]

\* At the start one schedule is enabled, which nobody has filled in.
SchedulesInit ==
  /\ schedule = [s \in ScheduleIds |->
       IF s = 1 THEN [start |-> Min(Dates), end |-> Max(Dates), enabled |-> TRUE] ELSE Absent]
  /\ slot = [i \in SlotIds |-> Absent]
  /\ assigned = [i \in SlotIds |-> [st \in StaffIds |-> 0]]
  /\ raced = FALSE
  /\ blind = {}
-----------------------------------------------------------------------------
CreateSchedule(r) ==
  /\ Admin(r) /\ Unused(schedule) # {}
  /\ \E start, end \in Dates, enabled \in BOOLEAN \cup {Keep}, week \in Weeks :
       /\ start <= end
       /\ enabled = TRUE => ~AnotherEnabled(0)
       /\ CanBeCreated(week)
       /\ schedule' = [schedule EXCEPT ![NextId(schedule)] = NewRow(start, end, enabled)]
       /\ EnabledIndex(NextId(schedule), enabled = TRUE)
       /\ ReplaceSlots({}, NextId(schedule), week)
  /\ Answered(r)
  /\ UNCHANGED <<tableVars, processVars, served, historyVars>>

\* Update reads the row before its transaction.
BeginUpdate(r, s) ==
  /\ Admin(r)
  /\ Exists(schedule, s)
  /\ RequestGoes(r, [pc |-> "update", schedule |-> s,
                     start |-> schedule[s].start, end |-> schedule[s].end])
  /\ UNCHANGED <<tableVars, processVars, served, scheduleVars>>

\* The date that is not given is compared as it was read.
DatesInOrder(q, u) ==
  u.start # Keep \/ u.end # Keep => Given(u.start, q.start) <= Given(u.end, q.end)

\* Its transaction; no row to update is no error, and the week is then written for
\* a schedule that is gone.
Update(r) ==
  LET s == request[r].schedule IN
  /\ request[r].pc = "update"
  /\ \E u \in Updates :
       /\ u.enabled = TRUE => ~AnotherEnabled(s) /\ EnabledIndex(s, TRUE)
       /\ DatesInOrder(request[r], u)
       /\ schedule' = IF ~Exists(schedule, s) THEN schedule
                      ELSE [schedule EXCEPT ![s] = [start |-> Given(u.start, @.start),
                                                    end |-> Given(u.end, @.end),
                                                    enabled |-> Given(u.enabled, @.enabled)]]
       /\ IF u.week = Keep THEN UNCHANGED <<slot, assigned>>
          ELSE CanBeCreated(u.week) /\ ReplaceSlots(SlotsOf(s), s, u.week)
  /\ Changes(r, s)
  /\ Answered(r)
  /\ UNCHANGED <<tableVars, processVars, served, blind>>

SlotsForgotten(s) ==
  /\ slot' = [i \in SlotIds |-> IF i \in SlotsOf(s) THEN Deleted ELSE slot[i]]
  /\ UNCHANGED assigned

SlotsDeleted(s) == ReplaceSlots(SlotsOf(s), s, <<>>)

DeleteSchedule(r, s) ==
  /\ Admin(r)
  /\ Exists(schedule, s)
  /\ SlotsDeleted(s)
  /\ schedule' = [schedule EXCEPT ![s] = Deleted]
  /\ Changes(r, s)
  /\ Answered(r)
  /\ UNCHANGED <<tableVars, processVars, served, blind>>

\* UpdateWeekday finds the schedule, then finds or creates the slot of a place.
BeginWeekday(r, s) ==
  /\ Admin(r)
  /\ Exists(schedule, s)
  /\ RequestGoes(r, [pc |-> "weekday", schedule |-> s])
  /\ UNCHANGED <<tableVars, processVars, served, scheduleVars>>

UpdateWeekday(r, place) ==
  LET s == request[r].schedule IN
  /\ request[r].pc = "weekday"
  /\ IF SlotsAt(s, place) = {} THEN AddSlot(s, place) ELSE UNCHANGED slot
  /\ Changes(r, s)
  /\ Answered(r)
  /\ UNCHANGED <<tableVars, processVars, served, schedule, assigned, blind>>
-----------------------------------------------------------------------------
\* IsValidForDate: has the staff member worked in the year the schedule begins?
InWorkYear(st, s) == <<st, YearOf[schedule[s].start]>> \in years

\* AddStaff checks the schedule, the staff member and the work year.
BeginAdd(r, s, st, place) ==
  /\ Admin(r)
  /\ Exists(schedule, s) /\ Exists(staff, st)
  /\ InWorkYear(st, s)
  /\ RequestGoes(r, [pc |-> "find_slot", schedule |-> s, staff |-> st, place |-> place, slot |-> 0])
  /\ UNCHANGED <<tableVars, processVars, served, scheduleVars>>

\* It finds the slot that the client names, or the first one at the place.
FindSlot(r) ==
  LET s == request[r].schedule
      here == SlotsAt(s, request[r].place) IN
  /\ request[r].pc = "find_slot"
  /\ \/ \E i \in SlotsOf(s) : RequestGoes(r, [request[r] EXCEPT !.pc = "check", !.slot = i])
     \/ /\ here # {}
        /\ RequestGoes(r, [request[r] EXCEPT !.pc = "check", !.slot = Min(here)])
     \/ /\ here = {}
        /\ RequestGoes(r, [request[r] EXCEPT !.pc = "new_slot"])
  /\ UNCHANGED <<tableVars, processVars, served, scheduleVars>>

NewSlot(r) ==
  LET s == request[r].schedule IN
  /\ request[r].pc = "new_slot"
  /\ AddSlot(s, request[r].place)
  /\ Changes(r, s)
  /\ RequestGoes(r, [request[r] EXCEPT !.pc = "check", !.slot = NextId(slot)])
  /\ UNCHANGED <<tableVars, processVars, served, schedule, assigned, blind>>

CheckNothing(r) ==
  /\ request[r].pc = "check"
  /\ RequestGoes(r, [request[r] EXCEPT !.pc = "insert"])
  /\ UNCHANGED <<tableVars, processVars, served, scheduleVars>>

\* An assignment that is there is the answer.
CheckAssigned(r) ==
  /\ request[r].pc = "check"
  /\ IF assigned[request[r].slot][request[r].staff] > 0
       THEN Answered(r)
       ELSE RequestGoes(r, [request[r] EXCEPT !.pc = "insert"])
  /\ UNCHANGED <<tableVars, processVars, served, scheduleVars>>

\* When the query fails, AddStaff goes on as if there were none.
CheckFails(r) ==
  /\ request[r].pc = "check"
  /\ assigned[request[r].slot][request[r].staff] > 0
  /\ blind' = blind \cup {<<request[r].slot, request[r].staff>>}
  /\ RequestGoes(r, [request[r] EXCEPT !.pc = "insert"])
  /\ UNCHANGED <<tableVars, processVars, served, schedule, slot, assigned, raced>>

Insert(r) ==
  /\ request[r].pc = "insert"
  /\ assigned' = [assigned EXCEPT ![request[r].slot][request[r].staff] = @ + 1]
  /\ Changes(r, request[r].schedule)
  /\ Answered(r)
  /\ UNCHANGED <<tableVars, processVars, served, schedule, slot, blind>>

\* RemoveStaff finds the slot, and deletes the assignments there are.
BeginRemove(r, i, st) ==
  /\ Admin(r)
  /\ Exists(slot, i)
  /\ RequestGoes(r, [pc |-> "remove", schedule |-> slot[i].schedule, staff |-> st,
                     place |-> slot[i].place, slot |-> i])
  /\ UNCHANGED <<tableVars, processVars, served, scheduleVars>>

Remove(r) ==
  /\ request[r].pc = "remove"
  /\ assigned' = [assigned EXCEPT ![request[r].slot][request[r].staff] = 0]
  /\ Changes(r, request[r].schedule)
  /\ Answered(r)
  /\ UNCHANGED <<tableVars, processVars, served, schedule, slot, blind>>

ScheduleStep(r) ==
  \/ CreateSchedule(r)
  \/ \E s \in ScheduleIds : BeginUpdate(r, s)
  \/ Update(r)
  \/ \E s \in ScheduleIds : DeleteSchedule(r, s)
  \/ \E s \in ScheduleIds : BeginWeekday(r, s)
  \/ \E place \in Places : UpdateWeekday(r, place)
  \/ \E s \in ScheduleIds, st \in StaffIds, place \in Places : BeginAdd(r, s, st, place)
  \/ FindSlot(r)
  \/ NewSlot(r)
  \/ CheckAssigned(r)
  \/ CheckFails(r)
  \/ Insert(r)
  \/ \E i \in SlotIds, st \in StaffIds : BeginRemove(r, i, st)
  \/ Remove(r)
-----------------------------------------------------------------------------
OneEnabled ==
  \A s, x \in ScheduleIds :
    /\ Exists(schedule, s) /\ schedule[s].enabled
    /\ Exists(schedule, x) /\ schedule[x].enabled
    => s = x

(***************************************************************************)
(* As long as no two requests have been at work on the same schedule,      *)
(* every period runs forwards, every slot belongs to a schedule, and every *)
(* assignment to a slot.  No constraint of the database says so: Update    *)
(* and AddStaff write what they read before (work_schedule_service.go:280, *)
(* 410), Delete cleans up by hand (:382).  Requests that end at any        *)
(* statement do not break it.                                              *)
(***************************************************************************)
RosterSound ==
  ~raced =>
    /\ \A s \in ScheduleIds : Exists(schedule, s) => schedule[s].start <= schedule[s].end
    /\ \A i \in SlotIds : Exists(slot, i) => Exists(schedule, slot[i].schedule)
    /\ \A i \in SlotIds, st \in StaffIds : assigned[i][st] > 0 => Exists(slot, i)

(***************************************************************************)
(* AddStaff looks for an assignment before it inserts one, in separate     *)
(* statements (work_schedule_service.go:481-492).  However requests        *)
(* overlap, this makes no more assignments of a staff member to a slot     *)
(* than requests are served at a time, and one as long as no requests have *)
(* overlapped on a schedule, unless a look has failed and was taken for    *)
(* "none".  What a week names twice when a slot is made (createWeekdaysIn- *)
(* Tx) is assigned twice.                                                  *)
(***************************************************************************)
MadeAtMost(n) ==
  \A i \in SlotIds, st \in StaffIds :
    Exists(slot, i) /\ assigned'[i][st] > assigned[i][st] /\ <<i, st>> \notin blind
      => assigned'[i][st] <= n

AddsBounded == [][MadeAtMost(IF raced' THEN Cardinality(Requests) ELSE 1)]_scheduleVars
=============================================================================
