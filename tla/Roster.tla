------------------------------- MODULE Roster -------------------------------
(***************************************************************************)
(* The administration of the clinic: accounts and sessions with what       *)
(* authorised admins do, work schedules and announcements, on one database *)
(* and in one server process that is redeployed from time to time          *)
(* (app/run.go, app/routes.go).                                            *)
(***************************************************************************)
EXTENDS WorkSchedules, Announcements

vars == <<accountVars, scheduleVars, announcementVars>>

States == AuthStates \cup ScheduleStates \cup AnnouncementStates

TypeOK ==
  /\ staff \in [StaffIds -> StaffRows \cup {Absent, Deleted}]
  /\ years \subseteq StaffIds \X WorkYears
  /\ session \in [Tokens -> SessionRows \cup {Absent, Deleted}]
  /\ required \in 0..MaxVersion
  /\ stamped \subseteq StaffIds
  /\ request \in [Requests -> States]
  /\ served \in 0..MaxRequests
  /\ schedule \in [ScheduleIds -> ScheduleRows \cup {Absent, Deleted}]
  /\ slot \in [SlotIds -> SlotRows \cup {Absent, Deleted}]
  /\ assigned \in [SlotIds -> [StaffIds -> Nat]]
  /\ raced \in BOOLEAN
  /\ blind \subseteq SlotIds \X StaffIds
  /\ announcement \in [AnnouncementIds -> AnnouncementRows \cup {Absent, Deleted}]
  /\ cut \subseteq AnnouncementIds

Init == AccountsInit /\ SchedulesInit /\ AnnouncementsInit

\* Requests that a crash or a redeployment ends are cut short wherever they are.
Next ==
  \/ \E r \in Requests :
       \/ AccountStep(r) /\ UNCHANGED <<scheduleVars, announcementVars>>
       \/ ScheduleStep(r) /\ UNCHANGED announcementVars
       \/ AnnouncementStep(r) /\ UNCHANGED scheduleVars
       \/ End(r) /\ CutShort({r}) /\ UNCHANGED scheduleVars
  \/ Deploy /\ CutShort(Requests) /\ UNCHANGED scheduleVars

Spec == Init /\ [][Next]_vars

(***************************************************************************)
(* There is one staff row for an account, one enabled work schedule and    *)
(* one announcement with the terms of service, though requests look first  *)
(* and write later (staff_service.go:48, work_schedule_service.go:189,     *)
(* announcement_service.go:60, app/database.go:85-102).                    *)
(***************************************************************************)
AtMostOne == OneRowPerAccount /\ OneEnabled /\ OneTOS
=============================================================================
