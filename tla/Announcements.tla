---------------------------- MODULE Announcements ----------------------------
(***************************************************************************)
(* Announcements (announcement/announcement_service.go), written by        *)
(* authorised admins: the terms of service, of which there is one, and the *)
(* switch that shows an announcement or hides it.  Title, content, brief,  *)
(* priority and expiry date decide nothing here and are left out.          *)
(***************************************************************************)
EXTENDS Accounts

CONSTANT AnnouncementIds  \* primary keys, handed out in increasing order

\* "pinned" is shown like "normal" here.
AnnouncementTags == {"normal", "tos"}

AnnouncementRows == [tag : AnnouncementTags, enabled : BOOLEAN, meant : BOOLEAN]

ASSUME AnnouncementsAssumption ==
  /\ AnnouncementIds \subseteq Nat
  /\ {Absent, Deleted} \cap AnnouncementRows = {}

VARIABLES
  announcement,  \* table clinic_announcement; "meant" is history: what the last
                 \* request that said so wants for enabled
  cut            \* history: announcements whose creation ended halfway

announcementVars == <<announcement, cut>>
-----------------------------------------------------------------------------
\* What a request asks to change.
Edits == [tag : AnnouncementTags \cup {Keep}, enabled : BOOLEAN \cup {Keep}]

PublishStates == [pc : {"publish"}, tag : AnnouncementTags, enabled : BOOLEAN]

HideStates == [pc : {"hide"}, announcement : AnnouncementIds]

EditStates == [pc : {"edit"}, announcement : AnnouncementIds, edit : Edits]

AnnouncementStates == PublishStates \cup HideStates \cup EditStates

\* A terms-of-service row other than n.
TOSBeside(n) ==
  \E x \in AnnouncementIds \ {n} : Exists(announcement, x) /\ announcement[x].tag = "tos"

AnnouncementsInit ==
  /\ announcement = [n \in AnnouncementIds |-> Absent]
  /\ cut = {}

\* Create counts the terms of service.
BeginPublish(r, tag, enabled) ==
  /\ Admin(r)
  /\ tag = "tos" => ~TOSBeside(0)
  /\ RequestGoes(r, [pc |-> "publish", tag |-> tag, enabled |-> enabled])
  /\ UNCHANGED <<tableVars, processVars, served, announcementVars>>

TOSIndexMissing(n, tag) == TRUE

\* The index idx_unique_tos lets a row n have this tag.
TOSIndex(n, tag) == tag = "tos" => ~TOSBeside(n)

\* The insert writes the column default: the announcement starts enabled.
Publish(r) ==
  LET n == NextId(announcement)
      q == request[r] IN
  /\ q.pc = "publish" /\ Unused(announcement) # {}
  /\ TOSIndex(n, q.tag)
  /\ announcement' = [announcement EXCEPT ![n] =
       [tag |-> q.tag, enabled |-> TRUE, meant |-> q.enabled]]
  /\ IF q.enabled THEN Answered(r) ELSE RequestGoes(r, [pc |-> "hide", announcement |-> n])
  /\ UNCHANGED <<tableVars, processVars, served, cut>>

\* With this column set, if the row is still there.
SetEnabled(n, value) ==
  announcement' = IF Exists(announcement, n)
                    THEN [announcement EXCEPT ![n].enabled = value] ELSE announcement

HideForgotten(r) ==
  /\ request[r].pc = "hide"
  /\ Answered(r)
  /\ UNCHANGED <<tableVars, processVars, served, announcementVars>>

\* A second statement disables it.
Hide(r) ==
  /\ request[r].pc = "hide"
  /\ SetEnabled(request[r].announcement, FALSE)
  /\ Answered(r)
  /\ UNCHANGED <<tableVars, processVars, served, cut>>

\* Update reads the row and, for a new tag "tos", counts the others.
BeginEdit(r, n, e) ==
  /\ Admin(r)
  /\ Exists(announcement, n)
  /\ e.tag = "tos" /\ announcement[n].tag # "tos" => ~TOSBeside(n)
  /\ RequestGoes(r, [pc |-> "edit", announcement |-> n, edit |-> e])
  /\ UNCHANGED <<tableVars, processVars, served, announcementVars>>

\* It writes the columns it was given; no row is no error.
Edit(r) ==
  LET n == request[r].announcement
      e == request[r].edit IN
  /\ request[r].pc = "edit"
  /\ \/ /\ Exists(announcement, n)
        /\ TOSIndex(n, Given(e.tag, announcement[n].tag))
        /\ announcement' = [announcement EXCEPT ![n] =
             [tag |-> Given(e.tag, @.tag), enabled |-> Given(e.enabled, @.enabled),
              meant |-> Given(e.enabled, @.meant)]]
     \/ ~Exists(announcement, n) /\ UNCHANGED announcement
  /\ Answered(r)
  /\ UNCHANGED <<tableVars, processVars, served, cut>>

Withdraw(r, n) ==
  /\ Admin(r)
  /\ Exists(announcement, n)
  /\ announcement' = [announcement EXCEPT ![n] = Deleted]
  /\ Answered(r)
  /\ UNCHANGED <<tableVars, processVars, served, cut>>

\* What is lost when the requests in R end before they are finished.
CutShort(R) ==
  /\ cut' = cut \cup {request[r].announcement : r \in {q \in R : request[q].pc = "hide"}}
  /\ UNCHANGED announcement

AnnouncementStep(r) ==
  \/ \E tag \in AnnouncementTags, enabled \in BOOLEAN : BeginPublish(r, tag, enabled)
  \/ Publish(r)
  \/ Hide(r)
  \/ \E n \in AnnouncementIds, e \in Edits : BeginEdit(r, n, e)
  \/ Edit(r)
  \/ \E n \in AnnouncementIds : Withdraw(r, n)
-----------------------------------------------------------------------------
OneTOS ==
  \A m, n \in AnnouncementIds :
    /\ Exists(announcement, m) /\ announcement[m].tag = "tos"
    /\ Exists(announcement, n) /\ announcement[n].tag = "tos"
    => m = n

(***************************************************************************)
(* An announcement that nobody has enabled is shown only while the request *)
(* that created it is between its insert and its second statement, or for  *)
(* good when that request was cut short there (announcement_service.go:    *)
(* 92-103).                                                                *)
(***************************************************************************)
HiddenUnlessCut ==
  \A n \in AnnouncementIds :
    Exists(announcement, n) /\ announcement[n].enabled /\ ~announcement[n].meant =>
      \/ n \in cut
      \/ \E r \in Requests : request[r].pc = "hide" /\ request[r].announcement = n
=============================================================================
