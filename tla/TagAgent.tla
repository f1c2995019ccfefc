------------------------------ MODULE TagAgent ------------------------------
(***************************************************************************)
(* What the tagging service is promised by its TagAgent                    *)
(* (tagging/service/tag_agent.go): a call ends with an error or with a     *)
(* name of the tag set, or no name, and calls do not disturb each other.   *)
(***************************************************************************)
CONSTANTS Callers, Texts, Tags, NoTag

VARIABLE asked   \* where each caller is

Quiet == [pc |-> "none"]
Failed == [pc |-> "failed"]
Pending(t) == [pc |-> "pending", text |-> t]
Answered(n) == [pc |-> "answered", name |-> n]

Asked == {Quiet, Failed} \cup {Pending(t) : t \in Texts}
           \cup {Answered(n) : n \in Tags \cup {NoTag}}

Goes(c, to) == asked' = [asked EXCEPT ![c] = to]

Init == asked = [c \in Callers |-> Quiet]

\* The process that made the calls has ended.
Renew == asked' = [c \in Callers |-> Quiet]

Begin(c, t) ==
  /\ asked[c].pc = "none"
  /\ Goes(c, Pending(t))

Fail(c) ==
  /\ asked[c].pc = "pending"
  /\ Goes(c, Failed)

Answer(c, name) ==
  /\ asked[c].pc = "pending"
  /\ Goes(c, Answered(name))

Done(c) ==
  /\ asked[c].pc \in {"failed", "answered"}
  /\ Goes(c, Quiet)

Next ==
  \/ Renew
  \/ \E c \in Callers :
       \/ \E t \in Texts : Begin(c, t)
       \/ Fail(c)
       \/ \E name \in Tags \cup {NoTag} : Answer(c, name)
       \/ Done(c)

Spec == Init /\ [][Next]_asked
=============================================================================
