---------------------------- MODULE MessageFifo ----------------------------
(***************************************************************************)
(* What a sender's queue promises its callers: messages wait in the order  *)
(* in which they were accepted, no more than Size at a time; only the      *)
(* first one is handed to the platform, MaxTries times at most, before it  *)
(* makes room for the next; after the shutdown nothing happens any more.   *)
(***************************************************************************)
EXTENDS Naturals, Sequences

CONSTANTS Messages, Size, MaxTries

VARIABLES
  waiting,   \* the messages accepted and not yet done with, oldest first
  tries,     \* how often the first one was handed to the platform
  shut       \* whether the queue was shut down

fifoVars == <<waiting, tries, shut>>

Init ==
  /\ waiting = <<>>
  /\ tries = 0
  /\ shut = FALSE

Accept(m) ==
  /\ ~shut
  /\ Len(waiting) < Size
  /\ waiting' = Append(waiting, m)
  /\ UNCHANGED <<tries, shut>>

Try ==
  /\ ~shut
  /\ waiting # <<>>
  /\ tries < MaxTries
  /\ tries' = tries + 1
  /\ UNCHANGED <<waiting, shut>>

\* The first message was sent, or is given up.
Leave ==
  /\ ~shut
  /\ waiting # <<>>
  /\ tries > 0
  /\ waiting' = Tail(waiting)
  /\ tries' = 0
  /\ UNCHANGED shut

Shut ==
  /\ shut' = TRUE
  /\ UNCHANGED <<waiting, tries>>

Next == (\E m \in Messages : Accept(m)) \/ Try \/ Leave \/ Shut

Spec == Init /\ [][Next]_fifoVars
=============================================================================
