----------------------------- MODULE UndoStack -----------------------------
(***************************************************************************)
(* What the undo journal promises, without sequence numbers, journal or    *)
(* requests: every document carries the stack of the changes that led to   *)
(* it, and an author may take back only the change on top, and only when   *)
(* it is his own ("strict LIFO").  Taking it back restores the document    *)
(* exactly as it was before that change.                                   *)
(***************************************************************************)
EXTENDS Integers, Sequences

CONSTANTS Docs, Authors, System, Contents

VARIABLES
  doc,      \* the contents of each document
  stack,    \* the changes of each document, oldest first
  gone      \* the documents that were deleted

undoVars == <<doc, stack, gone>>

Layers == [by: Authors \cup {System}, before: Contents]

Init ==
  /\ doc \in [Docs -> Contents]
  /\ stack = [d \in Docs |-> <<>>]
  /\ gone = {}

\* An author changes a document.
Change(a, d) ==
  /\ d \notin gone
  /\ doc' \in [Docs -> Contents]
  /\ \A e \in Docs \ {d} : doc'[e] = doc[e]
  /\ stack' = [stack EXCEPT ![d] = Append(@, [by |-> a, before |-> doc[d]])]
  /\ UNCHANGED gone

\* The system changes the documents in D at once, which nobody can take back.  On
\* that occasion it may touch others, in E, without a layer: when an author takes
\* back the change on top of such a document, what was touched goes with it.
SystemChange(D, E) ==
  /\ D # {}
  /\ (D \cup E) \cap gone = {}
  /\ doc' \in [Docs -> Contents]
  /\ \A d \in Docs \ (D \cup E) : doc'[d] = doc[d]
  /\ stack' = [d \in Docs |->
       IF d \in D THEN Append(stack[d], [by |-> System, before |-> doc[d]])
                  ELSE stack[d]]
  /\ UNCHANGED gone

Undo(a, d) ==
  /\ d \notin gone
  /\ stack[d] # <<>>
  /\ LET top == stack[d][Len(stack[d])]
     IN /\ top.by = a
        /\ doc' = [doc EXCEPT ![d] = top.before]
        /\ stack' = [stack EXCEPT ![d] = SubSeq(@, 1, Len(@) - 1)]
  /\ UNCHANGED gone

Delete(d) ==
  /\ d \notin gone
  /\ gone' = gone \cup {d}
  /\ stack' = [stack EXCEPT ![d] = <<>>]
  /\ \A e \in Docs \ {d} : doc'[e] = doc[e]

Next ==
  \/ \E d \in Docs : \/ \E a \in Authors : Change(a, d) \/ Undo(a, d)
                     \/ Delete(d)
  \/ \E D, E \in SUBSET Docs : SystemChange(D, E)

Spec == Init /\ [][Next]_undoVars
=============================================================================
