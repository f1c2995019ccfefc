----------------------------- MODULE PhotoList -----------------------------
(***************************************************************************)
(* What a record's photos promise to those who look at them: a list of     *)
(* photo ids without gaps or repetitions, never longer than Max, to which  *)
(* new photos are only added at the end; a photo leaves the list by being  *)
(* removed or with all the others.                                         *)
(***************************************************************************)
EXTENDS Naturals, Sequences

CONSTANTS Max, Photos

VARIABLE list

Init == list = <<>>

Add ==
  /\ Len(list) < Max
  /\ \E p \in Photos : /\ \A n \in 1..Len(list) : list[n] # p
                       /\ list' = Append(list, p)

Take ==
  \E n \in 1..Len(list) :
    list' = SubSeq(list, 1, n - 1) \o SubSeq(list, n + 1, Len(list))

Rearrange ==
  /\ Len(list') = Len(list)
  /\ list' \in Seq(Photos)
  /\ \A n \in 1..Len(list) : \E m \in 1..Len(list) : list'[m] = list[n]

Clear == list' = <<>>

Next == Add \/ Take \/ Rearrange \/ Clear

Spec == Init /\ [][Next]_list
=============================================================================
