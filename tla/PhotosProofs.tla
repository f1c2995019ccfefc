---------------------------- MODULE PhotosProofs ----------------------------
(***************************************************************************)
(* Theorems about Photos, for any number of overlapping requests, any      *)
(* number of photos, and with errors and crashes.                          *)
(***************************************************************************)
EXTENDS Photos, FiniteSetTheorems, FunctionTheorems, SequenceTheorems, TLAPS

IdsUnique(R) == \A p, r \in R : p.id = r.id => p = r

\* A set of rows that is a list: the positions are 1..n, every id occurs once.
Listed(R) ==
  /\ IsFiniteSet(R)
  /\ R \subseteq PhotoRows
  /\ IdsUnique(R)
  /\ {p.pos : p \in R} = 1..Cardinality(R)
-----------------------------------------------------------------------------
(* Rows and their order. *)

LEMMA RowFields ==
  ASSUME NEW p \in PhotoRows
  PROVE  /\ p.id \in Ids /\ p.key \in Keys /\ p.pos \in 1..MaxCount
         /\ p.id \in Nat /\ p.key \in Nat /\ p.pos \in Nat /\ p.pos >= 1
  BY ConstantsAssumption DEF PhotoRows, Ids, Keys

\* Every position is taken by exactly one row.
LEMMA PositionsUnique ==
  ASSUME NEW R, Listed(R)
  PROVE  /\ Cardinality(R) \in Nat
         /\ \A p \in R : p.pos \in 1..Cardinality(R)
         /\ \A n \in 1..Cardinality(R) : \E p \in R : p.pos = n
         /\ \A p, r \in R : p.pos = r.pos => p = r
<1> DEFINE c == Cardinality(R)
           f == [p \in R |-> p.pos]
<1>1. c \in Nat
  BY FS_CardinalityType DEF Listed
<1>2. /\ \A p \in R : p.pos \in 1..c
      /\ \A n \in 1..c : \E p \in R : p.pos = n
  BY DEF Listed
<1>3. f \in Surjection(R, 1..c)
  <2>1. f \in [R -> 1..c]
    BY <1>2
  <2>2. \A n \in 1..c : \E p \in R : f[p] = n
    BY <1>2
  <2> HIDE DEF c, f
  <2> QED BY <2>1, <2>2, Fun_IsSurj
<1>4. Cardinality(1..c) = c
  BY <1>1, FS_Interval
<1>5. f \in Injection(R, 1..c)
  <2>1. IsFiniteSet(R) /\ Cardinality(R) = Cardinality(1..c)
    BY <1>4 DEF Listed
  <2> HIDE DEF c, f
  <2> QED BY <1>3, <2>1, FS_SurjSameCardinalityImpliesInj
<1>6. \A p, r \in R : p.pos = r.pos => p = r
  <2>1. \A p, r \in R : f[p] = f[r] => p = r
    <3> HIDE DEF c, f
    <3> QED BY <1>5, Fun_InjectionProperties
  <2> QED BY <2>1
<1> QED BY <1>1, <1>2, <1>6

\* The rows before row r are as many as there are positions before its own.
LEMMA RowsBefore ==
  ASSUME NEW R, Listed(R), NEW r \in R
  PROVE  Cardinality({p \in R : Before(p, r)}) = r.pos - 1
<1> DEFINE B == {p \in R : Before(p, r)}
           k == r.pos - 1
           g == [p \in B |-> p.pos]
<1>1. /\ r.pos \in Nat /\ r.pos >= 1 /\ k \in Nat
      /\ \A p \in R : p.pos \in Nat /\ p.pos >= 1 /\ p.id \in Nat
  BY RowFields DEF Listed
<1>2. \A p \in R : Before(p, r) <=> p.pos < r.pos
  BY <1>1, PositionsUnique DEF Before
<1>3. \A p \in B : p \in R /\ p.pos \in 1..k
  BY <1>1, <1>2
<1>4. \A n \in 1..k : \E p \in B : p.pos = n
  <2> SUFFICES ASSUME NEW n \in 1..k PROVE \E p \in B : p.pos = n
    OBVIOUS
  <2>1. n \in 1..Cardinality(R) /\ n < r.pos
    BY <1>1, PositionsUnique
  <2>2. PICK p \in R : p.pos = n
    BY <2>1, PositionsUnique
  <2> QED BY <1>2, <2>1, <2>2
<1>5. IsFiniteSet(B)
  BY FS_Subset DEF Listed
<1>6. Cardinality(1..k) = k
  BY <1>1, FS_Interval
<1>7. g \in [B -> 1..k] /\ \A n \in 1..k : \E p \in B : g[p] = n
  BY <1>3, <1>4
<1>8. \A p, q \in B : g[p] = g[q] => p = q
  BY PositionsUnique
<1> HIDE DEF B, k, g
<1>9. g \in Bijection(B, 1..k)
  BY <1>7, <1>8, Fun_IsBij, Fun_IsInj, Fun_IsSurj
<1>10. ExistsBijection(B, 1..k)
  BY <1>9, Fun_ExistsBij
<1>11. Cardinality(B) = k
  BY <1>5, <1>6, <1>10, FS_Bijection
<1> QED BY <1>11 DEF B, k

\* Order lists the ids by position.
LEMMA OrderIsByPosition ==
  ASSUME NEW R, Listed(R)
  PROVE  /\ Order(R) \in Seq(Ids)
         /\ Len(Order(R)) = Cardinality(R)
         /\ \A r \in R : Order(R)[r.pos] = r.id
<1> DEFINE c == Cardinality(R)
           At(n) == CHOOSE r \in R : Cardinality({p \in R : Before(p, r)}) = n - 1
<1>1. c \in Nat
  BY PositionsUnique
<1>2. \A r \in R : At(r.pos) = r
  <2> SUFFICES ASSUME NEW r \in R PROVE At(r.pos) = r
    OBVIOUS
  <2> DEFINE x == At(r.pos)
  <2>1. Cardinality({p \in R : Before(p, r)}) = r.pos - 1
    BY RowsBefore
  <2>2. x \in R /\ Cardinality({p \in R : Before(p, x)}) = r.pos - 1
    BY <2>1
  <2>3. x.pos - 1 = r.pos - 1 /\ x.pos \in Nat /\ r.pos \in Nat
    <3> HIDE DEF x
    <3>1. x.pos \in Nat /\ r.pos \in Nat
      BY <2>2, RowFields DEF Listed
    <3> QED BY <2>2, <3>1, RowsBefore
  <2>4. x.pos = r.pos
    <3> HIDE DEF x
    <3> QED BY <2>3
  <2> QED BY <2>2, <2>4, PositionsUnique
<1>3. \A r \in R : r.pos \in 1..c /\ r.id \in Ids
  BY PositionsUnique, RowFields DEF Listed
<1>4. \A n \in 1..c : At(n).id \in Ids
  <2> SUFFICES ASSUME NEW n \in 1..c PROVE At(n).id \in Ids
    OBVIOUS
  <2>1. PICK r \in R : r.pos = n
    BY PositionsUnique
  <2>2. At(r.pos) = r
    BY <1>2
  <2> HIDE DEF At
  <2> QED BY <1>3, <2>1, <2>2
<1>5. Order(R) = [n \in 1..c |-> At(n).id]
  BY DEF Order
<1> HIDE DEF At
<1>6. Order(R) \in Seq(Ids) /\ Len(Order(R)) = c
  BY <1>1, <1>4, <1>5
<1>7. \A r \in R : Order(R)[r.pos] = r.id
  BY <1>2, <1>3, <1>5
<1> QED BY <1>6, <1>7
-----------------------------------------------------------------------------
(* What the operations do to a list of rows. *)

LEMMA NothingListed == Listed({}) /\ Cardinality({}) = 0
<1>1. IsFiniteSet({}) /\ Cardinality({}) = 0
  BY FS_EmptySet
<1> QED BY <1>1 DEF Listed, IdsUnique

\* Rows that are changed one by one, but keep their ids, stay as many.
LEMMA SameRows ==
  ASSUME NEW R, NEW f, IsFiniteSet(R), IdsUnique(R), \A p \in R : f[p].id = p.id,
         NEW T, T = {f[p] : p \in R}
  PROVE  IsFiniteSet(T) /\ Cardinality(T) = Cardinality(R) /\ IdsUnique(T)
<1> DEFINE g == [p \in R |-> f[p]]
<1>1. /\ g \in [R -> T]
      /\ \A t \in T : \E p \in R : g[p] = t
      /\ \A p, r \in R : g[p] = g[r] => p = r
  BY DEF IdsUnique
<1>2. IdsUnique(T)
  BY DEF IdsUnique
<1> HIDE DEF g
<1>3. g \in Bijection(R, T)
  BY <1>1, Fun_IsBij
<1>4. ExistsBijection(R, T)
  BY <1>3, Fun_ExistsBij
<1>5. IsFiniteSet(T) /\ Cardinality(T) = Cardinality(R)
  BY <1>4, FS_Bijection
<1> QED BY <1>2, <1>5

LEMMA Appended ==
  ASSUME NEW R, Listed(R), RoomFor(R), NEW k \in Ids, \A p \in R : p.id # k
  PROVE  LET new == [id |-> k, key |-> k, pos |-> Cardinality(R) + 1]
         IN  /\ new \in PhotoRows
             /\ Listed(R \cup {new})
             /\ Cardinality(R \cup {new}) = Cardinality(R) + 1
<1> USE ConstantsAssumption
<1> DEFINE c == Cardinality(R)
           new == [id |-> k, key |-> k, pos |-> c + 1]
           T == R \cup {new}
<1>1. c \in Nat /\ c < MaxCount /\ \A p \in R : p.pos \in 1..c
  BY PositionsUnique DEF RoomFor
<1>2. new \in PhotoRows /\ new \notin R
  BY <1>1 DEF PhotoRows, Ids
<1>3. IsFiniteSet(T) /\ Cardinality(T) = c + 1
  BY <1>2, FS_AddElement DEF Listed
<1>4. IdsUnique(T) /\ T \subseteq PhotoRows
  BY <1>2 DEF Listed, IdsUnique
<1>5. {p.pos : p \in T} = 1..Cardinality(T)
  <2>1. {p.pos : p \in R} = 1..c
    BY DEF Listed
  <2>2. {p.pos : p \in T} = {p.pos : p \in R} \cup {c + 1}
    <3>1. new.pos = c + 1
      OBVIOUS
    <3> HIDE DEF new, c
    <3> QED BY <3>1
  <2>3. 1..(c + 1) = (1..c) \cup {c + 1}
    BY <1>1
  <2> QED BY <1>3, <2>1, <2>2, <2>3
<1> QED BY <1>2, <1>3, <1>4, <1>5 DEF Listed

LEMMA Replaced ==
  ASSUME NEW R, Listed(R), NEW v \in R, NEW k \in Keys
  PROVE  LET T == {IF p.id = v.id THEN [p EXCEPT !.key = k] ELSE p : p \in R}
         IN  Listed(T) /\ Cardinality(T) = Cardinality(R)
<1> DEFINE f == [p \in R |-> IF p.id = v.id THEN [p EXCEPT !.key = k] ELSE p]
           T == {f[p] : p \in R}
<1>1. \A p \in R : /\ p \in PhotoRows
                    /\ f[p].id = p.id /\ f[p].pos = p.pos /\ f[p] \in PhotoRows
  BY DEF Listed, PhotoRows
<1>2. T = {IF p.id = v.id THEN [p EXCEPT !.key = k] ELSE p : p \in R}
  OBVIOUS
<1> HIDE DEF f
<1>3. IsFiniteSet(T) /\ Cardinality(T) = Cardinality(R) /\ IdsUnique(T)
  BY <1>1, SameRows DEF Listed
<1>4. {p.pos : p \in T} = {p.pos : p \in R}
  BY <1>1
<1>5. T \subseteq PhotoRows
  BY <1>1
<1> QED BY <1>2, <1>3, <1>4, <1>5 DEF Listed

\* Taking a row away and moving the later ones down by one.
LEMMA Removed ==
  ASSUME NEW R, Listed(R), NEW v \in R
  PROVE  LET T == Shifted({p \in R : p.id # v.id}, v.pos)
         IN  Listed(T) /\ Cardinality(T) = Cardinality(R) - 1
<1> USE ConstantsAssumption
<1> DEFINE c == Cardinality(R)
           Q == {p \in R : p.id # v.id}
           f == [p \in Q |-> IF p.pos > v.pos THEN [p EXCEPT !.pos = @ - 1] ELSE p]
           T == {f[p] : p \in Q}
<1>1. c \in Nat /\ \A p \in R : p.pos \in 1..c
  BY PositionsUnique
<1>2. Q = R \ {v}
  BY DEF Listed, IdsUnique
<1>3. IsFiniteSet(Q) /\ Cardinality(Q) = c - 1 /\ IdsUnique(Q)
  BY <1>2, FS_RemoveElement DEF Listed, IdsUnique
<1>4. \A p \in Q : p.pos # v.pos /\ p \in PhotoRows /\ p \in R
  BY <1>2, PositionsUnique DEF Listed
<1>5. \A p \in Q : /\ f[p] \in PhotoRows /\ f[p].id = p.id
                    /\ f[p].pos = IF p.pos > v.pos THEN p.pos - 1 ELSE p.pos
  <2> SUFFICES ASSUME NEW p \in Q
               PROVE  /\ f[p] \in PhotoRows /\ f[p].id = p.id
                      /\ f[p].pos = IF p.pos > v.pos THEN p.pos - 1 ELSE p.pos
    OBVIOUS
  <2>1. p.pos \in 1..MaxCount /\ v.pos \in 1..MaxCount /\ p \in PhotoRows
    BY RowFields DEF Listed
  <2>2. CASE p.pos > v.pos
    <3>1. p.pos - 1 \in 1..MaxCount
      BY <2>1, <2>2
    <3>2. f[p] = [p EXCEPT !.pos = p.pos - 1]
      BY <2>2
    <3> QED BY <2>1, <2>2, <3>1, <3>2 DEF PhotoRows
  <2>3. CASE ~(p.pos > v.pos)
    BY <2>1, <2>3
  <2> QED BY <2>2, <2>3
<1>6. T = Shifted(Q, v.pos)
  BY DEF Shifted
<1> HIDE DEF f
<1>7. IsFiniteSet(T) /\ Cardinality(T) = Cardinality(Q) /\ IdsUnique(T)
  <2> HIDE DEF Q
  <2> QED BY <1>3, <1>5, SameRows
<1>8. T \subseteq PhotoRows
  BY <1>5
<1>9. {p.pos : p \in T} = 1..c - 1
  <2>1. \A p \in Q : f[p].pos \in 1..c - 1
    BY <1>1, <1>4, <1>5
  <2>2. \A n \in 1..c - 1 : \E p \in Q : f[p].pos = n
    <3> SUFFICES ASSUME NEW n \in 1..c - 1 PROVE \E p \in Q : f[p].pos = n
      OBVIOUS
    <3>1. v.pos \in 1..c /\ n \in 1..c /\ n + 1 \in 1..c
      BY <1>1
    <3>2. CASE n < v.pos
      <4>1. PICK p \in R : p.pos = n
        BY <3>1, PositionsUnique
      <4>2. p \in Q
        BY <1>2, <3>2, <4>1
      <4> QED BY <1>5, <3>1, <3>2, <4>1, <4>2
    <3>3. CASE ~(n < v.pos)
      <4>1. PICK p \in R : p.pos = n + 1
        BY <3>1, PositionsUnique
      <4>2. p \in Q
        BY <1>2, <3>1, <3>3, <4>1
      <4> QED BY <1>5, <3>1, <3>3, <4>1, <4>2
    <3> QED BY <3>2, <3>3
  <2> QED BY <2>1, <2>2
<1>10. Cardinality(T) = c - 1
  BY <1>3, <1>7
<1> QED BY <1>6, <1>7, <1>8, <1>9, <1>10 DEF Listed

\* An order of n ids names each of them at one position.
LEMMA OrderPositions ==
  ASSUME NEW I, IsFiniteSet(I), NEW s \in Orders(I)
  PROVE  /\ Cardinality(I) \in Nat
         /\ s \in [1..Cardinality(I) -> I]
         /\ \A i \in I : PositionIn(s, i) \in 1..Cardinality(I) /\ s[PositionIn(s, i)] = i
         /\ \A n \in 1..Cardinality(I) : PositionIn(s, s[n]) = n
<1> DEFINE c == Cardinality(I)
<1>1. c \in Nat /\ Cardinality(1..c) = c /\ IsFiniteSet(1..c)
  BY FS_CardinalityType, FS_Interval
<1>2. s \in [1..c -> I] /\ DOMAIN s = 1..c /\ \A i \in I : \E n \in 1..c : s[n] = i
  BY DEF Orders
<1>3. \A i \in I : PositionIn(s, i) \in 1..c /\ s[PositionIn(s, i)] = i
  BY <1>2 DEF PositionIn
<1>4. s \in Injection(1..c, I)
  <2>1. s \in Surjection(1..c, I)
    <3> HIDE DEF c
    <3> QED BY <1>2, Fun_IsSurj
  <2>2. Cardinality(1..c) = Cardinality(I)
    BY <1>1
  <2> HIDE DEF c
  <2> QED BY <1>1, <2>1, <2>2, FS_SurjSameCardinalityImpliesInj
<1>5. \A m, n \in 1..c : s[m] = s[n] => m = n
  <2> HIDE DEF c
  <2> QED BY <1>4, Fun_InjectionProperties
<1>6. \A n \in 1..c : PositionIn(s, s[n]) = n
  BY <1>2, <1>3, <1>5
<1> QED BY <1>1, <1>2, <1>3, <1>6

\* The rows R in the order s of their ids.
Renumbered(R, s) == {[p EXCEPT !.pos = PositionIn(s, p.id)] : p \in R}

\* They are listed again, in that order.
LEMMA Reordered ==
  ASSUME NEW R, Listed(R), Cardinality(R) <= MaxCount, NEW w \in Orders({p.id : p \in R}),
         NEW S, S = Renumbered(R, w)
  PROVE  Listed(S) /\ Cardinality(S) = Cardinality(R) /\ Order(S) = w
<1> USE ConstantsAssumption
<1> DEFINE c == Cardinality(R)
           I == {p.id : p \in R}
           f == [p \in R |-> [p EXCEPT !.pos = PositionIn(w, p.id)]]
           T == {f[p] : p \in R}
<1>1. c \in Nat /\ c <= MaxCount
  BY PositionsUnique
<1>2. IsFiniteSet(I) /\ Cardinality(I) = c
  <2> DEFINE g == [p \in R |-> p.id]
  <2>1. /\ g \in [R -> I] /\ \A i \in I : \E p \in R : g[p] = i
        /\ \A p, r \in R : g[p] = g[r] => p = r
    BY DEF Listed, IdsUnique
  <2> HIDE DEF g, I
  <2>2. g \in Bijection(R, I)
    BY <2>1, Fun_IsBij
  <2>3. ExistsBijection(R, I)
    BY <2>2, Fun_ExistsBij
  <2> QED BY <2>3, FS_Bijection DEF Listed
<1>3. /\ w \in [1..c -> I]
      /\ \A i \in I : PositionIn(w, i) \in 1..c /\ w[PositionIn(w, i)] = i
      /\ \A n \in 1..c : PositionIn(w, w[n]) = n
  <2>1. w \in Orders(I)
    OBVIOUS
  <2> HIDE DEF I
  <2> QED BY <1>2, <2>1, OrderPositions
<1>4. \A p \in R : /\ p \in PhotoRows /\ p.id \in I /\ f[p].id = p.id
                    /\ f[p].pos = PositionIn(w, p.id) /\ f[p].pos \in 1..c /\ f[p] \in PhotoRows
  <2> SUFFICES ASSUME NEW p \in R
               PROVE  /\ p \in PhotoRows /\ p.id \in I /\ f[p].id = p.id
                      /\ f[p].pos = PositionIn(w, p.id) /\ f[p].pos \in 1..c /\ f[p] \in PhotoRows
    OBVIOUS
  <2>1. p \in PhotoRows /\ p.id \in I
    BY DEF Listed
  <2>2. PositionIn(w, p.id) \in 1..c /\ PositionIn(w, p.id) \in 1..MaxCount
    BY <1>1, <1>3, <2>1
  <2>3. f[p] = [p EXCEPT !.pos = PositionIn(w, p.id)]
    OBVIOUS
  <2> HIDE DEF f, I
  <2> QED BY <2>1, <2>2, <2>3 DEF PhotoRows
<1>5. S = T
  BY DEF Renumbered
<1> HIDE DEF f
<1>6. IsFiniteSet(T) /\ Cardinality(T) = c /\ IdsUnique(T)
  <2>1. IsFiniteSet(R) /\ IdsUnique(R)
    BY DEF Listed
  <2>2. \A p \in R : f[p].id = p.id
    BY <1>4
  <2> QED BY <2>1, <2>2, SameRows
<1>7. T \subseteq PhotoRows
  BY <1>4
<1>8. \A n \in 1..c : \E p \in R : p.id = w[n] /\ f[p].pos = n
  BY <1>3, <1>4
<1>9. {p.pos : p \in T} = 1..c
  BY <1>4, <1>8
<1>10. Listed(T)
  BY <1>6, <1>7, <1>9 DEF Listed
<1>11. Order(T) = w
  <2>1. Order(T) \in Seq(Ids) /\ Len(Order(T)) = c /\ \A r \in T : Order(T)[r.pos] = r.id
    <3> HIDE DEF T
    <3> QED BY <1>6, <1>10, OrderIsByPosition
  <2>2. \A n \in 1..c : Order(T)[n] = w[n]
    <3> SUFFICES ASSUME NEW n \in 1..c PROVE Order(T)[n] = w[n]
      OBVIOUS
    <3>1. PICK p \in R : p.id = w[n] /\ f[p].pos = n
      BY <1>8
    <3>2. f[p] \in T /\ f[p].id = w[n]
      BY <1>4, <3>1
    <3> HIDE DEF T
    <3> QED BY <2>1, <3>1, <3>2
  <2>3. w \in Seq(Ids) /\ Len(w) = c
    <3>1. w \in [1..c -> Ids]
      BY <1>3, <1>4, RowFields DEF Listed
    <3> HIDE DEF c
    <3> QED BY <1>1, <3>1
  <2> HIDE DEF T, c
  <2> QED BY <2>1, <2>2, <2>3, SeqEqual
<1> HIDE DEF T
<1> QED BY <1>5, <1>6, <1>10, <1>11
-----------------------------------------------------------------------------
(* The inductive invariant. *)

\* The objects a request has uploaded and not handed over to a row, or is about to
\* remove.
Carried(q) == Upload(q) \cup req[q].trash

\* What a request is doing is consistent with the record, its lock and its photos.
RequestsSound ==
  /\ lock # NoRequest => live
  /\ \A q \in Requests :
       /\ req[q].pc = "read" => req[q].seen = photos
       /\ req[q].pc = "sweep" => ~live
       /\ req[q].key # 0 => req[q].pc \in {"begun", "locked", "read"}
       /\ req[q].pc \in {"begun", "locked", "read"} /\ req[q].op \in {"append", "replace"} =>
            req[q].key # 0
       /\ req[q].trash # {} => req[q].pc = "clean"

\* Every object belongs to at most one row or request.
KeysOwned ==
  /\ \A p, r \in photos : p.key = r.key => p = r
  /\ \A p \in photos : p.id <= uploads
  /\ \A q \in Requests : Upload(q) \subseteq objects /\ Carried(q) \subseteq 1..uploads
  /\ \A q \in Requests : \A p \in photos : p.key \notin Carried(q) /\ p.id \notin Upload(q)
  /\ \A q, r \in Requests : q # r => Carried(q) \cap Carried(r) = {}

Listing == Listed(photos) /\ Cardinality(photos) <= MaxCount

IInv ==
  /\ TypeOK
  /\ Listing
  /\ RequestsSound
  /\ KeysOwned
  /\ RowsHaveObjects

\* The inductive invariant holds at the start.
THEOREM InitIInv == Init => IInv
<1> SUFFICES ASSUME Init PROVE IInv
  OBVIOUS
<1> USE ConstantsAssumption
<1>1. /\ photos = {} /\ objects = {} /\ uploads = 0 /\ live = TRUE /\ lock = NoRequest
      /\ \A q \in Requests : req[q] = Idle
      /\ req = [q \in Requests |-> Idle]
  BY DEF Init
<1>2. Idle \in RequestStates
  BY DEF Idle, RequestStates, Ops
<1>3. Idle.pc = "idle" /\ Idle.key = 0 /\ Idle.trash = {}
  BY DEF Idle
<1>4. TypeOK
  BY <1>1, <1>2, <1>3 DEF TypeOK
<1>5. Listing
  BY <1>1, NothingListed DEF Listing
<1>6. RequestsSound
  BY <1>1, <1>3 DEF RequestsSound
<1>7. \A q \in Requests : Carried(q) = {} /\ Upload(q) = {}
  BY <1>1, <1>3 DEF Carried, Upload
<1>8. KeysOwned /\ RowsHaveObjects
  BY <1>1, <1>7 DEF KeysOwned, RowsHaveObjects
<1> QED BY <1>4, <1>5, <1>6, <1>8 DEF IInv
-----------------------------------------------------------------------------
(* Types. *)

LEMMA IdleTyped ==
  /\ Idle \in RequestStates
  /\ Idle.pc = "idle" /\ Idle.key = 0 /\ Idle.trash = {} /\ Idle.op = "append"
  BY ConstantsAssumption DEF Idle, RequestStates, Ops

LEMMA RequestFields ==
  ASSUME TypeOK, NEW q \in Requests
  PROVE  /\ req[q] \in RequestStates
         /\ req[q].pc \in {"idle", "begun", "locked", "read", "sweep", "clean"}
         /\ req[q].key \in {0} \cup Keys
         /\ req[q].trash \subseteq Keys
         /\ req[q].op \in Ops
         /\ lock = q <=> req[q].pc \in {"locked", "read"}
         /\ q # NoRequest
  BY ConstantsAssumption DEF TypeOK, RequestStates

\* What Finish leaves behind.
LEMMA Finished ==
  ASSUME TypeOK, NEW q \in Requests, NEW t \in SUBSET Keys, Finish(q, t)
  PROVE  /\ req' \in [Requests -> RequestStates]
         /\ \A r \in Requests \ {q} : req'[r] = req[r]
         /\ req'[q].pc \in {"idle", "clean"} /\ req'[q].key = 0 /\ req'[q].trash = t
         /\ t # {} => req'[q].pc = "clean"
<1> DEFINE s == IF t = {} THEN Idle ELSE [Idle EXCEPT !.pc = "clean", !.trash = t]
<1>1. /\ s \in RequestStates /\ s.pc \in {"idle", "clean"} /\ s.key = 0 /\ s.trash = t
      /\ t # {} => s.pc = "clean"
  <2>1. CASE t = {}
    BY <2>1, IdleTyped
  <2>2. CASE t # {}
    BY <2>2, IdleTyped DEF RequestStates
  <2> QED BY <2>1, <2>2
<1>2. req' = [req EXCEPT ![q] = s] /\ req \in [Requests -> RequestStates]
  BY DEF Finish, Become, TypeOK
<1> HIDE DEF s
<1> QED BY <1>1, <1>2

\* A request that gets a new state, and only that.
LEMMA Became ==
  ASSUME TypeOK, NEW q \in Requests, NEW s \in RequestStates, Become(q, s)
  PROVE  /\ req' \in [Requests -> RequestStates]
         /\ \A r \in Requests \ {q} : req'[r] = req[r]
         /\ req'[q] = s
  BY DEF Become, TypeOK

\* The lock after a step that ends q's transaction, or never had one.
LEMMA LockReleased ==
  ASSUME TypeOK, NEW q \in Requests, lock' = Unlocked(q),
         \A r \in Requests \ {q} : req'[r] = req[r],
         req'[q].pc \notin {"locked", "read"}
  PROVE  /\ lock' \in Requests \cup {NoRequest}
         /\ \A r \in Requests : lock' = r <=> req'[r].pc \in {"locked", "read"}
         /\ lock' # NoRequest => lock # NoRequest
  BY ConstantsAssumption DEF TypeOK, Unlocked

\* The lock after a step that neither begins nor ends a transaction.
LEMMA LockKept ==
  ASSUME TypeOK, NEW q \in Requests, lock' = lock,
         \A r \in Requests \ {q} : req'[r] = req[r],
         req'[q].pc \in {"locked", "read"} <=> req[q].pc \in {"locked", "read"}
  PROVE  /\ lock' \in Requests \cup {NoRequest}
         /\ \A r \in Requests : lock' = r <=> req'[r].pc \in {"locked", "read"}
  BY DEF TypeOK
-----------------------------------------------------------------------------
(* Steps that change no photo. *)

\* The objects stay owned when requests give some up, and only objects that a
\* request was to remove are removed.
LEMMA KeysShrink ==
  ASSUME KeysOwned, RowsHaveObjects, photos' = photos, uploads' = uploads, objects' \subseteq objects,
         \A r \in Requests : Carried(r)' \subseteq Carried(r) /\ Upload(r)' \subseteq Upload(r),
         \A k \in objects \ objects' : \E q \in Requests : k \in req[q].trash /\ Upload(q) = {}
  PROVE  KeysOwned' /\ RowsHaveObjects'
<1>1. \A k \in objects \ objects' : \E q \in Requests : k \in Carried(q) /\ Upload(q) = {}
  BY DEF Carried
<1>2. \A r \in Requests : Upload(r)' \subseteq objects'
  <2> SUFFICES ASSUME NEW r \in Requests, NEW k \in Upload(r)' PROVE k \in objects'
    OBVIOUS
  <2>1. k \in Upload(r) /\ k \in Carried(r) /\ k \in objects
    BY DEF KeysOwned, Carried
  <2>2. ASSUME k \notin objects' PROVE FALSE
    <3>1. PICK q \in Requests : k \in Carried(q) /\ Upload(q) = {}
      BY <1>1, <2>1, <2>2
    <3> QED BY <2>1, <3>1 DEF KeysOwned
  <2> QED BY <2>2
<1>3. \A p \in photos : p.key \in objects'
  BY <1>1 DEF RowsHaveObjects, KeysOwned
<1>4. /\ \A p, r \in photos : p.key = r.key => p = r
      /\ \A p \in photos : p.id <= uploads
  BY DEF KeysOwned
<1>5. /\ \A q \in Requests : Carried(q)' \subseteq 1..uploads
      /\ \A q \in Requests : \A p \in photos : p.key \notin Carried(q)' /\ p.id \notin Upload(q)'
      /\ \A q, r \in Requests : q # r => Carried(q)' \cap Carried(r)' = {}
  BY DEF KeysOwned
<1> QED BY <1>2, <1>3, <1>4, <1>5 DEF KeysOwned, RowsHaveObjects

LEMMA CarriedSame ==
  ASSUME NEW r \in Requests, req'[r].key = req[r].key, req'[r].trash = req[r].trash
  PROVE  Carried(r)' = Carried(r) /\ Upload(r)' = Upload(r)
  BY DEF Carried, Upload

\* Taking an uploaded object along: k is new.
LEMMA PutStep ==
  ASSUME IInv, NEW q \in Requests, NEW op \in {"append", "replace"}, NEW n \in 1..MaxCount,
         Put(q, op, n)
  PROVE  IInv'
<1> USE ConstantsAssumption
<1> DEFINE k == uploads + 1
<1>1. TypeOK /\ uploads \in Nat /\ k \in Keys /\ k \in Nat
  BY DEF IInv, TypeOK, Put, Keys
<1>2. /\ req[q] = Idle /\ req[q].pc = "idle" /\ live' = live /\ lock' = lock /\ photos' = photos
      /\ uploads' = k /\ objects' = objects \cup {k}
  BY IdleTyped DEF Put
<1>3. /\ req' \in [Requests -> RequestStates]
      /\ \A r \in Requests \ {q} : req'[r] = req[r]
      /\ req'[q].pc = "begun" /\ req'[q].key = k /\ req'[q].trash = {} /\ req'[q].op = op
  <2> DEFINE m == IF op = "replace" THEN n ELSE 0
             s == [Idle EXCEPT !.pc = "begun", !.op = op, !.key = k, !.pos = m]
  <2>1. Become(q, s)
    BY DEF Put
  <2>2. op \in Ops /\ m \in 0..MaxCount
    BY DEF Ops
  <2>3. s \in RequestStates /\ s.pc = "begun" /\ s.key = k /\ s.trash = {} /\ s.op = op
    <3> HIDE DEF m, k
    <3> QED BY <1>1, <2>2, IdleTyped DEF RequestStates
  <2> HIDE DEF s
  <2> QED BY <1>1, <2>1, <2>3, Became
<1>4. TypeOK'
  <2>1. lock' \in Requests \cup {NoRequest} /\ \A r \in Requests : lock' = r <=> req'[r].pc \in {"locked", "read"}
    BY <1>1, <1>2, <1>3, LockKept
  <2>2. objects' \subseteq 1..uploads' /\ uploads' \in 0..MaxUploads
    BY <1>1, <1>2 DEF TypeOK, Keys
  <2> QED BY <1>1, <1>2, <1>3, <2>1, <2>2 DEF TypeOK
<1>5. Listing'
  BY <1>2 DEF IInv, Listing
<1>6. RequestsSound'
  BY <1>1, <1>2, <1>3 DEF IInv, RequestsSound
<1>7. /\ Carried(q)' = {k} /\ Upload(q)' = {k}
      /\ \A r \in Requests \ {q} : Carried(r)' = Carried(r) /\ Upload(r)' = Upload(r)
  BY <1>1, <1>3 DEF Carried, Upload
<1>8. /\ \A p \in photos : p.key # k /\ p.id # k /\ p.id <= k
      /\ \A r \in Requests : k \notin Carried(r) /\ Carried(r) \subseteq 1..k
  <2>1. \A p \in photos : p.key \in 1..uploads /\ p.id <= uploads /\ p.id \in Nat
    BY <1>1, RowFields DEF IInv, TypeOK, RowsHaveObjects, KeysOwned
  <2>2. \A r \in Requests : Carried(r) \subseteq 1..uploads
    BY DEF IInv, KeysOwned
  <2> QED BY <1>1, <2>1, <2>2
<1>9. KeysOwned'
  <2>1. /\ \A p, r \in photos' : p.key = r.key => p = r
        /\ \A p \in photos' : p.id <= uploads'
    BY <1>2, <1>8 DEF IInv, KeysOwned
  <2>2. \A r \in Requests : Upload(r)' \subseteq objects' /\ Carried(r)' \subseteq 1..uploads'
    BY <1>1, <1>2, <1>7, <1>8 DEF IInv, KeysOwned
  <2>3. \A r \in Requests : \A p \in photos' : p.key \notin Carried(r)' /\ p.id \notin Upload(r)'
    BY <1>2, <1>7, <1>8 DEF IInv, KeysOwned
  <2>4. \A r, t \in Requests : r # t => Carried(r)' \cap Carried(t)' = {}
    BY <1>7, <1>8 DEF IInv, KeysOwned
  <2> QED BY <2>1, <2>2, <2>3, <2>4 DEF KeysOwned
<1>10. RowsHaveObjects'
  BY <1>2 DEF IInv, RowsHaveObjects
<1> QED BY <1>4, <1>5, <1>6, <1>9, <1>10 DEF IInv

\* Requests that begin without an upload.
LEMMA BeginStep ==
  ASSUME IInv, NEW q \in Requests,
         (\E n \in 1..MaxCount : Ask(q, n)) \/ AskOrder(q) \/ DeleteRecord(q)
  PROVE  IInv'
<1> USE ConstantsAssumption
<1>1. /\ TypeOK /\ req[q].pc = "idle" /\ req[q].key = 0 /\ req[q].trash = {}
      /\ lock' = lock /\ photos' = photos /\ objects' = objects /\ uploads' = uploads
      /\ live' \in BOOLEAN
  BY IdleTyped DEF IInv, Ask, AskOrder, DeleteRecord, TypeOK
<1>2. /\ req' \in [Requests -> RequestStates]
      /\ \A r \in Requests \ {q} : req'[r] = req[r]
      /\ req'[q].key = 0 /\ req'[q].trash = {}
      /\ \/ req'[q].pc = "begun" /\ req'[q].op \in {"reorder", "delete"} /\ live' = live
         \/ req'[q].pc = "sweep" /\ ~live' /\ lock = NoRequest
  <2>1. CASE \E n \in 1..MaxCount : Ask(q, n)
    <3> PICK n \in 1..MaxCount : Ask(q, n)
      BY <2>1
    <3> DEFINE s == [Idle EXCEPT !.pc = "begun", !.op = "delete", !.pos = n]
    <3>1. Become(q, s) /\ live' = live
      BY DEF Ask
    <3>2. s \in RequestStates /\ s.pc = "begun" /\ s.op = "delete" /\ s.key = 0 /\ s.trash = {}
      <4>1. n \in 0..MaxCount
        OBVIOUS
      <4> QED BY <4>1, IdleTyped DEF RequestStates, Ops
    <3> HIDE DEF s
    <3> QED BY <1>1, <3>1, <3>2, Became
  <2>2. CASE AskOrder(q)
    <3> DEFINE I == {p.id : p \in photos}
    <3>1. PICK w \in Orders(I) :
            /\ req' = [req EXCEPT ![q] = [Idle EXCEPT !.pc = "begun", !.op = "reorder",
                                           !.expected = Order(photos), !.wanted = w]]
            /\ live' = live
      BY <2>2 DEF AskOrder, Become
    <3>2. Order(photos) \in Seq(Ids)
      BY OrderIsByPosition DEF IInv, Listing
    <3>3. w \in Seq(Ids)
      <4>1. I \subseteq Ids /\ IsFiniteSet(I)
        <5> DEFINE g == [p \in photos |-> p.id]
        <5>1. IsFiniteSet(photos) /\ \A p \in photos : p.id \in Ids
          BY RowFields DEF IInv, Listing, Listed
        <5>2. g \in [photos -> I] /\ \A i \in I : \E p \in photos : g[p] = i
          OBVIOUS
        <5> HIDE DEF g, I
        <5>3. g \in Surjection(photos, I)
          BY <5>2, Fun_IsSurj
        <5>4. IsFiniteSet(I)
          BY <5>1, <5>3, FS_Surjection
        <5> QED BY <5>1, <5>4 DEF I
      <4>2. w \in [1..Cardinality(I) -> I] /\ Cardinality(I) \in Nat
        <5> HIDE DEF I
        <5> QED BY <3>1, <4>1, OrderPositions
      <4> HIDE DEF I
      <4> QED BY <4>1, <4>2
    <3> DEFINE s == [Idle EXCEPT !.pc = "begun", !.op = "reorder", !.expected = Order(photos),
                                 !.wanted = w]
    <3>4. s \in RequestStates /\ s.pc = "begun" /\ s.op = "reorder" /\ s.key = 0 /\ s.trash = {}
      BY <3>2, <3>3, IdleTyped DEF RequestStates, Ops
    <3>5. Become(q, s)
      BY <3>1 DEF Become
    <3> HIDE DEF s
    <3> QED BY <1>1, <3>1, <3>4, <3>5, Became
  <2>3. CASE DeleteRecord(q)
    <3> DEFINE s == [Idle EXCEPT !.pc = "sweep", !.op = "record"]
    <3>1. Become(q, s) /\ ~live' /\ lock = NoRequest
      BY <2>3 DEF DeleteRecord, MayLock
    <3>2. s \in RequestStates /\ s.pc = "sweep" /\ s.key = 0 /\ s.trash = {}
      BY IdleTyped DEF RequestStates, Ops
    <3> HIDE DEF s
    <3> QED BY <1>1, <3>1, <3>2, Became
  <2> QED BY <2>1, <2>2, <2>3
<1>3. TypeOK'
  <2>1. lock' \in Requests \cup {NoRequest} /\ \A r \in Requests : lock' = r <=> req'[r].pc \in {"locked", "read"}
    BY <1>1, <1>2, LockKept
  <2> QED BY <1>1, <1>2, <2>1 DEF TypeOK
<1>4. Listing'
  BY <1>1 DEF IInv, Listing
<1>5. RequestsSound'
  <2>1. \A r \in Requests : req[r].pc = "sweep" => ~live'
    BY <1>2 DEF IInv, RequestsSound
  <2> QED BY <1>1, <1>2, <2>1 DEF IInv, RequestsSound
<1>6. \A r \in Requests : Carried(r)' = Carried(r) /\ Upload(r)' = Upload(r)
  BY <1>1, <1>2, CarriedSame
<1>7. KeysOwned' /\ RowsHaveObjects'
  BY <1>1, <1>6, KeysShrink DEF IInv
<1> QED BY <1>3, <1>4, <1>5, <1>7 DEF IInv

\* RequestsSound only has to be looked at for the request that moves, unless the
\* photos change under a request that has read them.
LEMMA SoundStep ==
  ASSUME RequestsSound, NEW q \in Requests, live' = live, lock' # NoRequest => live,
         \A r \in Requests \ {q} : req'[r] = req[r],
         \A r \in Requests \ {q} : req[r].pc = "read" => photos' = photos,
         req'[q].pc = "read" => req'[q].seen = photos',
         req'[q].pc = "sweep" => ~live,
         req'[q].key # 0 => req'[q].pc \in {"begun", "locked", "read"},
         req'[q].pc \in {"begun", "locked", "read"} /\ req'[q].op \in {"append", "replace"} =>
           req'[q].key # 0,
         req'[q].trash # {} => req'[q].pc = "clean"
  PROVE  RequestsSound'
  BY DEF RequestsSound

LEMMA LockAndReadStep ==
  ASSUME IInv, NEW q \in Requests, Lock(q) \/ Read(q)
  PROVE  IInv'
<1> USE ConstantsAssumption
<1>1. /\ TypeOK /\ req[q] \in RequestStates /\ req[q].pc \in {"begun", "locked"} /\ q # NoRequest
      /\ photos' = photos /\ objects' = objects /\ uploads' = uploads /\ live' = live /\ live
      /\ lock' = q /\ lock \in {q, NoRequest}
  BY RequestFields DEF IInv, Lock, Read, MayLock, RequestsSound
<1>2. /\ req' \in [Requests -> RequestStates]
      /\ \A r \in Requests \ {q} : req'[r] = req[r]
      /\ req'[q].key = req[q].key /\ req'[q].trash = req[q].trash /\ req'[q].op = req[q].op
      /\ req'[q].pc \in {"locked", "read"}
      /\ req'[q].pc = "read" => req'[q].seen = photos
  <2>1. CASE Lock(q)
    <3> DEFINE s == [req[q] EXCEPT !.pc = "locked"]
    <3>1. Become(q, s)
      BY <2>1 DEF Lock
    <3>2. /\ s \in RequestStates /\ s.pc = "locked" /\ s.key = req[q].key /\ s.trash = req[q].trash
          /\ s.op = req[q].op
      BY <1>1 DEF RequestStates
    <3> HIDE DEF s
    <3> QED BY <1>1, <3>1, <3>2, Became
  <2>2. CASE Read(q)
    <3> DEFINE s == [req[q] EXCEPT !.pc = "read", !.seen = photos]
    <3>1. Become(q, s)
      BY <2>2 DEF Read
    <3>2. photos \in SUBSET PhotoRows
      BY <1>1 DEF TypeOK
    <3>3. /\ s \in RequestStates /\ s.pc = "read" /\ s.key = req[q].key /\ s.trash = req[q].trash
          /\ s.op = req[q].op /\ s.seen = photos
      BY <1>1, <3>2 DEF RequestStates
    <3> HIDE DEF s
    <3> QED BY <1>1, <3>1, <3>3, Became
  <2> QED BY <2>1, <2>2
<1>3. TypeOK'
  <2>1. \A r \in Requests : lock' = r <=> req'[r].pc \in {"locked", "read"}
    BY <1>1, <1>2 DEF TypeOK
  <2> QED BY <1>1, <1>2, <2>1 DEF TypeOK
<1>4. Listing'
  BY <1>1 DEF IInv, Listing
<1>5. RequestsSound'
  <2>1. /\ req[q].trash # {} => req[q].pc = "clean"
        /\ req[q].op \in {"append", "replace"} => req[q].key # 0
    BY <1>1 DEF IInv, RequestsSound
  <2> QED BY <1>1, <1>2, <2>1, SoundStep DEF IInv
<1>6. \A r \in Requests : Carried(r)' = Carried(r) /\ Upload(r)' = Upload(r)
  BY <1>2, CarriedSame
<1>7. KeysOwned' /\ RowsHaveObjects'
  BY <1>1, <1>6, KeysShrink DEF IInv
<1> QED BY <1>3, <1>4, <1>5, <1>7 DEF IInv

\* Requests that give up, lose the process, or remove an object.
LEMMA EndStep ==
  ASSUME IInv, NEW q \in Requests, Abort(q) \/ Clean(q) \/ CleanFails(q) \/ Crash(q)
  PROVE  IInv'
<1> USE ConstantsAssumption
<1>1. TypeOK /\ photos' = photos /\ uploads' = uploads /\ live' = live
  BY DEF IInv, Abort, Clean, CleanFails, Crash
<1>2. PICK t \in SUBSET Keys :
        /\ req' \in [Requests -> RequestStates]
        /\ \A r \in Requests \ {q} : req'[r] = req[r]
        /\ req'[q].pc \in {"idle", "clean"} /\ req'[q].key = 0 /\ req'[q].trash = t
        /\ t # {} => req'[q].pc = "clean"
        /\ t \subseteq Carried(q)
  <2>1. CASE Abort(q)
    <3>1. Upload(q) \in SUBSET Keys /\ Finish(q, Upload(q))
      BY <1>1, <2>1, RequestFields DEF Upload, Abort
    <3> QED BY <1>1, <3>1, Finished DEF Carried
  <2>2. CASE Clean(q) \/ CleanFails(q)
    <3>1. PICK k \in req[q].trash : Finish(q, req[q].trash \ {k})
      BY <2>2 DEF Clean, CleanFails
    <3>2. req[q].trash \ {k} \in SUBSET Keys
      BY <1>1, RequestFields
    <3> QED BY <1>1, <3>1, <3>2, Finished DEF Carried
  <2>3. CASE Crash(q)
    <3>1. Become(q, Idle)
      BY <2>3 DEF Crash
    <3> QED BY <1>1, <3>1, IdleTyped, Became
  <2> QED BY <2>1, <2>2, <2>3
<1>3. /\ lock' \in Requests \cup {NoRequest}
      /\ \A r \in Requests : lock' = r <=> req'[r].pc \in {"locked", "read"}
      /\ lock' # NoRequest => lock # NoRequest
  <2>1. CASE Abort(q) \/ Crash(q)
    BY <1>1, <1>2, <2>1, LockReleased DEF Abort, Crash
  <2>2. CASE Clean(q) \/ CleanFails(q)
    <3>1. lock' = lock /\ req[q].pc = "clean"
      BY <2>2 DEF Clean, CleanFails
    <3> QED BY <1>1, <1>2, <3>1, LockKept
  <2> QED BY <2>1, <2>2
<1>4. /\ objects' \subseteq objects
      /\ \A k \in objects \ objects' : \E r \in Requests : k \in req[r].trash /\ Upload(r) = {}
  <2>1. CASE Clean(q)
    <3>1. PICK k \in req[q].trash : objects' = objects \ {k}
      BY <2>1 DEF Clean
    <3>2. Upload(q) = {}
      BY <2>1 DEF Clean, IInv, RequestsSound, Upload
    <3> QED BY <3>1, <3>2
  <2>2. CASE Abort(q) \/ CleanFails(q) \/ Crash(q)
    BY <2>2 DEF Abort, CleanFails, Crash
  <2> QED BY <2>1, <2>2
<1>5. TypeOK'
  <2>1. objects' \subseteq 1..uploads'
    BY <1>1, <1>4 DEF TypeOK
  <2> QED BY <1>1, <1>2, <1>3, <2>1 DEF TypeOK
<1>6. Listing'
  BY <1>1 DEF IInv, Listing
<1>7. RequestsSound'
  <2>1. lock' # NoRequest => live
    BY <1>3 DEF IInv, RequestsSound
  <2> QED BY <1>1, <1>2, <2>1, SoundStep DEF IInv
<1>8. \A r \in Requests : Carried(r)' \subseteq Carried(r) /\ Upload(r)' \subseteq Upload(r)
  <2>1. \A r \in Requests \ {q} : Carried(r)' = Carried(r) /\ Upload(r)' = Upload(r)
    BY <1>2, CarriedSame
  <2>2. Carried(q)' = t /\ Upload(q)' = {}
    BY <1>2 DEF Carried, Upload
  <2> QED BY <1>2, <2>1, <2>2
<1>9. KeysOwned' /\ RowsHaveObjects'
  BY <1>1, <1>4, <1>8, KeysShrink DEF IInv
<1> QED BY <1>5, <1>6, <1>7, <1>9 DEF IInv
-----------------------------------------------------------------------------
(* Steps that change the photos. *)

\* The objects stay owned when request q leaves its upload with the rows and takes
\* over the objects t the rows no longer have.
LEMMA KeysMove ==
  ASSUME TypeOK, KeysOwned, RowsHaveObjects, NEW q \in Requests, NEW t,
         objects' = objects, uploads' = uploads,
         Carried(q)' = t, Upload(q)' = {},
         \A r \in Requests \ {q} : Carried(r)' = Carried(r) /\ Upload(r)' = Upload(r),
         \A k \in t : \E o \in photos : k = o.key,
         \A p \in photos' : p.key \notin t,
         \A p \in photos' : (\E o \in photos : p.key = o.key) \/ p.key \in Upload(q),
         \A p \in photos' : (\E o \in photos : p.id = o.id) \/ p.id \in Upload(q),
         \A p, r \in photos' : p.key = r.key => p = r
  PROVE  KeysOwned' /\ RowsHaveObjects'
<1>1. Upload(q) \subseteq Carried(q) /\ Upload(q) \subseteq objects /\ Upload(q) \subseteq 1..uploads
  BY DEF KeysOwned, Carried
<1>2. \A o \in photos : o.key \in objects /\ o.key \in 1..uploads /\ o.id <= uploads
  BY DEF TypeOK, RowsHaveObjects, KeysOwned
<1>3. \A p \in photos' : p.key \in objects' /\ p.id <= uploads'
  BY <1>1, <1>2
<1>4. \A r \in Requests : Upload(r)' \subseteq objects' /\ Carried(r)' \subseteq 1..uploads'
  BY <1>2 DEF KeysOwned
<1>5. ASSUME NEW r \in Requests, NEW p \in photos'
      PROVE  p.key \notin Carried(r)' /\ p.id \notin Upload(r)'
  <2>1. CASE r = q
    BY <2>1
  <2>2. CASE r # q
    <3>1. Carried(r) \cap Upload(q) = {} /\ Upload(r) \subseteq Carried(r)
      BY <1>1, <2>2 DEF KeysOwned, Carried
    <3>2. \A o \in photos : o.key \notin Carried(r) /\ o.id \notin Upload(r)
      BY DEF KeysOwned
    <3> QED BY <2>2, <3>1, <3>2
  <2> QED BY <2>1, <2>2
<1>6. ASSUME NEW r \in Requests, NEW u \in Requests, r # u
      PROVE  Carried(r)' \cap Carried(u)' = {}
  <2>1. \A o \in photos : o.key \notin Carried(r) /\ o.key \notin Carried(u)
    BY DEF KeysOwned
  <2>2. Carried(r) \cap Carried(u) = {}
    BY <1>6 DEF KeysOwned
  <2> QED BY <1>6, <2>1, <2>2
<1>7. \A p, r \in photos' : p.key = r.key => p = r
  OBVIOUS
<1> QED BY <1>3, <1>4, <1>5, <1>6, <1>7 DEF KeysOwned, RowsHaveObjects

\* What holds when a transaction is about to commit.
LEMMA BeforeCommit ==
  ASSUME IInv, NEW q \in Requests, req[q].pc = "read"
  PROVE  /\ TypeOK /\ live /\ lock = q /\ req[q].seen = photos
         /\ Listed(photos) /\ Cardinality(photos) <= MaxCount /\ Cardinality(photos) \in Nat
         /\ req[q].trash = {}
         /\ \A r \in Requests \ {q} : req[r].pc # "read"
         /\ req[q].op \in {"append", "replace"} =>
              /\ req[q].key \in Keys /\ Upload(q) = {req[q].key}
              /\ req[q].key \in 1..uploads
              /\ \A p \in photos : p.key # req[q].key /\ p.id # req[q].key
<1>1. /\ TypeOK /\ live /\ lock = q /\ req[q].seen = photos /\ req[q].trash = {}
      /\ \A r \in Requests \ {q} : req[r].pc # "read"
  BY RequestFields DEF IInv, TypeOK, RequestsSound
<1>2. Listed(photos) /\ Cardinality(photos) <= MaxCount /\ Cardinality(photos) \in Nat
  BY PositionsUnique DEF IInv, Listing
<1>3. ASSUME req[q].op \in {"append", "replace"}
      PROVE  /\ req[q].key \in Keys /\ Upload(q) = {req[q].key}
             /\ req[q].key \in 1..uploads
             /\ \A p \in photos : p.key # req[q].key /\ p.id # req[q].key
  <2>1. req[q].key \in Keys /\ Upload(q) = {req[q].key}
    BY <1>1, <1>3, RequestFields DEF IInv, RequestsSound, Upload
  <2>2. req[q].key \in Carried(q) /\ Carried(q) \subseteq 1..uploads
    BY <2>1 DEF IInv, KeysOwned, Carried
  <2> QED BY <2>1, <2>2 DEF IInv, KeysOwned
<1> QED BY <1>1, <1>2, <1>3

\* What every commit does besides the rows.
LEMMA CommitFrame ==
  ASSUME IInv, NEW q \in Requests, req[q].pc = "read", NEW t \in SUBSET Keys, Finish(q, t),
         lock' = Unlocked(q), UNCHANGED <<live, objects, uploads>>,
         Listed(photos'), Cardinality(photos') <= MaxCount
  PROVE  /\ TypeOK' /\ Listing' /\ RequestsSound'
         /\ Carried(q)' = t /\ Upload(q)' = {}
         /\ \A r \in Requests \ {q} : Carried(r)' = Carried(r) /\ Upload(r)' = Upload(r)
<1>1. /\ TypeOK /\ live /\ lock = q
      /\ \A r \in Requests \ {q} : req[r].pc # "read"
  BY BeforeCommit
<1>2. /\ req' \in [Requests -> RequestStates]
      /\ \A r \in Requests \ {q} : req'[r] = req[r]
      /\ req'[q].pc \in {"idle", "clean"} /\ req'[q].key = 0 /\ req'[q].trash = t
      /\ t # {} => req'[q].pc = "clean"
  BY <1>1, Finished
<1>3. /\ lock' \in Requests \cup {NoRequest}
      /\ \A r \in Requests : lock' = r <=> req'[r].pc \in {"locked", "read"}
  BY <1>1, <1>2, LockReleased
<1>4. TypeOK'
  BY <1>1, <1>2, <1>3 DEF TypeOK, Listed
<1>5. RequestsSound'
  BY <1>1, <1>2, SoundStep DEF IInv
<1>6. Carried(q)' = t /\ Upload(q)' = {}
  BY <1>2 DEF Carried, Upload
<1>7. \A r \in Requests \ {q} : Carried(r)' = Carried(r) /\ Upload(r)' = Upload(r)
  BY <1>2, CarriedSame
<1> QED BY <1>4, <1>5, <1>6, <1>7 DEF Listing

LEMMA AppendStep ==
  ASSUME IInv, NEW q \in Requests, req[q].pc = "read", Append_(q), lock' = Unlocked(q),
         UNCHANGED <<live, objects, uploads>>
  PROVE  IInv'
<1> DEFINE k == req[q].key
           new == [id |-> k, key |-> k, pos |-> Cardinality(photos) + 1]
<1>1. /\ TypeOK /\ req[q].seen = photos /\ Listed(photos) /\ Cardinality(photos) \in Nat
      /\ k \in Keys /\ Upload(q) = {k} /\ \A p \in photos : p.key # k /\ p.id # k
  BY BeforeCommit DEF Append_
<1>2. photos' = photos \cup {new} /\ RoomFor(photos) /\ Finish(q, {})
  BY <1>1 DEF Append_
<1>3. new.id = k /\ new.key = k
  OBVIOUS
<1>4. Listed(photos') /\ Cardinality(photos') = Cardinality(photos) + 1
  BY <1>1, <1>2, Appended DEF Ids
<1>5. Cardinality(photos') <= MaxCount
  BY <1>1, <1>2, <1>4, ConstantsAssumption DEF RoomFor
<1>6. /\ TypeOK' /\ Listing' /\ RequestsSound' /\ Carried(q)' = {} /\ Upload(q)' = {}
      /\ \A r \in Requests \ {q} : Carried(r)' = Carried(r) /\ Upload(r)' = Upload(r)
  BY <1>2, <1>4, <1>5, CommitFrame
<1>7. /\ \A p \in photos' : p \in photos \/ p = new
      /\ \A p, r \in photos' : p.key = r.key => p = r
  <2> HIDE DEF new
  <2> QED BY <1>1, <1>2, <1>3 DEF IInv, KeysOwned
<1>8. /\ \A p \in photos' : (\E o \in photos : p.key = o.key) \/ p.key \in Upload(q)
      /\ \A p \in photos' : (\E o \in photos : p.id = o.id) \/ p.id \in Upload(q)
  <2> HIDE DEF new, k
  <2> QED BY <1>1, <1>3, <1>7
<1>9. KeysOwned' /\ RowsHaveObjects'
  <2> HIDE DEF new, k
  <2> QED BY <1>1, <1>6, <1>7, <1>8, KeysMove DEF IInv
<1> QED BY <1>6, <1>9 DEF IInv

LEMMA ReplaceStep ==
  ASSUME IInv, NEW q \in Requests, req[q].pc = "read", Replace(q), lock' = Unlocked(q),
         UNCHANGED <<live, objects, uploads>>
  PROVE  IInv'
<1> DEFINE k == req[q].key
<1>1. /\ TypeOK /\ req[q].seen = photos /\ Listed(photos) /\ Cardinality(photos) <= MaxCount
      /\ k \in Keys /\ Upload(q) = {k} /\ \A p \in photos : p.key # k /\ p.id # k
  BY BeforeCommit DEF Replace
<1>2. PICK v \in photos :
        /\ photos' = {IF p.id = v.id THEN [p EXCEPT !.key = k] ELSE p : p \in photos}
        /\ Finish(q, {v.key})
  BY <1>1 DEF Replace, Outdated
<1>3. Listed(photos') /\ Cardinality(photos') <= MaxCount
  BY <1>1, <1>2, Replaced
<1>4. v.key \in Keys
  BY <1>1, RowFields DEF Listed
<1>5. /\ TypeOK' /\ Listing' /\ RequestsSound' /\ Carried(q)' = {v.key} /\ Upload(q)' = {}
      /\ \A r \in Requests \ {q} : Carried(r)' = Carried(r) /\ Upload(r)' = Upload(r)
  BY <1>2, <1>3, <1>4, CommitFrame
<1> HIDE DEF k
<1>6. \A p \in photos : p \in PhotoRows /\ (p.id = v.id => p = v)
  BY <1>1 DEF Listed, IdsUnique
<1>7. \A p \in photos' : \/ p \in photos /\ p # v /\ p.id # v.id
                         \/ p.id = v.id /\ p.key = k
  <2> SUFFICES ASSUME NEW o \in photos
               PROVE  LET p == IF o.id = v.id THEN [o EXCEPT !.key = k] ELSE o
                      IN  \/ p \in photos /\ p # v /\ p.id # v.id
                          \/ p.id = v.id /\ p.key = k
    BY <1>2
  <2>1. CASE o.id = v.id
    BY <1>6, <2>1 DEF PhotoRows
  <2>2. CASE o.id # v.id
    BY <2>2
  <2> QED BY <2>1, <2>2
<1>8. \A p \in photos' : p.id = v.id => \A r \in photos' : r.id = v.id => p = r
  BY <1>3 DEF Listed, IdsUnique
<1>9. \A p, r \in photos' : p.key = r.key => p = r
  BY <1>1, <1>7, <1>8 DEF IInv, KeysOwned
<1>10. \A p \in photos' : p.key \notin {v.key}
  BY <1>1, <1>7 DEF IInv, KeysOwned
<1>11. /\ \A p \in photos' : (\E o \in photos : p.key = o.key) \/ p.key \in Upload(q)
       /\ \A p \in photos' : (\E o \in photos : p.id = o.id) \/ p.id \in Upload(q)
  BY <1>1, <1>7
<1>12. KeysOwned' /\ RowsHaveObjects'
  BY <1>1, <1>5, <1>9, <1>10, <1>11, KeysMove DEF IInv
<1> QED BY <1>5, <1>12 DEF IInv

LEMMA DeleteStep ==
  ASSUME IInv, NEW q \in Requests, req[q].pc = "read", Delete(q), lock' = Unlocked(q),
         UNCHANGED <<live, objects, uploads>>
  PROVE  IInv'
<1>1. /\ TypeOK /\ req[q].seen = photos /\ Listed(photos) /\ Cardinality(photos) <= MaxCount
      /\ Cardinality(photos) \in Nat
  BY BeforeCommit
<1>2. PICK v \in photos :
        /\ photos' = Shifted({p \in photos : p.id # v.id}, v.pos)
        /\ Finish(q, {v.key})
  BY <1>1 DEF Delete, Outdated
<1>3. Listed(photos') /\ Cardinality(photos') <= MaxCount
  <2>1. Listed(photos') /\ Cardinality(photos') = Cardinality(photos) - 1
    BY <1>1, <1>2, Removed
  <2> QED BY <1>1, <2>1, ConstantsAssumption
<1>4. v.key \in Keys
  BY <1>1, RowFields DEF Listed
<1>5. /\ TypeOK' /\ Listing' /\ RequestsSound' /\ Carried(q)' = {v.key} /\ Upload(q)' = {}
      /\ \A r \in Requests \ {q} : Carried(r)' = Carried(r) /\ Upload(r)' = Upload(r)
  BY <1>2, <1>3, <1>4, CommitFrame
<1>6. \A p \in photos' : \E o \in photos : p.id = o.id /\ p.key = o.key /\ o.id # v.id
  <2> SUFFICES ASSUME NEW o \in photos, o.id # v.id
               PROVE  LET p == IF o.pos > v.pos THEN [o EXCEPT !.pos = @ - 1] ELSE o
                      IN  p.id = o.id /\ p.key = o.key
    BY <1>2 DEF Shifted
  <2>1. o \in PhotoRows
    BY <1>1 DEF Listed
  <2> QED BY <2>1 DEF PhotoRows
<1>7. \A p \in photos' : p.key \notin {v.key}
  BY <1>6 DEF IInv, KeysOwned
<1>8. \A p, r \in photos' : p.key = r.key => p = r
  <2>1. \A p, r \in photos' : p.key = r.key => p.id = r.id
    BY <1>6 DEF IInv, KeysOwned
  <2> QED BY <1>3, <2>1 DEF Listed, IdsUnique
<1>9. /\ \A p \in photos' : (\E o \in photos : p.key = o.key) \/ p.key \in Upload(q)
      /\ \A p \in photos' : (\E o \in photos : p.id = o.id) \/ p.id \in Upload(q)
  BY <1>6
<1>10. KeysOwned' /\ RowsHaveObjects'
  BY <1>1, <1>5, <1>7, <1>8, <1>9, KeysMove DEF IInv
<1> QED BY <1>5, <1>10 DEF IInv

\* A reorder renumbers the rows, and turns one order into the other.
LEMMA ReorderResult ==
  ASSUME IInv, NEW q \in Requests, req[q].pc = "read", Reorder(q)
  PROVE  /\ photos' = Renumbered(photos, req[q].wanted)
         /\ req[q].wanted \in Orders({p.id : p \in photos})
         /\ Listed(photos') /\ Cardinality(photos') = Cardinality(photos)
         /\ Order(photos) = req[q].expected /\ Order(photos') = req[q].wanted
<1> DEFINE w == req[q].wanted
<1>1. req[q].seen = photos /\ Listed(photos) /\ Cardinality(photos) <= MaxCount
  BY BeforeCommit
<1>2. /\ w \in Orders({p.id : p \in photos}) /\ Order(photos) = req[q].expected
      /\ photos' = {IF \E v \in photos : v.id = p.id
                    THEN [p EXCEPT !.pos = PositionIn(w, p.id)] ELSE p : p \in photos}
  BY <1>1 DEF Reorder, ExpectedMatches
<1>3. photos' = Renumbered(photos, w)
  BY <1>2 DEF Renumbered
<1> HIDE DEF w
<1>4. \A S : S = Renumbered(photos, w)
              => Listed(S) /\ Cardinality(S) = Cardinality(photos) /\ Order(S) = w
  BY <1>1, <1>2, Reordered
<1>5. Listed(photos') /\ Cardinality(photos') = Cardinality(photos) /\ Order(photos') = w
  BY <1>3, <1>4
<1> QED BY <1>2, <1>3, <1>5 DEF w

LEMMA ReorderStep ==
  ASSUME IInv, NEW q \in Requests, req[q].pc = "read", Reorder(q), lock' = Unlocked(q),
         UNCHANGED <<live, objects, uploads>>
  PROVE  IInv'
<1> DEFINE w == req[q].wanted
<1>1. TypeOK /\ Listed(photos) /\ Cardinality(photos) <= MaxCount
  BY BeforeCommit
<1>2. /\ photos' = Renumbered(photos, w) /\ Finish(q, {})
      /\ Listed(photos') /\ Cardinality(photos') = Cardinality(photos)
  BY ReorderResult DEF Reorder
<1> HIDE DEF w
<1>3. Listed(photos') /\ Cardinality(photos') <= MaxCount
  BY <1>1, <1>2
<1>4. /\ TypeOK' /\ Listing' /\ RequestsSound' /\ Carried(q)' = {} /\ Upload(q)' = {}
      /\ \A r \in Requests \ {q} : Carried(r)' = Carried(r) /\ Upload(r)' = Upload(r)
  BY <1>2, <1>3, CommitFrame
<1>5. \A p \in photos' : \E o \in photos : p.id = o.id /\ p.key = o.key
  <2>1. \A o \in photos : LET p == [o EXCEPT !.pos = PositionIn(w, o.id)]
                          IN  p.id = o.id /\ p.key = o.key
    BY <1>1 DEF Listed, PhotoRows
  <2> QED BY <1>2, <2>1 DEF Renumbered
<1>6. \A p, r \in photos' : p.key = r.key => p = r
  <2>1. \A p, r \in photos' : p.key = r.key => p.id = r.id
    BY <1>5 DEF IInv, KeysOwned
  <2> QED BY <1>3, <2>1 DEF Listed, IdsUnique
<1>7. /\ \A p \in photos' : (\E o \in photos : p.key = o.key) \/ p.key \in Upload(q)
      /\ \A p \in photos' : (\E o \in photos : p.id = o.id) \/ p.id \in Upload(q)
  BY <1>5
<1>8. KeysOwned' /\ RowsHaveObjects'
  BY <1>1, <1>4, <1>6, <1>7, KeysMove DEF IInv
<1> QED BY <1>4, <1>8 DEF IInv

LEMMA SweepStep ==
  ASSUME IInv, NEW q \in Requests, Sweep(q)
  PROVE  IInv'
<1> DEFINE t == {p.key : p \in photos}
<1>1. /\ TypeOK /\ ~live /\ lock = NoRequest /\ req[q].pc = "sweep" /\ q # NoRequest
      /\ \A r \in Requests : req[r].pc # "read"
  BY RequestFields, ConstantsAssumption DEF IInv, Sweep, RequestsSound, TypeOK
<1>2. /\ photos' = {} /\ live' = live /\ lock' = lock /\ objects' = objects /\ uploads' = uploads
      /\ Finish(q, t)
  BY DEF Sweep
<1>3. t \in SUBSET Keys
  BY RowFields DEF IInv, Listing, Listed
<1> HIDE DEF t
<1>4. /\ req' \in [Requests -> RequestStates]
      /\ \A r \in Requests \ {q} : req'[r] = req[r]
      /\ req'[q].pc \in {"idle", "clean"} /\ req'[q].key = 0 /\ req'[q].trash = t
      /\ t # {} => req'[q].pc = "clean"
  BY <1>1, <1>2, <1>3, Finished
<1>5. TypeOK'
  <2>1. lock' \in Requests \cup {NoRequest} /\ \A r \in Requests : lock' = r <=> req'[r].pc \in {"locked", "read"}
    BY <1>1, <1>2, <1>4, LockKept
  <2> QED BY <1>1, <1>2, <1>4, <2>1 DEF TypeOK
<1>6. Listing'
  BY <1>2, NothingListed, ConstantsAssumption DEF Listing
<1>7. RequestsSound'
  BY <1>1, <1>2, <1>4, SoundStep DEF IInv
<1>8. /\ Carried(q)' = t /\ Upload(q)' = {}
      /\ \A r \in Requests \ {q} : Carried(r)' = Carried(r) /\ Upload(r)' = Upload(r)
  BY <1>4, CarriedSame DEF Carried, Upload
<1>9. \A k \in t : \E o \in photos : k = o.key
  BY DEF t
<1>10. KeysOwned' /\ RowsHaveObjects'
  BY <1>1, <1>2, <1>8, <1>9, KeysMove DEF IInv
<1> QED BY <1>5, <1>6, <1>7, <1>10 DEF IInv

\* Every step of the code (photo_service.go) keeps it.
THEOREM StepIInv == IInv /\ [Next]_vars => IInv'
<1> SUFFICES ASSUME IInv, [Next]_vars PROVE IInv'
  OBVIOUS
<1>1. CASE UNCHANGED vars
  <2>1. TypeOK' /\ Listing' /\ RowsHaveObjects'
    BY <1>1 DEF IInv, vars, TypeOK, Listing, RowsHaveObjects
  <2>2. RequestsSound'
    BY <1>1 DEF IInv, vars, RequestsSound
  <2>3. KeysOwned'
    BY <1>1 DEF IInv, vars, KeysOwned, Carried, Upload
  <2> QED BY <2>1, <2>2, <2>3 DEF IInv
<1>2. ASSUME NEW q \in Requests, Commit(q)
      PROVE  IInv'
  <2>1. req[q].pc = "read" /\ lock' = Unlocked(q) /\ UNCHANGED <<live, objects, uploads>>
    BY <1>2 DEF Commit
  <2> QED BY <1>2, <2>1, AppendStep, ReplaceStep, DeleteStep, ReorderStep DEF Commit
<1>3. CASE Next
  <2> PICK q \in Requests :
        \/ \E op \in {"append", "replace"}, n \in 1..MaxCount : Put(q, op, n)
        \/ (\E n \in 1..MaxCount : Ask(q, n)) \/ AskOrder(q) \/ DeleteRecord(q)
        \/ Step(q) \/ CleanFails(q) \/ Crash(q)
    BY <1>3 DEF Next
  <2> QED BY <1>2, PutStep, BeginStep, LockAndReadStep, EndStep, SweepStep DEF Step
<1> QED BY <1>1, <1>3

\* So it always holds.
THEOREM AlwaysIInv == Spec => []IInv
  BY InitIInv, StepIInv, PTL DEF Spec
-----------------------------------------------------------------------------
(* What follows from the invariant. *)

\* Every variable keeps its type, and the record's row lock is held exactly by
\* the request inside its transaction (lockPhotoRecordTx).
THEOREM TypeCorrect == Spec => []TypeOK
  BY AlwaysIInv, PTL DEF IInv

\* Whatever uploads, deletes, reorders and record deletions overlap, fail or crash,
\* the positions stay 1..n and n stays within RECORD_PHOTO_MAX_COUNT.
THEOREM PositionsContiguous == Spec => []Contiguous
<1>1. IInv => Contiguous
  BY DEF IInv, Listing, Listed, Contiguous
<1> QED BY <1>1, AlwaysIInv, PTL

\* A row never names an object that is not in the store: an upload is removed only
\* when its row was not written, an old object only when no row names it any more.
THEOREM PhotosReadable == Spec => []RowsHaveObjects
  BY AlwaysIInv, PTL DEF IInv

\* No object is named by two rows, or by a row and by a request that will remove it.
THEOREM KeysNeverShared == Spec => []KeysUnshared
<1>1. IInv => KeysUnshared
  BY DEF IInv, KeysOwned, Carried, KeysUnshared
<1> QED BY <1>1, AlwaysIInv, PTL

\* A reorder replaces exactly the order its client had seen by the one it asked for.
THEOREM ReordersAreAsAsked == Spec => ReorderIsAsAsked
<1> DEFINE Asked == \A q \in Requests :
                      Commit(q) /\ req[q].op = "reorder" =>
                        /\ Order(photos) = req[q].expected
                        /\ Order(photos') = req[q].wanted
<1>1. IInv => Asked
  <2> SUFFICES ASSUME IInv, NEW q \in Requests, Commit(q), req[q].op = "reorder"
               PROVE  Order(photos) = req[q].expected /\ Order(photos') = req[q].wanted
    OBVIOUS
  <2>1. req[q].pc = "read" /\ Reorder(q)
    BY DEF Commit, Append_, Replace, Delete
  <2> QED BY <2>1, ReorderResult
<1>2. IInv => [Asked]_vars
  BY <1>1
<1> QED BY <1>2, AlwaysIInv, PTL DEF ReorderIsAsAsked
-----------------------------------------------------------------------------
(* The photos are the list of PhotoList: what each operation does to the order. *)

\* A sequence that has every row's id at its position is the order.
LEMMA OrderIs ==
  ASSUME NEW R, Listed(R), NEW s \in Seq(Ids), Len(s) = Cardinality(R),
         \A r \in R : s[r.pos] = r.id
  PROVE  Order(R) = s
<1>1. \A n \in 1..Len(s) : Order(R)[n] = s[n]
  BY OrderIsByPosition, PositionsUnique
<1> QED BY <1>1, OrderIsByPosition, SeqEqual

LEMMA AppendedOrder ==
  ASSUME NEW R, Listed(R), NEW k \in Ids, NEW new, NEW T, T = R \cup {new}, Listed(T),
         new.id = k, new.pos = Cardinality(R) + 1, Cardinality(T) = Cardinality(R) + 1
  PROVE  Order(T) = Append(Order(R), k)
<1> DEFINE o == Order(R)
           s == Append(o, k)
<1>1. /\ o \in Seq(Ids) /\ Len(o) = Cardinality(R) /\ Cardinality(R) \in Nat
      /\ \A r \in R : o[r.pos] = r.id /\ r.pos \in 1..Cardinality(R)
  BY OrderIsByPosition, PositionsUnique
<1> HIDE DEF o
<1>2. s \in Seq(Ids) /\ Len(s) = Cardinality(T)
  BY <1>1
<1>3. \A n \in 1..Cardinality(R) : s[n] = o[n]
  BY <1>1
<1>4. s[Cardinality(R) + 1] = k
  BY <1>1
<1>5. \A r \in T : s[r.pos] = r.id
  <2> HIDE DEF s
  <2> QED BY <1>1, <1>3, <1>4
<1> HIDE DEF s
<1>6. Order(T) = s
  BY <1>2, <1>5, OrderIs
<1> QED BY <1>6 DEF s, o

LEMMA ReplacedOrder ==
  ASSUME NEW R, Listed(R), NEW T, Listed(T), Cardinality(T) = Cardinality(R),
         \A t \in T : \E r \in R : t.id = r.id /\ t.pos = r.pos
  PROVE  Order(T) = Order(R)
<1>1. \A t \in T : Order(R)[t.pos] = t.id
  BY OrderIsByPosition
<1> QED BY <1>1, OrderIsByPosition, OrderIs

LEMMA RemovedOrder ==
  ASSUME NEW R, Listed(R), NEW v \in R, NEW T, Listed(T), Cardinality(T) = Cardinality(R) - 1,
         \A t \in T : \E r \in R : /\ r # v /\ t.id = r.id
                                   /\ t.pos = IF r.pos > v.pos THEN r.pos - 1 ELSE r.pos
  PROVE  Order(T) = SubSeq(Order(R), 1, v.pos - 1) \o SubSeq(Order(R), v.pos + 1, Len(Order(R)))
<1> DEFINE o == Order(R)
           c == Cardinality(R)
           n == v.pos
           a == SubSeq(o, 1, n - 1)
           b == SubSeq(o, n + 1, c)
<1>1. /\ o \in Seq(Ids) /\ Len(o) = c /\ c \in Nat /\ n \in 1..c
      /\ \A r \in R : o[r.pos] = r.id /\ r.pos \in 1..c /\ (r # v => r.pos # n)
  BY OrderIsByPosition, PositionsUnique
<1> HIDE DEF o, c, n
<1>2. a \in Seq(Ids) /\ Len(a) = n - 1 /\ \A m \in 1..n - 1 : a[m] = o[m]
  BY <1>1
<1>3. b \in Seq(Ids) /\ Len(b) = c - n /\ \A m \in 1..c - n : b[m] = o[n + m]
  BY <1>1
<1> HIDE DEF a, b
<1>4. /\ a \o b \in Seq(Ids) /\ Len(a \o b) = c - 1
      /\ \A m \in 1..n - 1 : (a \o b)[m] = o[m]
      /\ \A m \in n..c - 1 : (a \o b)[m] = o[m + 1]
  <2>1. a \o b \in Seq(Ids) /\ Len(a \o b) = c - 1
    BY <1>1, <1>2, <1>3
  <2>2. \A m \in 1..n - 1 : (a \o b)[m] = o[m]
    BY <1>1, <1>2, <1>3
  <2>3. ASSUME NEW m \in n..c - 1 PROVE (a \o b)[m] = o[m + 1]
    <3>1. (a \o b)[m] = b[m - (n - 1)]
      BY <1>1, <1>2, <1>3
    <3>2. m - (n - 1) \in 1..c - n /\ n + (m - (n - 1)) = m + 1
      BY <1>1
    <3> QED BY <1>3, <3>1, <3>2
  <2> QED BY <2>1, <2>2, <2>3
<1>5. ASSUME NEW t \in T PROVE (a \o b)[t.pos] = t.id
  <2>1. PICK r \in R : r # v /\ t.id = r.id /\ t.pos = IF r.pos > n THEN r.pos - 1 ELSE r.pos
    BY DEF n
  <2>2. r.pos \in 1..c /\ r.pos # n /\ o[r.pos] = r.id
    BY <1>1, <2>1
  <2>3. CASE r.pos > n
    <3>1. t.pos = r.pos - 1 /\ t.pos \in n..c - 1 /\ t.pos + 1 = r.pos
      BY <1>1, <2>1, <2>2, <2>3
    <3> QED BY <1>4, <2>1, <2>2, <3>1
  <2>4. CASE ~(r.pos > n)
    <3>1. t.pos = r.pos /\ t.pos \in 1..n - 1
      BY <1>1, <2>1, <2>2, <2>4
    <3> QED BY <1>4, <2>1, <2>2, <3>1
  <2> QED BY <2>3, <2>4
<1>6. Order(T) = a \o b
  <2>1. Len(a \o b) = Cardinality(T)
    BY <1>4 DEF c
  <2> QED BY <1>4, <1>5, <2>1, OrderIs
<1> QED BY <1>1, <1>6 DEF a, b, c, n, o

LEMMA RearrangedOrder ==
  ASSUME NEW R, Listed(R), NEW w \in Orders({p.id : p \in R}), NEW T, Order(T) = w,
         Listed(T), Cardinality(T) = Cardinality(R)
  PROVE  /\ Len(w) = Len(Order(R)) /\ w \in Seq(Ids)
         /\ \A n \in 1..Len(Order(R)) : \E m \in 1..Len(Order(R)) : w[m] = Order(R)[n]
<1>1. /\ w \in Seq(Ids) /\ Len(w) = Cardinality(R) /\ Len(Order(R)) = Cardinality(R)
      /\ \A r \in R : Order(R)[r.pos] = r.id
  BY OrderIsByPosition
<1>2. \A i \in {p.id : p \in R} : \E n \in DOMAIN w : w[n] = i
  BY DEF Orders
<1>3. DOMAIN w = 1..Cardinality(R)
  BY <1>1
<1>4. \A n \in 1..Cardinality(R) : \E r \in R : Order(R)[n] = r.id
  BY <1>1, PositionsUnique
<1> QED BY <1>1, <1>2, <1>3, <1>4

LEMMA AppendAdds ==
  ASSUME IInv, IInv', NEW q \in Requests, req[q].pc = "read", Append_(q)
  PROVE  List!Add
<1> DEFINE k == req[q].key
           new == [id |-> k, key |-> k, pos |-> Cardinality(photos) + 1]
<1>1. /\ req[q].seen = photos /\ Listed(photos) /\ Cardinality(photos) \in Nat
      /\ k \in Ids /\ \A p \in photos : p.id # k
  BY BeforeCommit DEF Append_, Ids
<1>2. photos' = photos \cup {new} /\ RoomFor(photos)
  BY <1>1 DEF Append_
<1>3. new.id = k /\ new.pos = Cardinality(photos) + 1
  OBVIOUS
<1>4. Listed(photos') /\ Cardinality(photos') = Cardinality(photos) + 1
  BY <1>1, <1>2, Appended
<1> HIDE DEF new, k
<1>5. Order(photos') = Append(Order(photos), k)
  BY <1>1, <1>2, <1>3, <1>4, AppendedOrder
<1>6. /\ Len(Order(photos)) < MaxCount
      /\ \A n \in 1..Len(Order(photos)) : Order(photos)[n] # k
  BY <1>1, <1>2, OrderIsByPosition, PositionsUnique DEF RoomFor
<1> QED BY <1>1, <1>5, <1>6 DEF List!Add

LEMMA ReplaceKeeps ==
  ASSUME IInv, IInv', NEW q \in Requests, req[q].pc = "read", Replace(q)
  PROVE  Order(photos') = Order(photos)
<1> DEFINE k == req[q].key
<1>1. req[q].seen = photos /\ Listed(photos) /\ Listed(photos') /\ k \in Keys
  BY BeforeCommit DEF Replace, IInv, Listing
<1>2. PICK v \in photos :
        photos' = {IF p.id = v.id THEN [p EXCEPT !.key = k] ELSE p : p \in photos}
  BY <1>1 DEF Replace
<1> HIDE DEF k
<1>3. Cardinality(photos') = Cardinality(photos)
  BY <1>1, <1>2, Replaced
<1>4. \A t \in photos' : \E r \in photos : t.id = r.id /\ t.pos = r.pos
  <2>1. \A o \in photos : LET t == IF o.id = v.id THEN [o EXCEPT !.key = k] ELSE o
                         IN  t.id = o.id /\ t.pos = o.pos
    BY <1>1 DEF Listed, PhotoRows
  <2> QED BY <1>2, <2>1
<1> QED BY <1>1, <1>3, <1>4, ReplacedOrder

LEMMA DeleteTakes ==
  ASSUME IInv, IInv', NEW q \in Requests, req[q].pc = "read", Delete(q)
  PROVE  List!Take
<1>1. req[q].seen = photos /\ Listed(photos) /\ Listed(photos')
  BY BeforeCommit DEF IInv, Listing
<1>2. PICK v \in photos : photos' = Shifted({p \in photos : p.id # v.id}, v.pos)
  BY <1>1 DEF Delete
<1>3. Cardinality(photos') = Cardinality(photos) - 1
  BY <1>1, <1>2, Removed
<1>4. \A t \in photos' : \E r \in photos :
        /\ r # v /\ t.id = r.id
        /\ t.pos = IF r.pos > v.pos THEN r.pos - 1 ELSE r.pos
  <2> SUFFICES ASSUME NEW r \in photos, r.id # v.id
               PROVE  LET t == IF r.pos > v.pos THEN [r EXCEPT !.pos = @ - 1] ELSE r
                      IN  /\ r # v /\ t.id = r.id
                          /\ t.pos = IF r.pos > v.pos THEN r.pos - 1 ELSE r.pos
    BY <1>2 DEF Shifted
  <2>1. r \in PhotoRows
    BY <1>1 DEF Listed
  <2> QED BY <2>1 DEF PhotoRows
<1>5. Order(photos') = SubSeq(Order(photos), 1, v.pos - 1)
                       \o SubSeq(Order(photos), v.pos + 1, Len(Order(photos)))
  BY <1>1, <1>3, <1>4, RemovedOrder
<1>6. v.pos \in 1..Len(Order(photos))
  BY <1>1, OrderIsByPosition, PositionsUnique
<1> QED BY <1>5, <1>6 DEF List!Take

LEMMA ReorderRearranges ==
  ASSUME IInv, IInv', NEW q \in Requests, req[q].pc = "read", Reorder(q)
  PROVE  List!Rearrange
<1> DEFINE w == req[q].wanted
<1>1. /\ Listed(photos) /\ Listed(photos') /\ Cardinality(photos') = Cardinality(photos)
      /\ w \in Orders({p.id : p \in photos}) /\ Order(photos') = w
  BY ReorderResult DEF IInv, Listing
<1> HIDE DEF w
<1>2. /\ Len(w) = Len(Order(photos)) /\ w \in Seq(Ids)
      /\ \A n \in 1..Len(Order(photos)) : \E m \in 1..Len(Order(photos)) :
           w[m] = Order(photos)[n]
  BY <1>1, RearrangedOrder
<1> QED BY <1>1, <1>2 DEF List!Rearrange

LEMMA NoOrder == Order({}) = <<>>
  BY NothingListed, OrderIsByPosition

LEMMA ListStep == IInv /\ IInv' /\ [Next]_vars => [List!Next]_(Order(photos))
<1> SUFFICES ASSUME IInv, IInv', [Next]_vars
             PROVE  List!Next \/ Order(photos') = Order(photos)
  OBVIOUS
<1>1. CASE photos' = photos
  BY <1>1
<1>2. ASSUME NEW q \in Requests, Commit(q)
      PROVE  List!Next \/ Order(photos') = Order(photos)
  BY <1>2, AppendAdds, ReplaceKeeps, DeleteTakes, ReorderRearranges DEF Commit, List!Next
<1>3. ASSUME NEW q \in Requests, Sweep(q)
      PROVE  List!Next
  BY <1>3, NoOrder DEF Sweep, List!Clear, List!Next
<1>4. CASE photos' # photos
  <2> PICK q \in Requests : Commit(q) \/ Sweep(q)
    BY <1>4 DEF Next, vars, Step, Put, Ask, AskOrder, DeleteRecord, Lock, Read, Abort, Clean,
                CleanFails, Crash
  <2> QED BY <1>2, <1>3
<1> QED BY <1>1, <1>4

\* To those who look at them the photos are PhotoList's list, whatever overlaps or
\* fails: additions at the end, removals, complete rearrangements, nothing else.
THEOREM ImplementsList == Spec => PhotosAreAList
<1>1. Init => List!Init
  BY NoOrder DEF Init, List!Init
<1>2. Spec => List!Init /\ [][List!Next]_(Order(photos))
  BY <1>1, ListStep, AlwaysIInv, PTL DEF Spec
<1> QED BY <1>2 DEF PhotosAreAList, List!Spec
-----------------------------------------------------------------------------
(***************************************************************************)
(* While no removal fails and no request is cut off, no object is          *)
(* forgotten: each is a photo's, or a request that is not finished still   *)
(* has it; and when a record is gone, so are its photos, or a request is   *)
(* about to delete them.                                                   *)
(***************************************************************************)
Accounted ==
  \A k \in objects : (\E p \in photos : p.key = k) \/ \E q \in Requests : k \in Carried(q)

\* Only the requests that bring a photo have an upload.
UploadsWanted == \A q \in Requests : req[q].key # 0 => req[q].op \in {"append", "replace"}

Swept == ~live => photos = {} \/ \E q \in Requests : req[q].pc = "sweep"

Tidy == Accounted /\ UploadsWanted /\ Swept

\* The objects stay accounted for when what request q carries and the keys of the rows
\* only change hands.
LEMMA AccountedMoves ==
  ASSUME Accounted, NEW q \in Requests,
         \A r \in Requests \ {q} : Carried(r)' = Carried(r),
         \A k \in objects' : k \in objects \/ k \in Carried(q)',
         \A k \in Carried(q) \cap objects' : k \in Carried(q)' \/ \E p \in photos' : p.key = k,
         \A p \in photos : p.key \in Carried(q)' \/ \E o \in photos' : o.key = p.key
  PROVE  Accounted'
<1> SUFFICES ASSUME NEW k \in objects'
             PROVE  (\E p \in photos' : p.key = k) \/ \E r \in Requests : k \in Carried(r)'
  BY DEF Accounted
<1>1. CASE k \in Carried(q)'
  BY <1>1
<1>2. ASSUME NEW p \in photos, p.key = k
      PROVE  (\E o \in photos' : o.key = k) \/ k \in Carried(q)'
  BY <1>2
<1>3. ASSUME NEW r \in Requests, k \in Carried(r)
      PROVE  (\E o \in photos' : o.key = k) \/ \E s \in Requests : k \in Carried(s)'
  <2>1. CASE r = q
    BY <1>3, <2>1
  <2>2. CASE r # q
    BY <1>3, <2>2
  <2> QED BY <2>1, <2>2
<1> QED BY <1>1, <1>2, <1>3 DEF Accounted

\* The rest of Tidy after a step of a request that neither deletes the record nor its rows.
LEMMA TidyFrame ==
  ASSUME IInv, Tidy, NEW q \in Requests,
         \A r \in Requests \ {q} : req'[r] = req[r],
         req'[q].key # 0 => req'[q].op \in {"append", "replace"},
         live' = live, req[q].pc # "sweep", ~live => photos' = photos
  PROVE  UploadsWanted' /\ Swept'
<1>1. UploadsWanted'
  BY DEF Tidy, UploadsWanted
<1>2. Swept'
  BY DEF Tidy, Swept
<1> QED BY <1>1, <1>2

LEMMA PutTidy ==
  ASSUME IInv, Tidy, NEW q \in Requests, NEW op \in {"append", "replace"}, NEW n \in 1..MaxCount,
         Put(q, op, n)
  PROVE  Tidy'
<1> DEFINE k == uploads + 1
           s == [Idle EXCEPT !.pc = "begun", !.op = op, !.key = k,
                             !.pos = IF op = "replace" THEN n ELSE 0]
<1>1. /\ req[q] = Idle /\ live' = live /\ photos' = photos /\ objects' = objects \cup {k}
      /\ req' = [req EXCEPT ![q] = s] /\ req \in [Requests -> RequestStates]
  BY DEF Put, Become, IInv, TypeOK
<1>2. s.key = k /\ s.trash = {} /\ s.op = op /\ k # 0
  <2>1. uploads \in Nat
    BY DEF IInv, TypeOK
  <2> QED BY <2>1 DEF Idle
<1> HIDE DEF s, k
<1>3. req'[q] = s /\ \A r \in Requests \ {q} : req'[r] = req[r]
  BY <1>1
<1>4. Carried(q)' = {k} /\ Carried(q) = {}
  BY <1>1, <1>2, <1>3, IdleTyped DEF Carried, Upload
<1>5. \A r \in Requests \ {q} : Carried(r)' = Carried(r)
  BY <1>3, CarriedSame
<1>6. Accounted'
  BY <1>1, <1>4, <1>5, AccountedMoves DEF Tidy
<1>7. UploadsWanted' /\ Swept'
  BY <1>1, <1>2, <1>3, IdleTyped, TidyFrame
<1> QED BY <1>6, <1>7 DEF Tidy

LEMMA BeginTidy ==
  ASSUME IInv, Tidy, NEW q \in Requests,
         (\E n \in 1..MaxCount : Ask(q, n)) \/ AskOrder(q) \/ DeleteRecord(q)
  PROVE  Tidy'
<1>1. /\ req[q] = Idle /\ photos' = photos /\ objects' = objects /\ req \in [Requests -> RequestStates]
  BY DEF Ask, AskOrder, DeleteRecord, IInv, TypeOK
<1>2. \E s : /\ req' = [req EXCEPT ![q] = s] /\ s.key = 0 /\ s.trash = {}
             /\ live' = live \/ s.pc = "sweep"
  <2>1. ASSUME NEW n, Ask(q, n)
        PROVE  \E s : /\ req' = [req EXCEPT ![q] = s] /\ s.key = 0 /\ s.trash = {} /\ live' = live
    <3> PICK s : s = [Idle EXCEPT !.pc = "begun", !.op = "delete", !.pos = n]
      OBVIOUS
    <3>1. s.key = 0 /\ s.trash = {}
      BY DEF Idle
    <3> QED BY <2>1, <3>1 DEF Ask, Become
  <2>2. CASE AskOrder(q)
    <3> PICK w : /\ Become(q, [Idle EXCEPT !.pc = "begun", !.op = "reorder",
                                          !.expected = Order(photos), !.wanted = w])
                 /\ live' = live
      BY <2>2 DEF AskOrder
    <3> PICK s : s = [Idle EXCEPT !.pc = "begun", !.op = "reorder",
                                  !.expected = Order(photos), !.wanted = w]
      OBVIOUS
    <3>1. s.key = 0 /\ s.trash = {}
      BY DEF Idle
    <3> QED BY <3>1 DEF Become
  <2>3. CASE DeleteRecord(q)
    <3> PICK s : s = [Idle EXCEPT !.pc = "sweep", !.op = "record"]
      OBVIOUS
    <3>1. s.key = 0 /\ s.trash = {} /\ s.pc = "sweep"
      BY DEF Idle
    <3> QED BY <2>3, <3>1 DEF DeleteRecord, Become
  <2> QED BY <2>1, <2>2, <2>3
<1>3. /\ \A r \in Requests \ {q} : req'[r] = req[r]
      /\ req'[q].key = 0 /\ req'[q].trash = {}
      /\ live' = live \/ req'[q].pc = "sweep"
  BY <1>1, <1>2
<1>4. \A r \in Requests : Carried(r)' = Carried(r)
  BY <1>1, <1>3, CarriedSame, IdleTyped
<1>5. Accounted'
  BY <1>1, <1>4, AccountedMoves DEF Tidy
<1>6. UploadsWanted'
  BY <1>3 DEF Tidy, UploadsWanted
<1>7. Swept'
  <2>1. CASE live' = live
    BY <1>1, <1>3, <2>1, IdleTyped DEF Tidy, Swept
  <2>2. CASE req'[q].pc = "sweep"
    BY <2>2 DEF Swept
  <2> QED BY <1>3, <2>1, <2>2
<1> QED BY <1>5, <1>6, <1>7 DEF Tidy

LEMMA LockAndReadTidy ==
  ASSUME IInv, Tidy, NEW q \in Requests, Lock(q) \/ Read(q)
  PROVE  Tidy'
<1>1. /\ photos' = photos /\ objects' = objects /\ live' = live
      /\ req[q].pc # "sweep" /\ req[q] \in RequestStates /\ req \in [Requests -> RequestStates]
  BY DEF Lock, Read, IInv, TypeOK
<1>2. /\ \A r \in Requests \ {q} : req'[r] = req[r]
      /\ req'[q].key = req[q].key /\ req'[q].trash = req[q].trash /\ req'[q].op = req[q].op
  <2> PICK s, u : s = [req[q] EXCEPT !.pc = "locked"] /\ u = [req[q] EXCEPT !.pc = "read", !.seen = photos]
    OBVIOUS
  <2>1. /\ s.key = req[q].key /\ s.trash = req[q].trash /\ s.op = req[q].op
        /\ u.key = req[q].key /\ u.trash = req[q].trash /\ u.op = req[q].op
    BY <1>1 DEF RequestStates
  <2>2. req' = [req EXCEPT ![q] = s] \/ req' = [req EXCEPT ![q] = u]
    BY DEF Lock, Read, Become
  <2> QED BY <1>1, <2>1, <2>2
<1>3. \A r \in Requests : Carried(r)' = Carried(r)
  BY <1>2, CarriedSame
<1>4. Accounted'
  BY <1>1, <1>3, AccountedMoves DEF Tidy
<1>5. UploadsWanted' /\ Swept'
  BY <1>1, <1>2, TidyFrame DEF Tidy, UploadsWanted
<1> QED BY <1>4, <1>5 DEF Tidy

\* What a request carries when it has finished its transaction.
LEMMA FinishCarries ==
  ASSUME IInv, NEW q \in Requests, NEW t \in SUBSET Keys, Finish(q, t)
  PROVE  /\ Carried(q)' = t /\ req'[q].key = 0
         /\ \A r \in Requests \ {q} : req'[r] = req[r] /\ Carried(r)' = Carried(r)
<1>1. /\ \A r \in Requests \ {q} : req'[r] = req[r]
      /\ req'[q].key = 0 /\ req'[q].trash = t
  BY Finished DEF IInv
<1>2. Carried(q)' = t
  BY <1>1 DEF Carried, Upload
<1>3. \A r \in Requests \ {q} : Carried(r)' = Carried(r)
  BY <1>1, CarriedSame
<1> QED BY <1>1, <1>2, <1>3

\* A commit hands the upload to a row, and takes over the object a row gives up.
LEMMA CommitTidy ==
  ASSUME IInv, Tidy, NEW q \in Requests, Commit(q)
  PROVE  Tidy'
<1>1. req[q].pc = "read" /\ live' = live /\ objects' = objects
  BY DEF Commit
<1>2. live /\ req[q].seen = photos /\ req[q].trash = {} /\ Listed(photos) /\ TypeOK
  BY <1>1, BeforeCommit
<1>3. ASSUME NEW t \in SUBSET Keys, Finish(q, t),
             \A k \in Upload(q) : \E p \in photos' : p.key = k,
             \A p \in photos : p.key \in t \/ \E o \in photos' : o.key = p.key
      PROVE  Tidy'
  <2>1. /\ Carried(q)' = t /\ req'[q].key = 0
        /\ \A r \in Requests \ {q} : req'[r] = req[r] /\ Carried(r)' = Carried(r)
    BY <1>3, FinishCarries
  <2>2. Carried(q) = Upload(q)
    BY <1>2 DEF Carried
  <2>3. Accounted'
    BY <1>1, <1>3, <2>1, <2>2, AccountedMoves DEF Tidy
  <2>4. UploadsWanted' /\ Swept'
    BY <1>1, <1>2, <2>1, TidyFrame
  <2> QED BY <2>3, <2>4 DEF Tidy
<1>4. \A p \in photos : p \in PhotoRows /\ p.key \in Keys
  BY <1>2, RowFields DEF Listed
<1>5. CASE Append_(q)
  <2> PICK n : n = [id |-> req[q].key, key |-> req[q].key, pos |-> Cardinality(photos) + 1]
    OBVIOUS
  <2>1. /\ Finish(q, {}) /\ \A p \in photos : p \in photos'
        /\ \E p \in photos' : p.key = req[q].key
    BY <1>2, <1>5 DEF Append_
  <2> QED BY <1>3, <2>1 DEF Upload
<1>6. CASE Replace(q)
  <2>1. PICK v \in photos :
          /\ photos' = {IF p.id = v.id THEN [p EXCEPT !.key = req[q].key] ELSE p : p \in photos}
          /\ Finish(q, {v.key})
    BY <1>2, <1>6 DEF Replace, Outdated
  <2>2. \E p \in photos' : p.key = req[q].key
    <3>1. [v EXCEPT !.key = req[q].key] \in photos'
      BY <2>1
    <3> QED BY <1>4, <3>1 DEF PhotoRows
  <2>3. \A p \in photos : p = v \/ p \in photos'
    BY <1>2, <2>1 DEF Listed, IdsUnique
  <2> QED BY <1>3, <1>4, <2>1, <2>2, <2>3 DEF Upload
<1>7. CASE Delete(q)
  <2>1. PICK v \in photos :
          /\ photos' = Shifted({p \in photos : p.id # v.id}, v.pos)
          /\ Finish(q, {v.key})
    BY <1>2, <1>7 DEF Delete, Outdated
  <2>2. ASSUME NEW p \in photos, p # v PROVE \E o \in photos' : o.key = p.key
    <3> PICK o : o = IF p.pos > v.pos THEN [p EXCEPT !.pos = @ - 1] ELSE p
      OBVIOUS
    <3>1. p.id # v.id
      BY <1>2, <2>2 DEF Listed, IdsUnique
    <3>2. o \in photos'
      BY <2>1, <3>1 DEF Shifted
    <3>3. o.key = p.key
      BY <1>4 DEF PhotoRows
    <3> QED BY <3>2, <3>3
  <2>3. Upload(q) = {}
    BY <1>7 DEF Delete, Tidy, UploadsWanted, Upload
  <2> QED BY <1>3, <1>4, <2>1, <2>2, <2>3
<1>8. CASE Reorder(q)
  <2>1. photos' = Renumbered(photos, req[q].wanted) /\ Finish(q, {})
    BY <1>1, <1>8, ReorderResult DEF Reorder
  <2>2. ASSUME NEW p \in photos PROVE \E o \in photos' : o.key = p.key
    <3> PICK o : o = [p EXCEPT !.pos = PositionIn(req[q].wanted, p.id)]
      OBVIOUS
    <3>1. o \in photos' /\ o.key = p.key
      BY <1>4, <2>1 DEF Renumbered, PhotoRows
    <3> QED BY <3>1
  <2>3. Upload(q) = {}
    BY <1>8 DEF Reorder, Tidy, UploadsWanted, Upload
  <2> QED BY <1>3, <2>1, <2>2, <2>3
<1> QED BY <1>5, <1>6, <1>7, <1>8 DEF Commit

\* A refused request has its upload to remove; the removals empty what is carried.
LEMMA EndTidy ==
  ASSUME IInv, Tidy, NEW q \in Requests, Abort(q) \/ Clean(q)
  PROVE  Tidy'
<1>1. photos' = photos /\ live' = live /\ req[q].pc # "sweep" /\ TypeOK
  BY DEF Abort, Clean, IInv
<1>2. CASE Abort(q)
  <2>1. Upload(q) \in SUBSET Keys /\ Finish(q, Upload(q)) /\ objects' = objects
    BY <1>1, <1>2, RequestFields DEF Upload, Abort
  <2>2. req[q].trash = {}
    BY <1>2 DEF Abort, IInv, RequestsSound
  <2>3. Carried(q)' = Carried(q)
    BY <2>1, <2>2, FinishCarries DEF Carried
  <2>4. Accounted'
    BY <1>1, <2>1, <2>3, FinishCarries, AccountedMoves DEF Tidy
  <2>5. UploadsWanted' /\ Swept'
    BY <1>1, <2>1, FinishCarries, TidyFrame
  <2> QED BY <2>4, <2>5 DEF Tidy
<1>3. CASE Clean(q)
  <2>1. PICK k \in req[q].trash : objects' = objects \ {k} /\ Finish(q, req[q].trash \ {k})
    BY <1>3 DEF Clean
  <2>2. req[q].trash \ {k} \in SUBSET Keys
    BY <1>1, RequestFields
  <2>3. req[q].key = 0
    BY <1>3 DEF Clean, IInv, RequestsSound
  <2>4. Carried(q)' = Carried(q) \ {k}
    BY <2>1, <2>2, <2>3, FinishCarries DEF Carried, Upload
  <2>5. Accounted'
    BY <1>1, <2>1, <2>2, <2>4, FinishCarries, AccountedMoves DEF Tidy
  <2>6. UploadsWanted' /\ Swept'
    BY <1>1, <2>1, <2>2, FinishCarries, TidyFrame
  <2> QED BY <2>5, <2>6 DEF Tidy
<1> QED BY <1>2, <1>3

LEMMA SweepTidy ==
  ASSUME IInv, Tidy, NEW q \in Requests, Sweep(q)
  PROVE  Tidy'
<1> DEFINE t == {p.key : p \in photos}
<1>1. photos' = {} /\ objects' = objects /\ Finish(q, t) /\ req[q].pc = "sweep"
  BY DEF Sweep
<1>2. t \in SUBSET Keys /\ \A p \in photos : p.key \in t
  BY RowFields DEF IInv, Listing, Listed
<1>3. Carried(q) = {}
  BY <1>1 DEF IInv, RequestsSound, Carried, Upload
<1> HIDE DEF t
<1>4. /\ Carried(q)' = t /\ req'[q].key = 0
      /\ \A r \in Requests \ {q} : req'[r] = req[r] /\ Carried(r)' = Carried(r)
  BY <1>1, <1>2, FinishCarries
<1>5. Accounted'
  BY <1>1, <1>2, <1>3, <1>4, AccountedMoves DEF Tidy
<1>6. UploadsWanted' /\ Swept'
  BY <1>1, <1>4 DEF Tidy, UploadsWanted, Swept
<1> QED BY <1>5, <1>6 DEF Tidy

\* An object is forgotten when its removal fails or its request is cut off.
Forgets == \E q \in Requests : CleanFails(q) \/ Crash(q)

LEMMA TidyNext ==
  ASSUME IInv, Tidy, [Next]_vars, [~Forgets]_vars
  PROVE  Tidy'
<1>1. CASE UNCHANGED vars
  BY <1>1 DEF vars, Tidy, Accounted, UploadsWanted, Swept, Carried, Upload
<1>2. CASE Next /\ ~Forgets
  <2> PICK q \in Requests :
        \/ \E op \in {"append", "replace"}, n \in 1..MaxCount : Put(q, op, n)
        \/ (\E n \in 1..MaxCount : Ask(q, n)) \/ AskOrder(q) \/ DeleteRecord(q)
        \/ Step(q) \/ CleanFails(q) \/ Crash(q)
    BY <1>2 DEF Next
  <2>1. ~CleanFails(q) /\ ~Crash(q)
    BY <1>2 DEF Forgets
  <2> QED BY <2>1, PutTidy, BeginTidy, LockAndReadTidy, CommitTidy, EndTidy, SweepTidy DEF Step
<1> QED BY <1>1, <1>2

\* Every request has been answered.
AtRest == \A q \in Requests : req[q] = Idle

Neat ==
  AtRest => /\ objects = {p.key : p \in photos}
            /\ ~live => photos = {} /\ objects = {}

\* Whatever overlaps, is refused or is rolled back: unless a removal failed or a request
\* was cut off, once every request is answered the store holds the objects of the photos
\* and no others, and nothing at all for a record that was deleted (photo_service.go:
\* what is removed after a commit or a rollback, and DeleteByRecord).
THEOREM NothingForgotten == Spec /\ [][~Forgets]_vars => []Neat
<1>1. Init => Tidy
  BY IdleTyped DEF Init, Tidy, Accounted, UploadsWanted, Swept
<1>2. IInv /\ Tidy /\ [Next]_vars /\ [~Forgets]_vars => Tidy'
  BY TidyNext
<1>3. ASSUME IInv, Tidy, AtRest
      PROVE  objects = {p.key : p \in photos} /\ (~live => photos = {} /\ objects = {})
  <2>1. \A q \in Requests : Carried(q) = {} /\ req[q].pc = "idle"
    BY <1>3, IdleTyped DEF AtRest, Carried, Upload
  <2>2. objects \subseteq {p.key : p \in photos}
    BY <1>3, <2>1 DEF Tidy, Accounted
  <2>3. {p.key : p \in photos} \subseteq objects
    BY <1>3 DEF IInv, RowsHaveObjects
  <2>4. ~live => photos = {}
    BY <1>3, <2>1 DEF Tidy, Swept
  <2> QED BY <2>2, <2>3, <2>4
<1>4. IInv /\ Tidy => Neat
  BY <1>3 DEF Neat
<1> QED BY <1>1, <1>2, <1>4, AlwaysIInv, PTL DEF Spec

\* So it is when nothing fails.
COROLLARY NothingForgottenUnfailing ==
  ASSUME ~MayFail
  PROVE  Spec => []Neat
<1>1. [Next]_vars => [~Forgets]_vars
  BY DEF Forgets, CleanFails, Crash
<1> QED BY <1>1, NothingForgotten, PTL DEF Spec
=============================================================================
