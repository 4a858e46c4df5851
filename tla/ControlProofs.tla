---------------------------- MODULE ControlProofs ----------------------------
(***************************************************************************)
(* Theorems of Control: no configuration that was freed is referred to,    *)
(* clients that monitor know the interfaces, and a client that waits for   *)
(* each reply is not forgotten.                                            *)
(*                                                                         *)
(* The configuration is a record whose lists grow and shrink; ConfOK says  *)
(* who may refer to which structure, and is kept by every line.  The loops *)
(* of finalise_config are folds, whose values exist and keep it by         *)
(* induction over the prefixes of the list (TakenFact, TakeFact).          *)
(***************************************************************************)
EXTENDS Control, TLAPS, SequenceTheorems, WellFoundedInduction

-----------------------------------------------------------------------------
(* Numbers and lists. *)

\* A set of numbers that is not empty has a smallest one.
LEMMA SmallestFact ==
  ASSUME NEW T \in SUBSET Nat, T # {}
  PROVE  \E x \in T : \A y \in T : x <= y
  <1>1. PICK x \in T : \A y \in T : ~(<<y, x>> \in OpToRel(<, Nat))
    BY NatLessThanWellFounded, WFMin
  <1>2. \A y \in T : ~(y < x)
    BY <1>1 DEF OpToRel
  <1> QED
    BY <1>2

\* A set of numbers with 0, and with the successor of each of its members that
\* is less than N, has all numbers up to N.
LEMMA InductionFact ==
  ASSUME NEW N \in Nat, NEW S, 0 \in S, \A n \in S : n \in Nat /\ n < N => n + 1 \in S
  PROVE  \A n \in 0 .. N : n \in S
  <1> DEFINE T == (0 .. N) \ S
  <1> SUFFICES ASSUME T # {} PROVE FALSE
    OBVIOUS
  <1>1. PICK x \in T : \A y \in T : x <= y
    <2>1. T \in SUBSET Nat
      OBVIOUS
    <2> QED
      BY <2>1, SmallestFact
  <1>2. x # 0 /\ x - 1 \in 0 .. N /\ x - 1 < x /\ x \in 0 .. N
    OBVIOUS
  <1>3. x - 1 \in S
    BY <1>1, <1>2
  <1>4. x - 1 \in Nat /\ x - 1 < N /\ (x - 1) + 1 = x
    BY <1>2
  <1> QED
    BY <1>3, <1>4

\* A list of whatever.
IsList(s) == \E S : s \in Seq(S)

LEMMA ListFact ==
  ASSUME NEW s, IsList(s)
  PROVE  /\ Len(s) \in Nat /\ DOMAIN s = 1 .. Len(s)
         /\ s = << >> <=> Len(s) = 0
  <1>1. PICK S : s \in Seq(S)
    BY DEF IsList
  <1> QED
    BY <1>1

LEMMA AppendFact ==
  ASSUME NEW s, IsList(s), NEW x
  PROVE  /\ IsList(Append(s, x)) /\ Len(Append(s, x)) = Len(s) + 1
         /\ \A i \in 1 .. Len(s) : Append(s, x)[i] = s[i]
         /\ Append(s, x)[Len(s) + 1] = x
  <1>1. PICK S : s \in Seq(S)
    BY DEF IsList
  <1> DEFINE T == S \cup {x}
  <1>2. s \in Seq(T) /\ x \in T
    <2>1. S \subseteq T /\ x \in T
      OBVIOUS
    <2> HIDE DEF T
    <2> QED
      BY <1>1, <2>1
  <1> HIDE DEF T
  <1>3. Append(s, x) \in Seq(T)
    BY <1>2, AppendProperties
  <1> QED
    BY <1>2, <1>3, AppendProperties DEF IsList

LEMMA ChangeFact ==
  ASSUME NEW s, IsList(s), NEW i \in 1 .. Len(s), NEW x
  PROVE  LET t == [s EXCEPT ![i] = x]
         IN  /\ IsList(t) /\ Len(t) = Len(s) /\ t[i] = x
             /\ \A j \in 1 .. Len(s) : j # i => t[j] = s[j]
  <1>1. PICK S : s \in Seq(S)
    BY DEF IsList
  <1> DEFINE T == S \cup {x}
             t == [s EXCEPT ![i] = x]
  <1>2. s \in Seq(T) /\ x \in T
    <2>1. S \subseteq T /\ x \in T
      OBVIOUS
    <2> HIDE DEF T
    <2> QED
      BY <1>1, <2>1
  <1> HIDE DEF T
  <1>3. t \in Seq(T) /\ Len(t) = Len(s) /\ t[i] = x
        /\ \A j \in 1 .. Len(s) : j # i => t[j] = s[j]
    BY <1>2
  <1> HIDE DEF t
  <1> QED
    BY <1>3 DEF IsList, t

LEMMA WithoutFact ==
  ASSUME NEW s, IsList(s), NEW i \in 1 .. Len(s)
  PROVE  LET t == Without(s, i)
         IN  /\ IsList(t) /\ Len(t) = Len(s) - 1
             /\ \A j \in 1 .. Len(t) : t[j] = IF j < i THEN s[j] ELSE s[j + 1]
  <1>1. PICK S : s \in Seq(S)
    BY DEF IsList
  <1> DEFINE t == Without(s, i)
  <1>2. Len(s) - 1 \in Nat
    BY <1>1
  <1>3. t = [j \in 1 .. Len(s) - 1 |-> IF j < i THEN s[j] ELSE s[j + 1]]
    BY DEF Without
  <1>4. \A j \in 1 .. Len(s) - 1 : (IF j < i THEN s[j] ELSE s[j + 1]) \in S
    BY <1>1
  <1> HIDE DEF t
  <1>5. t \in Seq(S) /\ Len(t) = Len(s) - 1
    BY <1>2, <1>3, <1>4
  <1> QED
    BY <1>3, <1>5 DEF IsList, t

-----------------------------------------------------------------------------
(* The configuration's record. *)

Record(c) ==
  c = [finalised |-> c.finalised, in |-> c.in, out |-> c.out,
       redistribute |-> c.redistribute, heap |-> c.heap, listed |-> c.listed,
       ifs |-> c.ifs, default |-> c.default, server |-> c.server,
       options |-> c.options, aborted |-> c.aborted]

\* d is a configuration with these structures, lists and default.
With(d, heap, listed, ifs, default) ==
  /\ Record(d) /\ d.heap = heap /\ d.listed = listed
  /\ d.ifs = ifs /\ d.default = default

\* Updates of the parts that the invariant is about.
LEMMA FieldFact ==
  ASSUME NEW c, Record(c), NEW x
  PROVE  /\ With([c EXCEPT !.ifs = x], c.heap, c.listed, x, c.default)
         /\ With([c EXCEPT !.heap = x], x, c.listed, c.ifs, c.default)
         /\ With([c EXCEPT !.listed = x], c.heap, x, c.ifs, c.default)
         /\ With([c EXCEPT !.default = x], c.heap, c.listed, c.ifs, x)
         /\ With([c EXCEPT !.finalised = x], c.heap, c.listed, c.ifs, c.default)
         /\ With([c EXCEPT !.in = x], c.heap, c.listed, c.ifs, c.default)
         /\ With([c EXCEPT !.out = x], c.heap, c.listed, c.ifs, c.default)
         /\ With([c EXCEPT !.redistribute = x], c.heap, c.listed, c.ifs, c.default)
         /\ With([c EXCEPT !.server = x], c.heap, c.listed, c.ifs, c.default)
         /\ With([c EXCEPT !.options = x], c.heap, c.listed, c.ifs, c.default)
         /\ With([c EXCEPT !.aborted = x], c.heap, c.listed, c.ifs, c.default)
  <1>1. With([c EXCEPT !.ifs = x], c.heap, c.listed, x, c.default)
    BY SMTT(20) DEF Record, With
  <1>2. With([c EXCEPT !.heap = x], x, c.listed, c.ifs, c.default)
    BY SMTT(20) DEF Record, With
  <1>3. With([c EXCEPT !.listed = x], c.heap, x, c.ifs, c.default)
    BY SMTT(20) DEF Record, With
  <1>4. With([c EXCEPT !.default = x], c.heap, c.listed, c.ifs, x)
    BY SMTT(20) DEF Record, With
  <1>5. With([c EXCEPT !.finalised = x], c.heap, c.listed, c.ifs, c.default)
    BY SMTT(20) DEF Record, With
  <1>6. With([c EXCEPT !.in = x], c.heap, c.listed, c.ifs, c.default)
    BY SMTT(20) DEF Record, With
  <1>7. With([c EXCEPT !.out = x], c.heap, c.listed, c.ifs, c.default)
    BY SMTT(20) DEF Record, With
  <1>8. With([c EXCEPT !.redistribute = x], c.heap, c.listed, c.ifs, c.default)
    BY SMTT(20) DEF Record, With
  <1>9. With([c EXCEPT !.server = x], c.heap, c.listed, c.ifs, c.default)
    BY SMTT(20) DEF Record, With
  <1>10. With([c EXCEPT !.options = x], c.heap, c.listed, c.ifs, c.default)
    BY SMTT(20) DEF Record, With
  <1>11. With([c EXCEPT !.aborted = x], c.heap, c.listed, c.ifs, c.default)
    BY SMTT(20) DEF Record, With
  <1> QED
    BY <1>1, <1>2, <1>3, <1>4, <1>5, <1>6, <1>7, <1>8, <1>9, <1>10, <1>11

LEMMA ListedFact ==
  ASSUME NEW c, Record(c), NEW x, NEW y
  PROVE  With([c EXCEPT !.listed = x, !.heap = y], y, x, c.ifs, c.default)
  <1> DEFINE d == [c EXCEPT !.listed = x]
  <1>0. With(d, c.heap, x, c.ifs, c.default)
    BY FieldFact
  <1>1. Record(d) /\ d.heap = c.heap /\ d.listed = x
        /\ d.ifs = c.ifs /\ d.default = c.default
    BY <1>0, Zenon DEF With
  <1>2. [c EXCEPT !.listed = x, !.heap = y] = [d EXCEPT !.heap = y]
    OBVIOUS
  <1> HIDE DEF d
  <1>3. With([d EXCEPT !.heap = y], y, x, d.ifs, d.default)
    BY <1>1, FieldFact
  <1> QED
    BY <1>1, <1>2, <1>3

LEMMA DefaultFact ==
  ASSUME NEW c, Record(c), NEW x, NEW y
  PROVE  With([c EXCEPT !.default = x, !.heap = y], y, c.listed, c.ifs, x)
  <1> DEFINE d == [c EXCEPT !.default = x]
  <1>0. With(d, c.heap, c.listed, c.ifs, x)
    BY FieldFact
  <1>1. Record(d) /\ d.heap = c.heap /\ d.listed = c.listed
        /\ d.ifs = c.ifs /\ d.default = x
    BY <1>0, Zenon DEF With
  <1>2. [c EXCEPT !.default = x, !.heap = y] = [d EXCEPT !.heap = y]
    OBVIOUS
  <1> HIDE DEF d
  <1>3. With([d EXCEPT !.heap = y], y, d.listed, d.ifs, x)
    BY <1>1, FieldFact
  <1> QED
    BY <1>1, <1>2, <1>3

LEMMA OptionsFact ==
  ASSUME NEW c, Record(c), NEW x, NEW y
  PROVE  With([c EXCEPT !.options = x, !.aborted = y], c.heap, c.listed, c.ifs, c.default)
  <1> DEFINE d == [c EXCEPT !.options = x]
  <1>0. With(d, c.heap, c.listed, c.ifs, c.default)
    BY FieldFact
  <1>1. Record(d) /\ d.heap = c.heap /\ d.listed = c.listed
        /\ d.ifs = c.ifs /\ d.default = c.default
    BY <1>0, Zenon DEF With
  <1>2. [c EXCEPT !.options = x, !.aborted = y] = [d EXCEPT !.aborted = y]
    OBVIOUS
  <1> HIDE DEF d
  <1>3. With([d EXCEPT !.aborted = y], d.heap, d.listed, d.ifs, d.default)
    BY <1>1, FieldFact
  <1> QED
    BY <1>1, <1>2, <1>3

LEMMA FinalisedFact ==
  ASSUME NEW c, Record(c), NEW x, NEW y, NEW z
  PROVE  With([c EXCEPT !.finalised = x, !.listed = y, !.redistribute = z],
              c.heap, y, c.ifs, c.default)
  <1> DEFINE d == [c EXCEPT !.finalised = x]
             e == [d EXCEPT !.listed = y]
  <1>0. With(d, c.heap, c.listed, c.ifs, c.default)
    BY FieldFact
  <1>1. Record(d) /\ d.heap = c.heap /\ d.ifs = c.ifs /\ d.default = c.default
    BY <1>0, Zenon DEF With
  <1>2. [c EXCEPT !.finalised = x, !.listed = y, !.redistribute = z]
          = [e EXCEPT !.redistribute = z]
    OBVIOUS
  <1> HIDE DEF d
  <1>3. With(e, d.heap, y, d.ifs, d.default)
    BY <1>1, FieldFact
  <1> HIDE DEF e
  <1>4. Record(e) /\ e.heap = c.heap /\ e.listed = y /\ e.ifs = c.ifs /\ e.default = c.default
    BY <1>1, <1>3, Zenon DEF With
  <1>5. With([e EXCEPT !.redistribute = z], e.heap, e.listed, e.ifs, e.default)
    BY <1>4, FieldFact
  <1> QED
    BY <1>2, <1>4, <1>5

LEMMA CostFact ==
  ASSUME NEW c, NEW id, NEW x
  PROVE  WithCost(c, id, x)
           = [c EXCEPT !.heap = [c.heap EXCEPT ![id] = [c.heap[id] EXCEPT !.cost = x]]]
  BY Zenon DEF WithCost

LEMMA FreedFact ==
  ASSUME NEW c, NEW id, NEW x, Record(c)
  PROVE  [c EXCEPT !.listed = x, !.heap[id].alive = FALSE]
           = [c EXCEPT !.listed = x,
                       !.heap = [c.heap EXCEPT ![id] = [c.heap[id] EXCEPT !.alive = FALSE]]]
  BY DEF Record
-----------------------------------------------------------------------------
(* Who may refer to which structure. *)

\* A structure, and an interface.
Structure(e) == e = [name |-> e.name, cost |-> e.cost, alive |-> e.alive]
Interface(e) == e = [name |-> e.name, first |-> e.first, conf |-> e.conf]

LEMMA StructureFact ==
  ASSUME NEW e, Structure(e), NEW x
  PROVE  LET a == [e EXCEPT !.alive = x]
             b == [e EXCEPT !.cost = x]
         IN  Structure(a) /\ Structure(b) /\ b.name = e.name /\ b.alive = e.alive
  BY DEF Structure

\* What is listed is alive, is listed once, and is not the default.
ListOK(heap, listed, default) ==
  /\ IsList(listed)
  /\ \A i \in 1 .. Len(listed) : /\ listed[i] \in 1 .. Len(heap)
                                 /\ heap[listed[i]].alive
                                 /\ listed[i] # default
  /\ \A i, j \in 1 .. Len(listed) : listed[i] = listed[j] => i = j

\* An interface refers to a structure that is alive; to one of its own name, unless
\* it is the default; and there is one interface of a name.
Refers(heap, x, default) ==
  /\ Interface(x) /\ x.conf \in 0 .. Len(heap)
  /\ x.conf # 0 => heap[x.conf].alive
  /\ x.conf \notin {0, default} => heap[x.conf].name = x.name

IfsOK(heap, ifs, default) ==
  /\ IsList(ifs)
  /\ \A i \in 1 .. Len(ifs) : Refers(heap, ifs[i], default)
  /\ \A i, j \in 1 .. Len(ifs) : ifs[i].name = ifs[j].name => i = j

HeapOK(heap, default) ==
  /\ IsList(heap)
  /\ \A i \in 1 .. Len(heap) : Structure(heap[i])
  /\ default \in 0 .. Len(heap)
  /\ default # 0 => heap[default].alive

\* The inductive invariant of the configuration.
ConfsOK(heap, listed, ifs, default) ==
  /\ HeapOK(heap, default) /\ ListOK(heap, listed, default) /\ IfsOK(heap, ifs, default)

ConfOK(c) == Record(c) /\ ConfsOK(c.heap, c.listed, c.ifs, c.default)

LEMMA WithFact ==
  ASSUME NEW d, NEW heap, NEW listed, NEW ifs, NEW default,
         With(d, heap, listed, ifs, default), ConfsOK(heap, listed, ifs, default)
  PROVE  ConfOK(d)
  BY Zenon DEF With, ConfOK

\* Structures that were there keep their name and whether they are alive.
Kept(heap, new) ==
  /\ Len(heap) <= Len(new)
  /\ \A i \in 1 .. Len(heap) : new[i].name = heap[i].name /\ new[i].alive = heap[i].alive

LEMMA KeptFact ==
  ASSUME NEW heap, NEW new, NEW listed, NEW ifs, NEW default,
         ConfsOK(heap, listed, ifs, default), Kept(heap, new), HeapOK(new, default)
  PROVE  ConfsOK(new, listed, ifs, default)
  <1>0. Len(heap) \in Nat /\ Len(new) \in Nat
    BY ListFact DEF HeapOK, ConfsOK
  <1>1. ListOK(new, listed, default)
    <2>1. \A i \in 1 .. Len(listed) : listed[i] \in 1 .. Len(heap) /\ heap[listed[i]].alive
      BY DEF ConfsOK, ListOK
    <2>2. \A i \in 1 .. Len(listed) : listed[i] \in 1 .. Len(new) /\ new[listed[i]].alive
      BY <1>0, <2>1 DEF Kept
    <2> QED
      BY <2>2 DEF ConfsOK, ListOK
  <1>2. IfsOK(new, ifs, default)
    <2>1. ASSUME NEW i \in 1 .. Len(ifs)
          PROVE  Refers(new, ifs[i], default)
      <3>1. Refers(heap, ifs[i], default)
        BY DEF ConfsOK, IfsOK
      <3> DEFINE id == ifs[i].conf
      <3> HIDE DEF id
      <3>2. id \in 0 .. Len(heap) /\ (id # 0 => heap[id].alive)
            /\ (id \notin {0, default} => heap[id].name = ifs[i].name)
        BY <3>1 DEF id, Refers
      <3>3. id # 0 => id \in 1 .. Len(heap)
        BY <1>0, <3>2
      <3>4. id # 0 => new[id].name = heap[id].name /\ new[id].alive = heap[id].alive
        BY <3>3 DEF Kept
      <3>5. id \in 0 .. Len(new)
        BY <1>0, <3>2 DEF Kept
      <3> QED
        BY <3>1, <3>2, <3>4, <3>5 DEF id, Refers
    <2> QED
      BY <2>1, Zenon DEF ConfsOK, IfsOK
  <1> QED
    BY <1>1, <1>2 DEF ConfsOK

\* A structure more.
LEMMA GrowFact ==
  ASSUME NEW heap, NEW listed, NEW ifs, NEW default, NEW e,
         ConfsOK(heap, listed, ifs, default), Structure(e)
  PROVE  LET new == Append(heap, e)
         IN  ConfsOK(new, listed, ifs, default) /\ Kept(heap, new)
             /\ Len(new) = Len(heap) + 1 /\ new[Len(heap) + 1] = e
  <1> DEFINE new == Append(heap, e)
  <1>1. IsList(heap) /\ Len(heap) \in Nat
    BY ListFact DEF ConfsOK, HeapOK
  <1>2. /\ IsList(new) /\ Len(new) = Len(heap) + 1
        /\ \A i \in 1 .. Len(heap) : new[i] = heap[i]
        /\ new[Len(heap) + 1] = e
    BY <1>1, AppendFact
  <1> HIDE DEF new
  <1>3. Kept(heap, new)
    BY <1>1, <1>2 DEF Kept
  <1>4. HeapOK(new, default)
    BY <1>1, <1>2 DEF ConfsOK, HeapOK
  <1> QED
    BY <1>2, <1>3, <1>4, KeptFact DEF new

\* A structure that changes, and keeps its name.
LEMMA CostlyFact ==
  ASSUME NEW heap, NEW listed, NEW ifs, NEW default, NEW e, NEW id \in 1 .. Len(heap),
         ConfsOK(heap, listed, ifs, default),
         Structure(e), e.name = heap[id].name, e.alive = heap[id].alive
  PROVE  LET new == [heap EXCEPT ![id] = e]
         IN  ConfsOK(new, listed, ifs, default) /\ Kept(heap, new) /\ Len(new) = Len(heap)
  <1> DEFINE new == [heap EXCEPT ![id] = e]
  <1>1. IsList(heap) /\ Len(heap) \in Nat
    BY ListFact DEF ConfsOK, HeapOK
  <1>3. /\ IsList(new) /\ Len(new) = Len(heap) /\ new[id] = e
        /\ \A j \in 1 .. Len(heap) : j # id => new[j] = heap[j]
    BY <1>1, ChangeFact
  <1> HIDE DEF new
  <1>4. Kept(heap, new)
    BY <1>1, <1>3 DEF Kept
  <1>5. HeapOK(new, default)
    <2>1. \A i \in 1 .. Len(new) : Structure(new[i])
      BY <1>3 DEF ConfsOK, HeapOK
    <2>2. default \in 0 .. Len(heap) /\ (default # 0 => heap[default].alive)
      BY DEF ConfsOK, HeapOK
    <2>3. default # 0 => new[default].alive
      BY <1>1, <1>4, <2>2 DEF Kept
    <2> QED
      BY <1>3, <2>1, <2>2, <2>3 DEF HeapOK
  <1> QED
    BY <1>3, <1>4, <1>5, KeptFact DEF new

\* One more is listed.
LEMMA ListedMoreFact ==
  ASSUME NEW heap, NEW listed, NEW ifs, NEW default, NEW id \in 1 .. Len(heap),
         ConfsOK(heap, listed, ifs, default), heap[id].alive, id # default,
         \A i \in 1 .. Len(listed) : listed[i] # id
  PROVE  ConfsOK(heap, Append(listed, id), ifs, default)
  <1> DEFINE new == Append(listed, id)
  <1>1. IsList(listed) /\ Len(listed) \in Nat
    BY ListFact DEF ConfsOK, ListOK
  <1>2. /\ IsList(new) /\ Len(new) = Len(listed) + 1
        /\ \A i \in 1 .. Len(listed) : new[i] = listed[i]
        /\ new[Len(listed) + 1] = id
    BY <1>1, AppendFact
  <1> HIDE DEF new
  <1>3. \A i \in 1 .. Len(new) : \/ new[i] = id /\ i = Len(listed) + 1
                                 \/ i \in 1 .. Len(listed) /\ new[i] = listed[i]
    BY <1>1, <1>2
  <1>4. \A i \in 1 .. Len(listed) : listed[i] \in 1 .. Len(heap) /\ heap[listed[i]].alive
                                    /\ listed[i] # default
    BY DEF ConfsOK, ListOK
  <1>5. \A i, j \in 1 .. Len(new) : new[i] = new[j] => i = j
    <2>1. \A i, j \in 1 .. Len(listed) : listed[i] = listed[j] => i = j
      BY DEF ConfsOK, ListOK
    <2> QED
      BY <1>3, <2>1
  <1>6. ListOK(heap, new, default)
    BY <1>2, <1>3, <1>4, <1>5, Zenon DEF ListOK
  <1> QED
    BY <1>6 DEF ConfsOK, new

\* A default.
LEMMA DefaultedFact ==
  ASSUME NEW heap, NEW listed, NEW ifs, NEW id \in 1 .. Len(heap),
         ConfsOK(heap, listed, ifs, 0), heap[id].alive,
         \A i \in 1 .. Len(listed) : listed[i] # id
  PROVE  ConfsOK(heap, listed, ifs, id)
  <1>1. Len(heap) \in Nat
    BY ListFact DEF ConfsOK, HeapOK
  <1>2. HeapOK(heap, id)
    BY <1>1 DEF ConfsOK, HeapOK
  <1>3. ListOK(heap, listed, id)
    BY DEF ConfsOK, ListOK
  <1>4. IfsOK(heap, ifs, id)
    <2>1. \A i \in 1 .. Len(ifs) : Refers(heap, ifs[i], 0)
      BY DEF ConfsOK, IfsOK
    <2>2. \A i \in 1 .. Len(ifs) : Refers(heap, ifs[i], id)
      BY <2>1 DEF Refers
    <2> QED
      BY <2>2, Zenon DEF ConfsOK, IfsOK
  <1> QED
    BY <1>2, <1>3, <1>4 DEF ConfsOK

\* An interface more, of a name that is not there.
LEMMA JoinFact ==
  ASSUME NEW heap, NEW listed, NEW ifs, NEW default, NEW x,
         ConfsOK(heap, listed, ifs, default), Refers(heap, x, default),
         \A i \in 1 .. Len(ifs) : ifs[i].name # x.name
  PROVE  ConfsOK(heap, listed, Append(ifs, x), default)
  <1> DEFINE new == Append(ifs, x)
  <1>1. IsList(ifs) /\ Len(ifs) \in Nat
    BY ListFact DEF ConfsOK, IfsOK
  <1>2. /\ IsList(new) /\ Len(new) = Len(ifs) + 1
        /\ \A i \in 1 .. Len(ifs) : new[i] = ifs[i]
        /\ new[Len(ifs) + 1] = x
    BY <1>1, AppendFact
  <1> HIDE DEF new
  <1>3. \A i \in 1 .. Len(new) : new[i] = x \/ \E j \in 1 .. Len(ifs) : new[i] = ifs[j]
    BY <1>1, <1>2
  <1>4. \A i \in 1 .. Len(new) : Refers(heap, new[i], default)
    BY <1>3, Zenon DEF ConfsOK, IfsOK
  <1>5. \A i, j \in 1 .. Len(new) : new[i].name = new[j].name => i = j
    BY <1>1, <1>2 DEF ConfsOK, IfsOK
  <1>6. IfsOK(heap, new, default)
    BY <1>2, <1>4, <1>5, Zenon DEF IfsOK
  <1> QED
    BY <1>6 DEF ConfsOK, new

\* The interfaces are those of the list but i.
Left(ifs, i, new) ==
  \A k \in 1 .. Len(new) : \E j \in 1 .. Len(ifs) : j # i /\ new[k] = ifs[j]

\* An interface less.
LEMMA LeaveFact ==
  ASSUME NEW heap, NEW listed, NEW ifs, NEW default, NEW i \in 1 .. Len(ifs),
         ConfsOK(heap, listed, ifs, default)
  PROVE  LET new == Without(ifs, i)
         IN  ConfsOK(heap, listed, new, default) /\ Left(ifs, i, new)
  <1> DEFINE new == Without(ifs, i)
  <1>1. IsList(ifs) /\ Len(ifs) \in Nat
    BY ListFact DEF ConfsOK, IfsOK
  <1>2. /\ IsList(new) /\ Len(new) = Len(ifs) - 1
        /\ \A j \in 1 .. Len(new) : new[j] = IF j < i THEN ifs[j] ELSE ifs[j + 1]
    BY <1>1, WithoutFact
  <1> HIDE DEF new
  <1>3. \A k \in 1 .. Len(new) : \E j \in 1 .. Len(ifs) : j # i /\ new[k] = ifs[j]
    <2> TAKE k \in 1 .. Len(new)
    <2>1. k \in 1 .. Len(ifs) /\ k + 1 \in 1 .. Len(ifs)
      BY <1>1, <1>2
    <2>2. CASE k < i
      BY <1>2, <2>1, <2>2
    <2>3. CASE ~(k < i)
      BY <1>2, <2>1, <2>3
    <2> QED
      BY <2>2, <2>3
  <1>4. \A k \in 1 .. Len(new) : Refers(heap, new[k], default)
    BY <1>3, Zenon DEF ConfsOK, IfsOK
  <1>5. \A k, j \in 1 .. Len(new) : new[k].name = new[j].name => k = j
    BY <1>1, <1>2 DEF ConfsOK, IfsOK
  <1>6. IfsOK(heap, new, default)
    BY <1>2, <1>4, <1>5, Zenon DEF IfsOK
  <1> QED
    BY <1>3, <1>6 DEF ConfsOK, Left, new

\* A structure that is listed is freed: no interface refers to it.
LEMMA FlushFact ==
  ASSUME NEW heap, NEW listed, NEW ifs, NEW default, NEW i \in 1 .. Len(listed),
         ConfsOK(heap, listed, ifs, default),
         \A j \in 1 .. Len(ifs) : ifs[j].conf # listed[i]
  PROVE  ConfsOK([heap EXCEPT ![listed[i]] = [heap[listed[i]] EXCEPT !.alive = FALSE]],
                 Without(listed, i), ifs, default)
  <1> DEFINE id == listed[i]
             e == [heap[id] EXCEPT !.alive = FALSE]
             new == [heap EXCEPT ![id] = e]
             rest == Without(listed, i)
  <1>1. /\ IsList(heap) /\ Len(heap) \in Nat /\ IsList(listed) /\ Len(listed) \in Nat
        /\ id \in 1 .. Len(heap) /\ Structure(heap[id]) /\ id # default
    BY ListFact DEF ConfsOK, HeapOK, ListOK
  <1>2. Structure(e)
    <2> HIDE DEF id
    <2> QED
      BY <1>1, StructureFact
  <1> HIDE DEF e
  <1>3. /\ IsList(rest) /\ Len(rest) = Len(listed) - 1
        /\ \A j \in 1 .. Len(rest) : rest[j] = IF j < i THEN listed[j] ELSE listed[j + 1]
    BY <1>1, WithoutFact
  <1> HIDE DEF rest
  <1>4. \A k \in 1 .. Len(rest) : \E j \in 1 .. Len(listed) : j # i /\ rest[k] = listed[j]
    <2> TAKE k \in 1 .. Len(rest)
    <2>1. k \in 1 .. Len(listed) /\ k + 1 \in 1 .. Len(listed)
      BY <1>1, <1>3
    <2>2. CASE k < i
      BY <1>3, <2>1, <2>2
    <2>3. CASE ~(k < i)
      BY <1>3, <2>1, <2>3
    <2> QED
      BY <2>2, <2>3
  <1>5. \A k \in 1 .. Len(rest) : rest[k] # id
    BY <1>4 DEF ConfsOK, ListOK
  <1>6. \A k, j \in 1 .. Len(rest) : rest[k] = rest[j] => k = j
    BY <1>1, <1>3 DEF ConfsOK, ListOK
  <1> HIDE DEF id
  <1>7. /\ IsList(new) /\ Len(new) = Len(heap) /\ new[id] = e
        /\ \A j \in 1 .. Len(heap) : j # id => new[j] = heap[j]
    BY <1>1, ChangeFact
  <1> HIDE DEF new
  <1>8. HeapOK(new, default)
    BY <1>1, <1>2, <1>7 DEF ConfsOK, HeapOK
  <1>9. ListOK(new, rest, default)
    <2>1. \A k \in 1 .. Len(rest) : /\ rest[k] \in 1 .. Len(heap) /\ heap[rest[k]].alive
                                    /\ rest[k] # default
      BY <1>4 DEF ConfsOK, ListOK
    <2> QED
      BY <1>3, <1>5, <1>6, <1>7, <2>1 DEF ListOK
  <1>10. IfsOK(new, ifs, default)
    <2>1. ASSUME NEW k \in 1 .. Len(ifs)
          PROVE  Refers(new, ifs[k], default)
      <3> DEFINE at == ifs[k].conf
      <3>0. Refers(heap, ifs[k], default)
        BY DEF ConfsOK, IfsOK
      <3>1. at \in 0 .. Len(heap) /\ (at # 0 => heap[at].alive) /\ at # id
            /\ (at \notin {0, default} => heap[at].name = ifs[k].name)
        BY <3>0 DEF Refers, id
      <3> HIDE DEF at
      <3>2. at # 0 => new[at] = heap[at]
        BY <1>1, <1>7, <3>1
      <3> QED
        BY <1>7, <3>0, <3>1, <3>2 DEF at, Refers
    <2> QED
      BY <2>1, Zenon DEF ConfsOK, IfsOK
  <1> QED
    BY <1>8, <1>9, <1>10, Zenon DEF ConfsOK, new, e, id, rest

-----------------------------------------------------------------------------
(* The operations keep the invariant. *)

\* add_interface, with a structure of the name or with none.
LEMMA AddInterfaceFact ==
  ASSUME NEW c, ConfOK(c), NEW name, NEW id \in 0 .. Len(c.heap),
         id # 0 => c.heap[id].alive /\ c.heap[id].name = name
  PROVE  /\ ConfOK(add_interface(c, name, id))
         /\ \E ifs : With(add_interface(c, name, id), c.heap, c.listed, ifs, c.default)
  <1>1. CASE name \in Names(c)
    <2>1. add_interface(c, name, id) = c
      BY <1>1 DEF add_interface
    <2> QED
      BY <2>1 DEF ConfOK, With
  <1>2. CASE name \notin Names(c)
    <2> DEFINE x == [name |-> name, first |-> ~c.finalised,
                     conf |-> IF id # 0 THEN id ELSE c.default]
    <2>1. add_interface(c, name, id) = [c EXCEPT !.ifs = Append(c.ifs, x)]
      BY <1>2, Zenon DEF add_interface
    <2>2. /\ Interface(x) /\ x.name = name
          /\ x.conf = IF id # 0 THEN id ELSE c.default
      BY DEF Interface
    <2> HIDE DEF x
    <2>3. /\ ConfsOK(c.heap, c.listed, c.ifs, c.default) /\ HeapOK(c.heap, c.default)
          /\ IsList(c.ifs) /\ Record(c)
      BY DEF ConfOK, ConfsOK, IfsOK
    <2>4. Refers(c.heap, x, c.default)
      BY <2>2, <2>3 DEF Refers, HeapOK
    <2>5. \A i \in 1 .. Len(c.ifs) : c.ifs[i].name # x.name
      BY <1>2, <2>2, <2>3, ListFact DEF Names
    <2>6. ConfsOK(c.heap, c.listed, Append(c.ifs, x), c.default)
      BY <2>3, <2>4, <2>5, JoinFact
    <2>7. With(add_interface(c, name, id), c.heap, c.listed, Append(c.ifs, x), c.default)
      <3> DEFINE new == Append(c.ifs, x)
      <3> HIDE DEF new
      <3>1. With([c EXCEPT !.ifs = new], c.heap, c.listed, new, c.default)
        BY <2>3, FieldFact
      <3> QED
        BY <2>1, <3>1 DEF new
    <2> QED
      BY <2>6, <2>7, WithFact
  <1> QED
    BY <1>1, <1>2

\* MERGE into a structure.
LEMMA WithCostFact ==
  ASSUME NEW c, ConfOK(c), NEW id \in 1 .. Len(c.heap), NEW x
  PROVE  LET d == WithCost(c, id, x)
         IN  /\ ConfOK(d) /\ Kept(c.heap, d.heap) /\ Len(d.heap) = Len(c.heap)
             /\ With(d, d.heap, c.listed, c.ifs, c.default)
  <1> DEFINE d == WithCost(c, id, x)
             new == [c.heap EXCEPT ![id] = [c.heap[id] EXCEPT !.cost = x]]
  <1>1. ConfsOK(c.heap, c.listed, c.ifs, c.default) /\ Record(c)
    BY DEF ConfOK
  <1>2. ConfsOK(new, c.listed, c.ifs, c.default) /\ Kept(c.heap, new) /\ Len(new) = Len(c.heap)
    <2> DEFINE heap == c.heap
               e == [heap[id] EXCEPT !.cost = x]
    <2>1. Structure(heap[id]) /\ id \in 1 .. Len(heap)
      BY <1>1 DEF ConfsOK, HeapOK
    <2> HIDE DEF heap
    <2>2. Structure(e) /\ e.name = heap[id].name /\ e.alive = heap[id].alive
      BY <2>1, StructureFact
    <2>3. new = [c.heap EXCEPT ![id] = e]
      BY DEF heap
    <2> HIDE DEF e, new
    <2> QED
      BY <1>1, <2>1, <2>2, <2>3, CostlyFact DEF heap
  <1>3. d = [c EXCEPT !.heap = new]
    BY CostFact
  <1> HIDE DEF d, new
  <1>4. With(d, new, c.listed, c.ifs, c.default)
    BY <1>1, <1>3, FieldFact
  <1>5. ConfOK(d)
    BY <1>2, <1>4, WithFact
  <1>6. d.heap = new
    BY <1>4 DEF With
  <1> QED
    BY <1>2, <1>4, <1>5, <1>6 DEF d

LEMMA AddIfconfFact ==
  ASSUME NEW c, ConfOK(c), NEW name, NEW cost
  PROVE  ConfOK(add_ifconf(c, name, cost))
  <1> DEFINE same == {i \in DOMAIN c.listed : c.heap[c.listed[i]].name = name}
             id == IF same = {} THEN Len(c.heap) + 1 ELSE c.listed[CHOOSE i \in same : TRUE]
             d == IF same # {} THEN WithCost(c, id, merge_ifconf(cost, c.heap[id].cost))
                  ELSE [c EXCEPT !.listed = Append(c.listed, id),
                                 !.heap = Append(c.heap, [name |-> name, cost |-> cost,
                                                          alive |-> TRUE])]
  <1>1. add_ifconf(c, name, cost) = IF c.finalised THEN add_interface(d, name, id) ELSE d
    BY Zenon DEF add_ifconf
  <1>2. /\ ConfsOK(c.heap, c.listed, c.ifs, c.default) /\ Record(c)
        /\ IsList(c.heap) /\ IsList(c.listed) /\ Len(c.heap) \in Nat
        /\ DOMAIN c.listed = 1 .. Len(c.listed) /\ c.default \in 0 .. Len(c.heap)
        /\ \A i \in 1 .. Len(c.listed) : /\ c.listed[i] \in 1 .. Len(c.heap)
                                         /\ c.heap[c.listed[i]].alive
    BY ListFact DEF ConfOK, ConfsOK, HeapOK, ListOK
  <1>3. ConfOK(d) /\ id \in 0 .. Len(d.heap) /\ d.heap[id].alive /\ d.heap[id].name = name
    <2>1. CASE same # {}
      <3>1. id \in 1 .. Len(c.heap) /\ c.heap[id].alive /\ c.heap[id].name = name
        BY <1>2, <2>1
      <3>2. d = WithCost(c, id, merge_ifconf(cost, c.heap[id].cost))
        BY <2>1
      <3> HIDE DEF d, id, same
      <3>3. ConfOK(d) /\ Kept(c.heap, d.heap) /\ Len(d.heap) = Len(c.heap)
        BY <3>1, <3>2, WithCostFact
      <3> QED
        BY <3>1, <3>3 DEF Kept
    <2>2. CASE same = {}
      <3> DEFINE e == [name |-> name, cost |-> cost, alive |-> TRUE]
                 new == Append(c.heap, e)
      <3>1. Structure(e) /\ e.alive /\ e.name = name
        BY DEF Structure
      <3>2. id = Len(c.heap) + 1
        BY <2>2
      <3>3. d = [c EXCEPT !.listed = Append(c.listed, id), !.heap = new]
        BY <2>2
      <3> HIDE DEF d, id, same, e
      <3>4. ConfsOK(new, c.listed, c.ifs, c.default) /\ Kept(c.heap, new)
            /\ Len(new) = Len(c.heap) + 1 /\ new[id] = e
        BY <1>2, <3>1, <3>2, GrowFact
      <3> HIDE DEF new
      <3>5. id \in 1 .. Len(new) /\ id # c.default /\ new[id].alive
            /\ \A i \in 1 .. Len(c.listed) : c.listed[i] # id
        BY <1>2, <3>1, <3>2, <3>4
      <3>6. ConfsOK(new, Append(c.listed, id), c.ifs, c.default)
        BY <3>4, <3>5, ListedMoreFact
      <3>7. With(d, new, Append(c.listed, id), c.ifs, c.default)
        BY <1>2, <3>3, ListedFact
      <3>8. ConfOK(d) /\ d.heap = new
        BY <3>6, <3>7, WithFact DEF With
      <3> QED
        BY <3>1, <3>4, <3>5, <3>8
    <2> QED
      BY <2>1, <2>2
  <1> HIDE DEF d, id, same
  <1>4. ConfOK(add_interface(d, name, id))
    BY <1>3, AddInterfaceFact
  <1> QED
    BY <1>1, <1>3, <1>4

\* flush_ifconf, when no interface refers to the structure.
LEMMA FlushIfconfFact ==
  ASSUME NEW c, ConfOK(c), NEW id, \A j \in 1 .. Len(c.ifs) : c.ifs[j].conf # id
  PROVE  ConfOK(flush_ifconf(c, id))
  <1>1. /\ ConfsOK(c.heap, c.listed, c.ifs, c.default) /\ Record(c)
        /\ DOMAIN c.listed = 1 .. Len(c.listed)
    BY ListFact DEF ConfOK, ConfsOK, ListOK
  <1>2. CASE id \notin Listed(c)
    BY <1>2 DEF flush_ifconf
  <1>3. CASE id \in Listed(c)
    <2> DEFINE i == CHOOSE i \in DOMAIN c.listed : c.listed[i] = id
               d == flush_ifconf(c, id)
               rest == Without(c.listed, i)
               new == [c.heap EXCEPT ![id] = [c.heap[id] EXCEPT !.alive = FALSE]]
    <2>1. i \in 1 .. Len(c.listed) /\ c.listed[i] = id
      BY <1>1, <1>3 DEF Listed
    <2>2. d = [c EXCEPT !.listed = rest, !.heap[id].alive = FALSE]
      BY <1>3, Zenon DEF flush_ifconf
    <2> HIDE DEF d, i
    <2>3. d = [c EXCEPT !.listed = rest, !.heap = new]
      BY <1>1, <2>2, FreedFact
    <2>4. ConfsOK(new, rest, c.ifs, c.default)
      BY <1>1, <2>1, FlushFact
    <2> HIDE DEF new, rest
    <2>5. With(d, new, rest, c.ifs, c.default)
      BY <1>1, <2>3, ListedFact
    <2> QED
      BY <2>4, <2>5, WithFact DEF d
  <1> QED
    BY <1>2, <1>3

LEMMA FlushInterfaceFact ==
  ASSUME NEW c, ConfOK(c), NEW name, name \in Names(c)
  PROVE  ConfOK(flush_interface(c, name))
  <1> DEFINE i == CHOOSE i \in DOMAIN c.ifs : c.ifs[i].name = name
             id == c.ifs[i].conf
             rest == Without(c.ifs, i)
             d == [c EXCEPT !.ifs = rest]
  <1>1. flush_interface(c, name) = IF id \in {0, c.default} THEN d ELSE flush_ifconf(d, id)
    BY Zenon DEF flush_interface
  <1>2. /\ ConfsOK(c.heap, c.listed, c.ifs, c.default) /\ Record(c)
        /\ DOMAIN c.ifs = 1 .. Len(c.ifs)
        /\ \A j \in 1 .. Len(c.ifs) : Refers(c.heap, c.ifs[j], c.default)
        /\ \A j, k \in 1 .. Len(c.ifs) : c.ifs[j].name = c.ifs[k].name => j = k
    BY ListFact DEF ConfOK, ConfsOK, IfsOK
  <1>3. i \in 1 .. Len(c.ifs) /\ c.ifs[i].name = name
    BY <1>2 DEF Names
  <1> HIDE DEF i
  <1>4. ConfsOK(c.heap, c.listed, rest, c.default) /\ Left(c.ifs, i, rest)
    BY <1>2, <1>3, LeaveFact
  <1> HIDE DEF rest
  <1>5. With(d, c.heap, c.listed, rest, c.default)
    BY <1>2, FieldFact
  <1> HIDE DEF d
  <1>6. ConfOK(d) /\ d.ifs = rest
    BY <1>4, <1>5, WithFact DEF With
  <1>7. id \notin {0, c.default} => \A k \in 1 .. Len(rest) : rest[k].conf # id
    <2> SUFFICES ASSUME id \notin {0, c.default}, NEW k \in 1 .. Len(rest), rest[k].conf = id
                 PROVE  FALSE
      OBVIOUS
    <2>1. PICK j \in 1 .. Len(c.ifs) : j # i /\ rest[k] = c.ifs[j]
      BY <1>4 DEF Left
    <2>4. Refers(c.heap, c.ifs[i], c.default) /\ Refers(c.heap, c.ifs[j], c.default)
      BY <1>2, <1>3
    <2>2. c.heap[id].name = c.ifs[i].name /\ c.heap[id].name = c.ifs[j].name
      BY <2>1, <2>4 DEF Refers
    <2> QED
      BY <1>2, <1>3, <2>1, <2>2
  <1> HIDE DEF id
  <1>8. id \notin {0, c.default} => ConfOK(flush_ifconf(d, id))
    BY <1>6, <1>7, FlushIfconfFact
  <1> QED
    BY <1>1, <1>6, <1>8

LEMMA SetDefaultFact ==
  ASSUME NEW c, ConfOK(c), NEW cost
  PROVE  ConfOK(SetDefault(c, cost))
  <1>1. /\ ConfsOK(c.heap, c.listed, c.ifs, c.default) /\ Record(c)
        /\ Len(c.heap) \in Nat /\ c.default \in 0 .. Len(c.heap)
        /\ \A i \in 1 .. Len(c.listed) : c.listed[i] \in 1 .. Len(c.heap)
    BY ListFact DEF ConfOK, ConfsOK, HeapOK, ListOK
  <1>2. CASE c.default = 0
    <2> DEFINE e == [name |-> "", cost |-> cost, alive |-> TRUE]
               new == Append(c.heap, e)
               id == Len(c.heap) + 1
               d == SetDefault(c, cost)
    <2>1. Structure(e) /\ e.alive
      BY DEF Structure
    <2>2. d = [c EXCEPT !.default = id, !.heap = new]
      BY <1>2 DEF SetDefault
    <2> HIDE DEF d, e
    <2>3. /\ ConfsOK(new, c.listed, c.ifs, c.default)
          /\ Len(new) = Len(c.heap) + 1 /\ new[Len(c.heap) + 1] = e
      BY <1>1, <2>1, GrowFact
    <2> HIDE DEF new
    <2>4. /\ ConfsOK(new, c.listed, c.ifs, 0) /\ id \in 1 .. Len(new) /\ new[id].alive
          /\ \A i \in 1 .. Len(c.listed) : c.listed[i] # id
      BY <1>1, <1>2, <2>1, <2>3
    <2> HIDE DEF id
    <2>5. ConfsOK(new, c.listed, c.ifs, id)
      BY <2>4, DefaultedFact
    <2>6. With(d, new, c.listed, c.ifs, id)
      BY <1>1, <2>2, DefaultFact
    <2> QED
      BY <2>5, <2>6, WithFact DEF d
  <1>3. CASE c.default # 0
    <2>1. SetDefault(c, cost) = WithCost(c, c.default, merge_ifconf(cost, c.heap[c.default].cost))
      BY <1>3 DEF SetDefault
    <2>2. c.default \in 1 .. Len(c.heap)
      BY <1>1, <1>3
    <2> QED
      BY <2>1, <2>2, WithCostFact
  <1> QED
    BY <1>2, <1>3

\* The two loops of finalise_config: over the structures that are listed, and over
\* the interfaces of the command line.
Take(c, default, d, id) ==
  add_interface(WithCost(d, id, merge_ifconf(d.heap[id].cost, default)),
                c.heap[id].name, id)

LEMMA TakeFact ==
  ASSUME NEW c, ConfOK(c), NEW default, NEW walk, NEW N \in Nat, N = Len(c.listed),
         walk[0] = c,
         \A n \in Nat : n < N => walk[n + 1] = Take(c, default, walk[n], c.listed[n + 1])
  PROVE  ConfOK(walk[N])
  <1> DEFINE Ok(d) == ConfOK(d) /\ Kept(c.heap, d.heap) /\ Len(d.heap) = Len(c.heap)
             T == {n \in Nat : Ok(walk[n])}
  <1>1. /\ IsList(c.heap) /\ Len(c.heap) \in Nat
        /\ \A i \in 1 .. Len(c.listed) : c.listed[i] \in 1 .. Len(c.heap)
                                         /\ c.heap[c.listed[i]].alive
    BY ListFact DEF ConfOK, ConfsOK, HeapOK, ListOK
  <1>2. 0 \in T
    BY <1>1 DEF Kept
  <1>3. \A n \in T : n \in Nat /\ n < N => n + 1 \in T
    <2> SUFFICES ASSUME NEW n \in Nat, Ok(walk[n]), n < N
                 PROVE  Ok(walk[n + 1])
      OBVIOUS
    <2> DEFINE d == walk[n]
               id == c.listed[n + 1]
               cost == merge_ifconf(d.heap[id].cost, default)
               e == WithCost(d, id, cost)
               u == add_interface(e, c.heap[id].name, id)
    <2>1. walk[n + 1] = u /\ Ok(d)
      BY Zenon DEF Take
    <2>2. n + 1 \in 1 .. Len(c.listed)
      OBVIOUS
    <2>3. id \in 1 .. Len(c.heap) /\ c.heap[id].alive
      BY <1>1, <2>2
    <2> HIDE DEF d, id, cost
    <2>4. id \in 1 .. Len(d.heap)
      BY <2>1, <2>3
    <2>5. /\ ConfOK(e) /\ Kept(d.heap, e.heap) /\ Len(e.heap) = Len(d.heap)
      BY <2>1, <2>4, WithCostFact
    <2> HIDE DEF e
    <2>6. Kept(c.heap, e.heap) /\ Len(e.heap) = Len(c.heap)
      BY <1>1, <2>1, <2>5 DEF Kept
    <2>7. e.heap[id].alive /\ e.heap[id].name = c.heap[id].name /\ id \in 0 .. Len(e.heap)
      BY <1>1, <2>3, <2>6 DEF Kept
    <2>8. ConfOK(u) /\ \E ifs : With(u, e.heap, e.listed, ifs, e.default)
      BY <2>5, <2>7, AddInterfaceFact
    <2> HIDE DEF u
    <2>9. u.heap = e.heap
      BY <2>8 DEF With
    <2>10. Ok(u)
      BY <2>6, <2>8, <2>9
    <2> HIDE DEF Ok
    <2> QED
      BY <2>1, <2>10
  <1>4. N \in T
    <2> HIDE DEF T
    <2> QED
      BY <1>2, <1>3, InductionFact
  <1> QED
    BY <1>4

LEMMA ArgueFact ==
  ASSUME NEW done, ConfOK(done), NEW arguments, NEW walk, NEW N \in Nat, walk[0] = done,
         \A n \in Nat : n < N => walk[n + 1] = add_interface(walk[n], arguments[n + 1], 0)
  PROVE  ConfOK(walk[N])
  <1> DEFINE T == {n \in Nat : ConfOK(walk[n])}
  <1>1. 0 \in T
    OBVIOUS
  <1>2. \A n \in T : n \in Nat /\ n < N => n + 1 \in T
    <2> SUFFICES ASSUME NEW n \in Nat, ConfOK(walk[n]), n < N
                 PROVE  ConfOK(walk[n + 1])
      OBVIOUS
    <2> DEFINE d == walk[n]
    <2>1. ConfOK(d) /\ walk[n + 1] = add_interface(d, arguments[n + 1], 0)
      OBVIOUS
    <2> HIDE DEF d
    <2>2. 0 \in 0 .. Len(d.heap)
      BY <2>1, ListFact DEF ConfOK, ConfsOK, HeapOK
    <2> QED
      BY <2>1, <2>2, AddInterfaceFact
  <1>3. N \in T
    <2> HIDE DEF T
    <2> QED
      BY <1>1, <1>2, InductionFact
  <1> QED
    BY <1>3

Taking(c, default) ==
  CHOOSE g : g = [i \in 0 .. Len(c.listed) |->
                   IF i = 0 THEN c ELSE Take(c, default, g[i - 1], c.listed[i])]

LEMMA TakenFact ==
  ASSUME NEW c, NEW default, Len(c.listed) \in Nat
  PROVE  LET N == Len(c.listed)
             walk == Taking(c, default)
         IN  /\ walk[0] = c
             /\ \A n \in Nat : n < N => walk[n + 1] = Take(c, default, walk[n], c.listed[n + 1])
  <1> DEFINE N == Len(c.listed)
             Is(n, g) == g = [i \in 0 .. n |-> IF i = 0 THEN c ELSE Take(c, default, g[i - 1], c.listed[i])]
             walk == Taking(c, default)
             S == {n \in Nat : \E g : Is(n, g)}
  <1>1. walk = CHOOSE g : Is(N, g)
    BY DEF Taking
  <1>2. N \in Nat
    OBVIOUS
  <1> HIDE DEF N, walk
  <1>3. 0 \in S
    <2> DEFINE g == [i \in 0 .. 0 |-> c]
    <2>1. Is(0, g)
      OBVIOUS
    <2> QED
      BY <2>1
  <1>4. \A n \in S : n \in Nat /\ n < N => n + 1 \in S
    <2> HIDE DEF Is
    <2> SUFFICES ASSUME NEW n \in Nat, NEW g, Is(n, g)
                 PROVE  \E h : Is(n + 1, h)
      OBVIOUS
    <2> USE DEF Is
    <2> DEFINE h == [i \in 0 .. n + 1 |-> IF i <= n THEN g[i] ELSE Take(c, default, g[n], c.listed[n + 1])]
    <2>1. \A i \in 0 .. n : h[i] = g[i]
      OBVIOUS
    <2>2. \A i \in 0 .. n + 1 : h[i] = IF i = 0 THEN c ELSE Take(c, default, h[i - 1], c.listed[i])
      <3> SUFFICES ASSUME NEW i \in 0 .. n + 1
                   PROVE  h[i] = IF i = 0 THEN c ELSE Take(c, default, h[i - 1], c.listed[i])
        OBVIOUS
      <3>1. CASE i \in 0 .. n
        <4>1. g[i] = IF i = 0 THEN c ELSE Take(c, default, g[i - 1], c.listed[i])
          BY <3>1
        <4>2. i # 0 => i - 1 \in 0 .. n
          BY <3>1
        <4> QED
          BY <2>1, <3>1, <4>1, <4>2
      <3>2. CASE i = n + 1
        <4>1. /\ h[n + 1] = Take(c, default, g[n], c.listed[n + 1])
              /\ h[n] = g[n] /\ (n + 1) - 1 = n /\ n + 1 # 0
          OBVIOUS
        <4> QED
          BY <3>2, <4>1
      <3> QED
        BY <3>1, <3>2
    <2> HIDE DEF h
    <2>3. h = [i \in 0 .. n + 1 |-> h[i]]
      BY DEF h
    <2>4. Is(n + 1, h)
      BY <2>2, <2>3
    <2> QED
      BY <2>4
  <1>5. N \in S
    <2> HIDE DEF S
    <2> QED
      BY <1>2, <1>3, <1>4, InductionFact
  <1>6. Is(N, walk)
    <2>1. PICK g : Is(N, g)
      BY <1>5
    <2> HIDE DEF Is
    <2> QED
      BY <1>1, <2>1
  <1> HIDE DEF S
  <1>7. /\ walk[0] = c
        /\ \A n \in Nat : n < N => walk[n + 1] = Take(c, default, walk[n], c.listed[n + 1])
    <2>1. \A i \in 0 .. N : walk[i] = IF i = 0 THEN c ELSE Take(c, default, walk[i - 1], c.listed[i])
      BY <1>6
    <2> HIDE DEF Is
    <2> QED
      BY <1>2, <2>1
  <1> HIDE DEF Is
  <1> QED
    BY <1>7 DEF N, walk

Arguing(done, arguments) ==
  CHOOSE g : g = [i \in 0 .. Len(arguments) |->
                   IF i = 0 THEN done ELSE add_interface(g[i - 1], arguments[i], 0)]

LEMMA ArguedFact ==
  ASSUME NEW done, NEW arguments, Len(arguments) \in Nat
  PROVE  LET N == Len(arguments)
             walk == Arguing(done, arguments)
         IN  /\ walk[0] = done
             /\ \A n \in Nat : n < N => walk[n + 1] = add_interface(walk[n], arguments[n + 1], 0)
  <1> DEFINE N == Len(arguments)
             Is(n, g) == g = [i \in 0 .. n |-> IF i = 0 THEN done ELSE add_interface(g[i - 1], arguments[i], 0)]
             walk == Arguing(done, arguments)
             S == {n \in Nat : \E g : Is(n, g)}
  <1>1. walk = CHOOSE g : Is(N, g)
    BY DEF Arguing
  <1>2. N \in Nat
    OBVIOUS
  <1> HIDE DEF N, walk
  <1>3. 0 \in S
    <2> DEFINE g == [i \in 0 .. 0 |-> done]
    <2>1. Is(0, g)
      OBVIOUS
    <2> QED
      BY <2>1
  <1>4. \A n \in S : n \in Nat /\ n < N => n + 1 \in S
    <2> HIDE DEF Is
    <2> SUFFICES ASSUME NEW n \in Nat, NEW g, Is(n, g)
                 PROVE  \E h : Is(n + 1, h)
      OBVIOUS
    <2> USE DEF Is
    <2> DEFINE h == [i \in 0 .. n + 1 |-> IF i <= n THEN g[i] ELSE add_interface(g[n], arguments[n + 1], 0)]
    <2>1. \A i \in 0 .. n : h[i] = g[i]
      OBVIOUS
    <2>2. \A i \in 0 .. n + 1 : h[i] = IF i = 0 THEN done ELSE add_interface(h[i - 1], arguments[i], 0)
      <3> SUFFICES ASSUME NEW i \in 0 .. n + 1
                   PROVE  h[i] = IF i = 0 THEN done ELSE add_interface(h[i - 1], arguments[i], 0)
        OBVIOUS
      <3>1. CASE i \in 0 .. n
        <4>1. g[i] = IF i = 0 THEN done ELSE add_interface(g[i - 1], arguments[i], 0)
          BY <3>1
        <4>2. i # 0 => i - 1 \in 0 .. n
          BY <3>1
        <4> QED
          BY <2>1, <3>1, <4>1, <4>2
      <3>2. CASE i = n + 1
        <4>1. /\ h[n + 1] = add_interface(g[n], arguments[n + 1], 0)
              /\ h[n] = g[n] /\ (n + 1) - 1 = n /\ n + 1 # 0
          OBVIOUS
        <4> QED
          BY <3>2, <4>1
      <3> QED
        BY <3>1, <3>2
    <2> HIDE DEF h
    <2>3. h = [i \in 0 .. n + 1 |-> h[i]]
      BY DEF h
    <2>4. Is(n + 1, h)
      BY <2>2, <2>3
    <2> QED
      BY <2>4
  <1>5. N \in S
    <2> HIDE DEF S
    <2> QED
      BY <1>2, <1>3, <1>4, InductionFact
  <1>6. Is(N, walk)
    <2>1. PICK g : Is(N, g)
      BY <1>5
    <2> HIDE DEF Is
    <2> QED
      BY <1>1, <2>1
  <1> HIDE DEF S
  <1>7. /\ walk[0] = done
        /\ \A n \in Nat : n < N => walk[n + 1] = add_interface(walk[n], arguments[n + 1], 0)
    <2>1. \A i \in 0 .. N : walk[i] = IF i = 0 THEN done ELSE add_interface(walk[i - 1], arguments[i], 0)
      BY <1>6
    <2> HIDE DEF Is
    <2> QED
      BY <1>2, <2>1
  <1> HIDE DEF Is
  <1> QED
    BY <1>7 DEF N, walk

LEMMA FinaliseFact ==
  ASSUME NEW c, ConfOK(c), NEW arguments, Len(arguments) \in Nat
  PROVE  ConfOK(finalise_config(c, arguments))
  <1> DEFINE local == [NewFilter EXCEPT !.proto = RTPROT_BABEL_LOCAL]
             default == IF c.default = 0 THEN 0 ELSE c.heap[c.default].cost
             M == Len(c.listed)
             taking == Taking(c, default)
             taken == taking[M]
             done == [taken EXCEPT !.finalised = TRUE, !.listed = << >>,
                                   !.redistribute = add_filter(local, taken.redistribute)]
             N == Len(arguments)
             arguing == Arguing(done, arguments)
  <1>1. finalise_config(c, arguments) = arguing[N]
    BY Zenon DEF finalise_config, Fold, Take, Taking, Arguing
  <1>2. M \in Nat
    BY ListFact DEF ConfOK, ConfsOK, ListOK
  <1>3. /\ taking[0] = c
        /\ \A n \in Nat : n < M => taking[n + 1] = Take(c, default, taking[n], c.listed[n + 1])
    <2> HIDE DEF default
    <2> QED
      BY <1>2, TakenFact
  <1> HIDE DEF taking, default
  <1>4. ConfOK(taken)
    BY <1>2, <1>3, TakeFact
  <1> HIDE DEF taken, local
  <1>5. ConfOK(done)
    <2>1. ConfsOK(taken.heap, taken.listed, taken.ifs, taken.default) /\ Record(taken)
      BY <1>4 DEF ConfOK
    <2>2. ListOK(taken.heap, << >>, taken.default)
      <3>1. << >> \in Seq({}) /\ Len(<< >>) = 0
        OBVIOUS
      <3> QED
        BY <3>1 DEF ListOK, IsList
    <2>3. ConfsOK(taken.heap, << >>, taken.ifs, taken.default)
      BY <2>1, <2>2 DEF ConfsOK
    <2>4. With(done, taken.heap, << >>, taken.ifs, taken.default)
      BY <2>1, FinalisedFact
    <2> QED
      BY <2>3, <2>4, WithFact
  <1> HIDE DEF done
  <1>6. /\ arguing[0] = done
        /\ \A n \in Nat : n < N => arguing[n + 1] = add_interface(arguing[n], arguments[n + 1], 0)
    BY ArguedFact
  <1> HIDE DEF arguing
  <1>7. ConfOK(arguing[N])
    BY <1>5, <1>6, ArgueFact
  <1> QED
    BY <1>1, <1>7

-----------------------------------------------------------------------------
(* Every line keeps the invariant. *)

LEMMA AnswerFact ==
  ASSUME NEW c, NEW d
  PROVE  /\ Bad(c).c = c /\ Bad(c).action = "bad"
         /\ Done(d).c = d /\ Done(d).action = "ok"
  BY DEF Bad, Done

LEMMA FilterLineFact ==
  ASSUME NEW c, ConfOK(c), NEW l, l.is \in {"in", "out", "redistribute", "install"}
  PROVE  LET r == FilterLine(c, l)
         IN  ConfOK(r.c) /\ r.action \in {"bad", "ok"}
  <1> DEFINE f == parse_filter(l.tokens)
             d == [c EXCEPT !.in = add_filter(f, @)]
             e == [c EXCEPT !.out = add_filter(f, @)]
             g == [c EXCEPT !.redistribute = add_filter(f, @)]
             r == FilterLine(c, l)
  <1>1. r = IF c.finalised \/ ~f.ok THEN Bad(c)
            ELSE CASE l.is = "in" -> Done(d) [] l.is = "out" -> Done(e)
                   [] l.is = "redistribute" -> Done(g) [] l.is = "install" -> Done(c)
    BY Zenon DEF FilterLine
  <1>2. ConfsOK(c.heap, c.listed, c.ifs, c.default) /\ Record(c)
    BY DEF ConfOK
  <1>3. \A x : /\ With([c EXCEPT !.in = x], c.heap, c.listed, c.ifs, c.default)
               /\ With([c EXCEPT !.out = x], c.heap, c.listed, c.ifs, c.default)
               /\ With([c EXCEPT !.redistribute = x], c.heap, c.listed, c.ifs, c.default)
    BY <1>2, FieldFact
  <1>4. /\ With(d, c.heap, c.listed, c.ifs, c.default)
        /\ With(e, c.heap, c.listed, c.ifs, c.default)
        /\ With(g, c.heap, c.listed, c.ifs, c.default)
    BY <1>3
  <1> HIDE DEF d, e, f, g, r
  <1>5. ConfOK(d) /\ ConfOK(e) /\ ConfOK(g)
    BY <1>2, <1>4, WithFact
  <1> QED
    BY <1>1, <1>5, AnswerFact DEF r

LEMMA InterfaceLineFact ==
  ASSUME NEW c, ConfOK(c), NEW l
  PROVE  LET r == InterfaceLine(c, l)
         IN  ConfOK(r.c) /\ r.action \in {"bad", "ok"}
  <1> DEFINE cost == CHOOSE x \in parse_anonymous_ifconf(l) : TRUE
             r == InterfaceLine(c, l)
  <1>1. r = IF parse_anonymous_ifconf(l) = {} THEN Bad(c)
            ELSE IF l.is = "interface" THEN Done(add_ifconf(c, l.name, cost))
            ELSE Done(SetDefault(c, cost))
    BY Zenon DEF InterfaceLine
  <1> HIDE DEF r, cost
  <1>2. ConfOK(add_ifconf(c, l.name, cost)) /\ ConfOK(SetDefault(c, cost))
    BY AddIfconfFact, SetDefaultFact
  <1> QED
    BY <1>1, <1>2, AnswerFact DEF r

LEMMA OptionFact ==
  ASSUME NEW c, ConfOK(c), NEW l
  PROVE  LET r == parse_option(c, l)
         IN  ConfOK(r.c) /\ r.action \in {"bad", "ok"}
  <1> DEFINE d == [c EXCEPT !.options = @ \cup {l.name},
                            !.aborted = @ \/ l.name = "allow-duplicates"]
             e == [c EXCEPT !.server = "read-only"]
             f == [c EXCEPT !.server = "read-write"]
             r == parse_option(c, l)
  <1>1. r = IF (c.finalised /\ l.name \notin RunTimeOptions) \/ ~l.valid THEN Bad(c)
            ELSE IF l.name = "local-port" THEN Done(e)
            ELSE IF l.name = "local-port-readwrite" THEN Done(f)
            ELSE Done(d)
    BY Zenon DEF parse_option
  <1>2. ConfsOK(c.heap, c.listed, c.ifs, c.default) /\ Record(c)
    BY DEF ConfOK
  <1>3. \A x, y : With([c EXCEPT !.options = x, !.aborted = y],
                       c.heap, c.listed, c.ifs, c.default)
    BY <1>2, OptionsFact
  <1>4. With(d, c.heap, c.listed, c.ifs, c.default)
    BY <1>3
  <1>5. With(e, c.heap, c.listed, c.ifs, c.default)
        /\ With(f, c.heap, c.listed, c.ifs, c.default)
    BY <1>2, FieldFact
  <1> HIDE DEF d, e, f, r
  <1>6. ConfOK(d) /\ ConfOK(e) /\ ConfOK(f)
    BY <1>2, <1>4, <1>5, WithFact
  <1> QED
    BY <1>1, <1>6, AnswerFact DEF r

LEMMA ParseFact ==
  ASSUME NEW c, ConfOK(c), NEW l, l.is \in LineKinds
  PROVE  LET r == parse_config_line(c, l)
         IN  ConfOK(r.c) /\ (r.action \in Requests => r.c = c)
  <1> DEFINE r == parse_config_line(c, l)
  <1>1. CASE l.is \in Requests
    <2>1. r = IF c.finalised THEN [c |-> c, action |-> l.is] ELSE Bad(c)
      BY <1>1 DEF parse_config_line
    <2> HIDE DEF r
    <2> QED
      BY <2>1, AnswerFact DEF r
  <1>2. CASE l.is \notin Requests /\ c.finalised /\ c.server # "read-write"
    <2>1. r = Bad(c)
      BY <1>2 DEF parse_config_line
    <2> HIDE DEF r
    <2> QED
      BY <2>1, AnswerFact DEF r, Requests
  <1>3. CASE l.is \notin Requests /\ ~(c.finalised /\ c.server # "read-write")
    <2>1. r = CASE l.is \in {"in", "out", "redistribute", "install"} -> FilterLine(c, l)
                [] l.is \in {"interface", "default"} -> InterfaceLine(c, l)
                [] l.is = "flush" ->
                     IF l.name \in Names(c) THEN Done(flush_interface(c, l.name))
                     ELSE [c |-> c, action |-> "no"]
                [] l.is = "option" -> parse_option(c, l)
      BY <1>3 DEF parse_config_line
    <2> HIDE DEF r
    <2>2. CASE l.is \in {"in", "out", "redistribute", "install"}
      <3>1. r = FilterLine(c, l)
        BY <2>1, <2>2
      <3> QED
        BY <2>2, <3>1, FilterLineFact DEF r, Requests
    <2>3. CASE l.is \in {"interface", "default"}
      <3>1. r = InterfaceLine(c, l)
        BY <2>1, <2>3
      <3> QED
        BY <3>1, InterfaceLineFact DEF r, Requests
    <2>4. CASE l.is = "flush"
      <3>1. r = IF l.name \in Names(c) THEN Done(flush_interface(c, l.name))
                ELSE [c |-> c, action |-> "no"]
        BY <2>1, <2>4
      <3>2. l.name \in Names(c) => ConfOK(flush_interface(c, l.name))
        BY FlushInterfaceFact
      <3> QED
        BY <3>1, <3>2, AnswerFact DEF r, Requests
    <2>5. CASE l.is = "option"
      <3>1. r = parse_option(c, l)
        BY <2>1, <2>5
      <3> QED
        BY <3>1, OptionFact DEF r, Requests
    <2> QED
      BY <1>3, <2>2, <2>3, <2>4, <2>5 DEF LineKinds
  <1> QED
    BY <1>1, <1>2, <1>3

\* The configuration that there is before any line.
LEMMA UnconfiguredFact ==
  ASSUME NEW server
  PROVE  ConfOK([Unconfigured EXCEPT !.server = server])
  <1> DEFINE u == Unconfigured
  <1>1. Record(u) /\ u.heap = << >> /\ u.listed = << >> /\ u.ifs = << >> /\ u.default = 0
    BY DEF Unconfigured, Record
  <1>2. IsList(<< >>) /\ Len(<< >>) = 0
    BY DEF IsList
  <1>3. ConfsOK(<< >>, << >>, << >>, 0)
    BY <1>2 DEF ConfsOK, HeapOK, ListOK, IfsOK
  <1> HIDE DEF u
  <1>4. With([u EXCEPT !.server = server], u.heap, u.listed, u.ifs, u.default)
    BY <1>1, FieldFact
  <1> QED
    BY <1>1, <1>3, <1>4, WithFact DEF u

-----------------------------------------------------------------------------
(* The inductive invariant of Control. *)

Bytes == Lines \cup {PART}
Slots == [client : Clients, buf : Seq(Bytes), monitor : BOOLEAN]
Peers == {"new", "connected", "gone", "open", "closed"}
Accepted == {"open", "closed"}

TypeOK ==
  /\ sockets \in Seq(Slots) /\ peer \in [Clients -> Peers]
  /\ sent \in [Clients -> Seq(Bytes)] /\ asked \in [Clients -> Int]
  /\ spin \in Clients \cup {NoClient}
  /\ lockstep \subseteq Clients /\ subscribed \subseteq Clients /\ DOMAIN view = Clients

\* A client has one slot, once it was accepted; before, it sent nothing; and there
\* are no clients before the daemon serves.
OneSlot ==
  /\ \A i \in 1 .. Len(sockets) : peer[sockets[i].client] \in Accepted
  /\ \A i, j \in 1 .. Len(sockets) : sockets[i].client = sockets[j].client => i = j

Early ==
  /\ phase # "run" => \A c \in Clients : peer[c] = "new"
  /\ \A c \in Clients : peer[c] \notin Accepted =>
                          asked[c] = 0 /\ sent[c] = << >> /\ c \notin subscribed

\* The daemon can still talk to the client.
Served(c) == peer[c] = "open" /\ c \notin shut

\* A client that monitors has a slot that says so, and knows the interfaces.
Monitored(c) == \E i \in 1 .. Len(sockets) : sockets[i].client = c /\ sockets[i].monitor

Monitors == \A c \in subscribed : Served(c) => view[c] = Names(conf) /\ Monitored(c)

\* No line, or one line and nothing after it.
NoLine(s) == \A k \in 1 .. Len(s) : s[k] = PART
OneLine(s) == Len(s) > 0 /\ \A k \in 1 .. Len(s) : s[k] = PART <=> k < Len(s)

Unread(c) == \A i \in 1 .. Len(sockets) : sockets[i].client = c => NoLine(sockets[i].buf)

\* The request that a client waits for is the last thing in its socket, or the daemon
\* spins on the client; otherwise there is no request.
Waits(c) ==
  \/ asked[c] = 0 /\ spin # c /\ NoLine(sent[c]) /\ Unread(c)
  \/ asked[c] = 1 /\ spin # c /\ OneLine(sent[c]) /\ Unread(c)
  \/ asked[c] = 1 /\ spin = c /\ sent[c] = << >>

Waiting == \A c \in lockstep : Served(c) => Waits(c)

Inv == /\ TypeOK /\ ConfOK(conf) /\ OneSlot /\ Early /\ Monitors /\ Waiting

-----------------------------------------------------------------------------
(* Slots. *)

\* Of the slots s, those of clients other than c are those of t, at other places.
Others(s, t, c) ==
  /\ t \in Seq(Slots)
  /\ \A j \in 1 .. Len(t) : t[j].client # c => \E k \in 1 .. Len(s) : t[j] = s[k]
  /\ \A k \in 1 .. Len(s) : s[k].client # c => \E j \in 1 .. Len(t) : t[j] = s[k]
  /\ \A j \in 1 .. Len(t) : \E k \in 1 .. Len(s) : t[j].client = s[k].client
  /\ \A j, k \in 1 .. Len(t) : t[j].client = t[k].client => j = k

OneEach(s) == \A j, k \in 1 .. Len(s) : s[j].client = s[k].client => j = k

LEMMA DestroyFact ==
  ASSUME NEW s \in Seq(Slots), NEW i \in 1 .. Len(s), OneEach(s)
  PROVE  LET t == local_socket_destroy(s, i)
         IN  Others(s, t, s[i].client) /\ \A j \in 1 .. Len(t) : t[j].client # s[i].client
  <1> DEFINE n == Len(s)
             e == [s EXCEPT ![i] = s[Len(s)]]
             t == local_socket_destroy(s, i)
  <1>1. n \in Nat /\ n > 0 /\ n - 1 \in Nat /\ n \in 1 .. n
    OBVIOUS
  <1>2. e \in Seq(Slots) /\ Len(e) = n /\ e[i] = s[n]
        /\ \A j \in 1 .. n : j # i => e[j] = s[j]
    BY <1>1
  <1>3. t = SubSeq(e, 1, n - 1)
    BY DEF local_socket_destroy
  <1> HIDE DEF e, t
  <1>4. t \in Seq(Slots) /\ Len(t) = n - 1 /\ \A j \in 1 .. n - 1 : t[j] = e[j]
    BY <1>1, <1>2, <1>3
  <1>5. \A j \in 1 .. Len(t) : j \in 1 .. n /\ t[j] = IF j = i THEN s[n] ELSE s[j]
    BY <1>1, <1>2, <1>4
  <1>6. ASSUME NEW j \in 1 .. Len(t)
        PROVE  \E k \in 1 .. n : k # i /\ t[j] = s[k]
    <2>1. CASE j = i
      <3>1. n # i
        BY <1>1, <1>4, <2>1
      <3> QED
        BY <1>1, <1>5, <2>1, <3>1
    <2>2. CASE j # i
      BY <1>5, <2>2
    <2> QED
      BY <2>1, <2>2
  <1>7. ASSUME NEW k \in 1 .. n, k # i
        PROVE  \E j \in 1 .. Len(t) : t[j] = s[k]
    <2>1. CASE k = n
      <3>1. i \in 1 .. Len(t)
        BY <1>1, <1>4, <1>7, <2>1
      <3> QED
        BY <1>5, <2>1, <3>1
    <2>2. CASE k # n
      <3>1. k \in 1 .. Len(t)
        BY <1>1, <1>4, <2>2
      <3> QED
        BY <1>5, <1>7, <3>1
    <2> QED
      BY <2>1, <2>2
  <1>8. \A j \in 1 .. Len(t) : t[j].client # s[i].client
    BY <1>6 DEF OneEach
  <1>9. \A j, k \in 1 .. Len(t) : t[j].client = t[k].client => j = k
    BY <1>1, <1>4, <1>5 DEF OneEach
  <1> QED
    BY <1>4, <1>6, <1>7, <1>8, <1>9 DEF Others, n, t

LEMMA NowFact ==
  ASSUME NEW s \in Seq(Slots), NEW i \in 1 .. Len(s), OneEach(s),
         NEW e \in Slots, e.client = s[i].client
  PROVE  LET t == [s EXCEPT ![i] = e]
         IN  /\ Others(s, t, s[i].client) /\ Len(t) = Len(s) /\ t[i] = e
             /\ \A j \in 1 .. Len(t) : t[j].client = s[i].client => j = i
  <1> DEFINE n == Len(s)
             t == [s EXCEPT ![i] = e]
  <1>1. n \in Nat
    OBVIOUS
  <1>2. t \in Seq(Slots) /\ Len(t) = n /\ t[i] = e
        /\ \A j \in 1 .. n : j # i => t[j] = s[j]
    BY <1>1
  <1> HIDE DEF t
  <1>3. \A j \in 1 .. n : t[j].client = s[j].client
    BY <1>2
  <1>4. \A j, k \in 1 .. Len(t) : t[j].client = t[k].client => j = k
    BY <1>2, <1>3 DEF OneEach
  <1>5. \A j \in 1 .. Len(t) : t[j].client # s[i].client => \E k \in 1 .. Len(s) : t[j] = s[k]
    BY <1>2, <1>3
  <1>6. \A k \in 1 .. Len(s) : s[k].client # s[i].client => \E j \in 1 .. Len(t) : t[j] = s[k]
    BY <1>2, <1>3
  <1> QED
    BY <1>2, <1>3, <1>4, <1>5, <1>6 DEF Others, t

-----------------------------------------------------------------------------
(* What a client sent, and the buffer. *)

LEMMA PushFact ==
  ASSUME NEW b \in Seq(Bytes), NEW q \in Seq(Bytes), NEW n \in 1 .. Len(q)
  PROVE  LET buf == b \o SubSeq(q, 1, n)
             left == SubSeq(q, n + 1, Len(q))
         IN  /\ buf \in Seq(Bytes) /\ left \in Seq(Bytes)
             /\ NoLine(b) /\ NoLine(q) => NoLine(buf) /\ NoLine(left)
             /\ NoLine(b) /\ OneLine(q) => \/ NoLine(buf) /\ OneLine(left)
                                           \/ OneLine(buf) /\ left = << >>
  <1> DEFINE N == Len(q)
             B == Len(b)
             head == SubSeq(q, 1, n)
             buf == b \o head
             left == SubSeq(q, n + 1, N)
  <1>1. N \in Nat /\ B \in Nat /\ n \in Nat /\ n >= 1 /\ n <= N
    OBVIOUS
  <1>2. head \in Seq(Bytes) /\ Len(head) = n /\ \A k \in 1 .. n : head[k] = q[k]
    BY <1>1
  <1>3. left \in Seq(Bytes) /\ Len(left) = N - n /\ \A k \in 1 .. N - n : left[k] = q[n + k]
    BY <1>1
  <1> HIDE DEF head, left
  <1>4. /\ buf \in Seq(Bytes) /\ Len(buf) = B + n
        /\ \A k \in 1 .. B + n : buf[k] = IF k <= B THEN b[k] ELSE head[k - B]
    BY <1>1, <1>2
  <1> HIDE DEF buf
  <1>5. \A k \in 1 .. B + n : /\ k <= B => k \in 1 .. B
                              /\ k > B => k - B \in 1 .. n /\ k - B \in 1 .. N
    BY <1>1
  <1>6. \A k \in 1 .. B + n : buf[k] = IF k <= B THEN b[k] ELSE q[k - B]
    BY <1>2, <1>4, <1>5
  <1>7. \A k \in 1 .. N - n : n + k \in 1 .. N
    BY <1>1
  <1> HIDE DEF N, B
  <1>8. ASSUME NoLine(b), NoLine(q)
        PROVE  NoLine(buf) /\ NoLine(left)
    <2>1. \A k \in 1 .. B + n : buf[k] = PART
      <3>1. (\A k \in 1 .. B : b[k] = PART) /\ \A k \in 1 .. N : q[k] = PART
        BY <1>8 DEF NoLine, N, B
      <3> SUFFICES ASSUME NEW k \in 1 .. B + n
                   PROVE  buf[k] = PART
        OBVIOUS
      <3>2. CASE k <= B
        BY <1>5, <1>6, <3>1, <3>2
      <3>3. CASE ~(k <= B)
        <4>1. k - B \in 1 .. N
          BY <1>1, <1>5, <3>3
        <4> QED
          BY <1>6, <3>1, <3>3, <4>1
      <3> QED
        BY <3>2, <3>3
    <2>2. \A k \in 1 .. N - n : left[k] = PART
      BY <1>3, <1>7, <1>8 DEF NoLine, N
    <2> QED
      BY <1>3, <1>4, <2>1, <2>2 DEF NoLine
  <1>9. ASSUME NoLine(b), OneLine(q)
        PROVE  \/ NoLine(buf) /\ OneLine(left)
               \/ OneLine(buf) /\ left = << >>
    <2>1. \A k \in 1 .. N : q[k] = PART <=> k < N
      BY <1>9 DEF OneLine, N
    <2>2. \A k \in 1 .. B : b[k] = PART
      BY <1>9 DEF NoLine, B
    <2>3. CASE n < N
      <3>1. \A k \in 1 .. B + n : buf[k] = PART
        <4> SUFFICES ASSUME NEW k \in 1 .. B + n
                     PROVE  buf[k] = PART
          OBVIOUS
        <4>1. CASE k <= B
          BY <1>5, <1>6, <2>2, <4>1
        <4>2. CASE ~(k <= B)
          <5>1. k - B \in 1 .. N /\ k - B < N
            BY <1>1, <1>5, <2>3, <4>2
          <5> QED
            BY <1>6, <2>1, <4>2, <5>1
        <4> QED
          BY <4>1, <4>2
      <3>2. \A k \in 1 .. N - n : left[k] = PART <=> k < N - n
        <4> SUFFICES ASSUME NEW k \in 1 .. N - n
                     PROVE  left[k] = PART <=> k < N - n
          OBVIOUS
        <4>1. left[k] = q[n + k] /\ n + k \in 1 .. N
          BY <1>3, <1>7
        <4>2. q[n + k] = PART <=> n + k < N
          BY <2>1, <4>1
        <4>3. n + k < N <=> k < N - n
          BY <1>1
        <4> QED
          BY <4>1, <4>2, <4>3
      <3> QED
        BY <1>1, <1>3, <1>4, <2>3, <3>1, <3>2 DEF NoLine, OneLine
    <2>4. CASE n = N
      <3>1. \A k \in 1 .. B + n : buf[k] = PART <=> k < B + n
        BY <1>1, <1>5, <1>6, <2>1, <2>2, <2>4
      <3>2. left = << >>
        BY <1>1, <1>3, <2>4
      <3> QED
        BY <1>1, <1>4, <3>1, <3>2 DEF OneLine
    <2> QED
      BY <1>1, <2>3, <2>4
  <1> QED
    BY <1>3, <1>4, <1>8, <1>9 DEF buf, head, left, N

LEMMA EolFact ==
  ASSUME NEW buf \in Seq(Bytes)
  PROVE  LET eol == Eol(buf)
         IN  /\ eol = 0 <=> NoLine(buf)
             /\ eol # 0 => eol \in 1 .. Len(buf) /\ buf[eol] \in Lines
             /\ OneLine(buf) => eol = Len(buf)
  <1> DEFINE ends == {i \in DOMAIN buf : buf[i] # PART}
             eol == Eol(buf)
  <1>1. eol = IF ends = {} THEN 0 ELSE CHOOSE i \in ends : \A j \in ends : i <= j
    BY Zenon DEF Eol
  <1>2. DOMAIN buf = 1 .. Len(buf) /\ Len(buf) \in Nat
    OBVIOUS
  <1>3. CASE ends = {}
    <2>1. eol = 0
      BY <1>1, <1>3
    <2>2. \A i \in 1 .. Len(buf) : buf[i] = PART
      BY <1>2, <1>3
    <2> HIDE DEF eol
    <2> QED
      BY <1>2, <2>1, <2>2 DEF NoLine, OneLine, eol
  <1>4. CASE ends # {}
    <2>1. \E i \in ends : \A j \in ends : i <= j
      <3>1. ends \in SUBSET Nat
        BY <1>2
      <3> HIDE DEF ends
      <3> QED
        BY <1>4, <3>1, SmallestFact
    <2>2. eol \in ends /\ \A j \in ends : eol <= j
      <3> HIDE DEF ends, eol
      <3> QED
        BY <1>1, <1>4, <2>1
    <2> HIDE DEF eol
    <2>3. eol \in 1 .. Len(buf) /\ buf[eol] # PART
      BY <1>2, <2>2
    <2>4. ~NoLine(buf) /\ eol # 0 /\ buf[eol] \in Lines
      BY <1>2, <2>3 DEF NoLine, Bytes
    <2>5. OneLine(buf) => eol = Len(buf)
      <3> SUFFICES ASSUME OneLine(buf)
                   PROVE  eol = Len(buf)
        OBVIOUS
      <3>1. ~(eol < Len(buf))
        BY <2>3 DEF OneLine
      <3> DEFINE n == Len(buf)
      <3>2. n \in Nat /\ eol \in 1 .. n /\ ~(eol < n)
        BY <1>2, <2>3, <3>1
      <3> HIDE DEF n
      <3>3. eol = n
        BY <3>2
      <3> QED
        BY <3>3 DEF n
    <2> QED
      BY <2>3, <2>4, <2>5 DEF eol
  <1> QED
    BY <1>3, <1>4

LEMMA RestFact ==
  ASSUME NEW buf \in Seq(Bytes), NEW eol \in 0 .. Len(buf)
  PROVE  LET rest == SubSeq(buf, eol + 1, Len(buf))
         IN  rest \in Seq(Bytes) /\ (eol = Len(buf) => rest = << >>)
  <1> DEFINE rest == SubSeq(buf, eol + 1, Len(buf))
  <1>1. rest \in Seq(Bytes) /\ Len(rest) = Len(buf) - eol
    OBVIOUS
  <1> HIDE DEF rest
  <1>2. eol = Len(buf) => rest = << >>
    BY <1>1
  <1> QED
    BY <1>1, <1>2 DEF rest

\* Once it was sent, a line is the last of a socket that held none.
LEMMA SendFact ==
  ASSUME NEW q \in Seq(Bytes), NEW l \in Bytes
  PROVE  LET s == Append(q, l)
         IN  /\ s \in Seq(Bytes)
             /\ NoLine(q) /\ l = PART => NoLine(s)
             /\ NoLine(q) /\ l # PART => OneLine(s)
  <1> DEFINE s == Append(q, l)
  <1>1. /\ s \in Seq(Bytes) /\ Len(s) = Len(q) + 1 /\ Len(q) \in Nat
        /\ \A k \in 1 .. Len(s) : s[k] = IF k <= Len(q) THEN q[k] ELSE l
    OBVIOUS
  <1> HIDE DEF s
  <1>2. ASSUME NoLine(q)
        PROVE  /\ l = PART => NoLine(s)
               /\ l # PART => OneLine(s)
    <2>1. \A k \in 1 .. Len(s) : k <= Len(q) => s[k] = PART
      BY <1>1, <1>2 DEF NoLine
    <2>2. \A k \in 1 .. Len(s) : k > Len(q) => s[k] = l
      BY <1>1
    <2> QED
      BY <1>1, <2>1, <2>2 DEF NoLine, OneLine
  <1> QED
    BY <1>1, <1>2 DEF s

-----------------------------------------------------------------------------
(* Notices. *)

\* A client that was told of every change, and is not shut down, knows the
\* interfaces.
LEMMA ToldFact ==
  ASSUME NEW to, NEW known, Told(to, known)
  PROVE  /\ shut \subseteq shut'
         /\ \A k \in Clients : k \in to /\ k \notin shut' => k \notin full /\ view'[k] = known[k]
         /\ \A k \in Clients : k \notin to => view'[k] = view[k]
         /\ DOMAIN view' = Clients
  <1>1. /\ shut \subseteq shut' /\ (to \cap full) \subseteq shut'
    BY DEF Told
  <1>2. view' = [c \in Clients |-> IF c \in to \ (full \cup shut) THEN known[c] ELSE view[c]]
    BY DEF Told
  <1> QED
    BY <1>1, <1>2

\* What a line makes of the views: the client c sent it.
Noticed(c, r) ==
  CASE r.action \in {"dump", "monitor"} -> local_notify_all_1(c)
    [] r.action = "quit" -> shut' = shut \cup {c} /\ UNCHANGED view
    [] Names(r.c) # Names(conf) -> local_notify_interface(r.c)
    [] OTHER -> UNCHANGED <<shut, view>>

LEMMA NoticedFact ==
  ASSUME TypeOK, ConfOK(conf), NEW c \in Clients, NEW r, Noticed(c, r),
         r.action \in Requests => r.c = conf, conf' = r.c
  PROVE  /\ shut \subseteq shut' /\ DOMAIN view' = Clients
         /\ \A k \in Clients : k \notin shut' /\ Monitored(k) /\ view[k] = Names(conf)
                                 => view'[k] = Names(conf')
         /\ r.action \in {"dump", "monitor"} /\ c \notin shut' => view'[c] = Names(conf')
         /\ r.action = "quit" => c \in shut'
  <1>1. DOMAIN view = Clients
    BY DEF TypeOK
  <1>2. CASE r.action \in {"dump", "monitor"}
    <2>1. local_notify_all_1(c) /\ conf' = conf /\ r.action # "quit"
      BY <1>2 DEF Noticed, Requests
    <2>2. CASE conf.ifs = << >>
      <3>1. view' = [view EXCEPT ![c] = {}] /\ shut' = shut
        BY <2>1, <2>2 DEF local_notify_all_1
      <3>2. Names(conf) = {}
        <4>1. DOMAIN conf.ifs = {}
          BY <2>2
        <4> QED
          BY <4>1 DEF Names
      <3>3. DOMAIN view' = Clients /\ view'[c] = {} /\ \A k \in Clients : k # c => view'[k] = view[k]
        BY <1>1, <3>1
      <3> QED
        BY <2>1, <3>1, <3>2, <3>3
    <2>3. CASE conf.ifs # << >>
      <3> DEFINE known == [view EXCEPT ![c] = Names(conf)]
      <3>1. known[c] = Names(conf)
        BY <1>1
      <3>2. Told({c}, known)
        BY <2>1, <2>3 DEF local_notify_all_1
      <3> HIDE DEF known
      <3>3. /\ shut \subseteq shut' /\ DOMAIN view' = Clients
            /\ c \notin shut' => view'[c] = Names(conf)
            /\ \A k \in Clients : k # c => view'[k] = view[k]
        BY <3>1, <3>2, ToldFact
      <3> QED
        BY <2>1, <3>3
    <2> QED
      BY <2>2, <2>3
  <1>3. CASE r.action = "quit"
    <2>0. r.action \notin {"dump", "monitor"} /\ Names(r.c) = Names(conf)
      BY <1>3 DEF Requests
    <2>1. shut' = shut \cup {c} /\ view' = view
      BY <1>3, <2>0 DEF Noticed
    <2>2. conf' = conf
      BY <1>3 DEF Requests
    <2> QED
      BY <1>1, <1>3, <2>1, <2>2
  <1>4. CASE r.action \notin {"dump", "monitor", "quit"} /\ Names(r.c) # Names(conf)
    <2> DEFINE to == {sockets[i].client : i \in {i \in DOMAIN sockets : sockets[i].monitor}}
               known == [k \in Clients |-> (view[k] \cup Names(r.c)) \ (Names(conf) \ Names(r.c))]
    <2>1. Told(to, known)
      BY <1>4 DEF Noticed, local_notify_interface
    <2>2. \A k \in Clients : Monitored(k) => k \in to
      BY DEF Monitored, TypeOK
    <2>3. \A k \in Clients : view[k] = Names(conf) => known[k] = Names(r.c)
      OBVIOUS
    <2> HIDE DEF to, known
    <2>4. /\ shut \subseteq shut' /\ DOMAIN view' = Clients
          /\ \A k \in Clients : k \in to /\ k \notin shut' => view'[k] = known[k]
      BY <2>1, ToldFact
    <2> QED
      BY <1>4, <2>2, <2>3, <2>4
  <1>5. CASE r.action \notin {"dump", "monitor", "quit"} /\ Names(r.c) = Names(conf)
    <2>1. UNCHANGED <<shut, view>>
      BY <1>5 DEF Noticed
    <2> QED
      BY <1>1, <1>5, <2>1
  <1> QED
    BY <1>2, <1>3, <1>4, <1>5

-----------------------------------------------------------------------------
(* One turn of the loop over the sockets. *)

LEMMA SlotFact ==
  ASSUME TypeOK, NEW i \in 1 .. Len(sockets)
  PROVE  /\ sockets[i] \in Slots /\ sockets[i].client \in Clients
         /\ sockets[i].buf \in Seq(Bytes) /\ sockets[i].monitor \in BOOLEAN
  <1>1. sockets[i] \in Slots
    BY DEF TypeOK
  <1> QED
    BY <1>1 DEF Slots

\* What a turn for the client c leaves as it was.
Elsewhere(c) ==
  /\ Others(sockets, sockets', c) /\ Same
  /\ sent' \in [Clients -> Seq(Bytes)] /\ asked' \in [Clients -> Int]
  /\ \A k \in Clients : k # c => asked'[k] = asked[k] /\ sent'[k] = sent[k]
  /\ spin \in {NoClient, c} /\ spin' \in {NoClient, c}
  /\ subscribed' \subseteq subscribed \cup {c}

Informs ==
  /\ shut \subseteq shut' /\ DOMAIN view' = Clients
  /\ \A k \in Clients : k \notin shut' /\ Monitored(k) /\ view[k] = Names(conf)
                          => view'[k] = Names(conf')

LEMMA ServeFact ==
  ASSUME Inv, NEW c \in Clients, peer[c] \in Accepted, Elsewhere(c), Informs, ConfOK(conf'),
         c \in subscribed' /\ Served(c)' => view'[c] = Names(conf') /\ Monitored(c)',
         c \in lockstep /\ Served(c)' => Waits(c)'
  PROVE  Inv'
  <1>1. /\ peer' = peer /\ phase' = phase /\ lockstep' = lockstep
        /\ TypeOK /\ OneSlot /\ Early /\ Monitors /\ Waiting
    BY DEF Elsewhere, Same, Inv
  <1>2. TypeOK'
    <2>1. sockets' \in Seq(Slots)
      BY DEF Elsewhere, Others
    <2> QED
      BY <1>1, <2>1 DEF TypeOK, Elsewhere, Informs
  <1>3. OneSlot'
    <2>1. \A j \in 1 .. Len(sockets') : \E k \in 1 .. Len(sockets) : sockets'[j].client = sockets[k].client
      BY DEF Elsewhere, Others
    <2>2. \A j, k \in 1 .. Len(sockets') : sockets'[j].client = sockets'[k].client => j = k
      BY DEF Elsewhere, Others
    <2>3. \A k \in 1 .. Len(sockets) : peer[sockets[k].client] \in Accepted
      BY <1>1 DEF OneSlot
    <2>4. \A j \in 1 .. Len(sockets') : peer'[sockets'[j].client] \in Accepted
      BY <1>1, <2>1, <2>3
    <2> QED
      BY <2>2, <2>4 DEF OneSlot
  <1>4. Early'
    BY <1>1 DEF Early, Elsewhere
  <1>5. \A k \in Clients : Served(k)' => Served(k) /\ k \notin shut'
    BY <1>1 DEF Served, Informs
  <1>6. Monitors'
    <2> SUFFICES ASSUME NEW k \in subscribed', Served(k)'
                 PROVE  view'[k] = Names(conf') /\ Monitored(k)'
      BY DEF Monitors
    <2>1. k \in Clients
      BY <1>2 DEF TypeOK
    <2>2. CASE k = c
      BY <2>2
    <2>3. CASE k # c
      <3>1. k \in subscribed
        BY <2>3 DEF Elsewhere
      <3>2. view[k] = Names(conf) /\ Monitored(k) /\ k \notin shut'
        BY <1>1, <1>5, <2>1, <3>1 DEF Monitors
      <3>3. view'[k] = Names(conf')
        BY <2>1, <3>2 DEF Informs
      <3>4. Monitored(k)'
        <4>1. PICK a \in 1 .. Len(sockets) : sockets[a].client = k /\ sockets[a].monitor
          BY <3>2 DEF Monitored
        <4>2. PICK b \in 1 .. Len(sockets') : sockets'[b] = sockets[a]
          BY <2>3, <4>1 DEF Elsewhere, Others
        <4> QED
          BY <4>1, <4>2 DEF Monitored
      <3> QED
        BY <3>3, <3>4
    <2> QED
      BY <2>2, <2>3
  <1>7. Waiting'
    <2> SUFFICES ASSUME NEW k \in lockstep', Served(k)'
                 PROVE  Waits(k)'
      BY DEF Waiting
    <2>1. k \in Clients /\ k \in lockstep
      BY <1>1, <1>2 DEF TypeOK
    <2>2. CASE k = c
      BY <2>1, <2>2
    <2>3. CASE k # c
      <3>1. Waits(k)
        BY <1>1, <1>5, <2>1 DEF Waiting
      <3>2. Unread(k) => Unread(k)'
        <4> SUFFICES ASSUME Unread(k), NEW j \in 1 .. Len(sockets'), sockets'[j].client = k
                     PROVE  NoLine(sockets'[j].buf)
          BY DEF Unread
        <4>1. PICK a \in 1 .. Len(sockets) : sockets'[j] = sockets[a]
          BY <2>3 DEF Elsewhere, Others
        <4> QED
          BY <4>1 DEF Unread
      <3>3. asked'[k] = asked[k] /\ sent'[k] = sent[k]
        BY <2>1, <2>3 DEF Elsewhere
      <3>4. spin # k /\ spin' # k
        BY <2>1, <2>3, SocketsAssumption DEF Elsewhere
      <3> QED
        BY <3>1, <3>2, <3>3, <3>4 DEF Waits
    <2> QED
      BY <2>2, <2>3
  <1> QED
    BY <1>2, <1>3, <1>4, <1>6, <1>7 DEF Inv

LEMMA LeftFact ==
  ASSUME Inv, NEW i \in 1 .. Len(sockets), ReadEnd(i) \/ ReadTooLong(i),
         NEW c, c = sockets[i].client, spin \in {NoClient, c}
  PROVE  Inv'
  <1>1. TypeOK /\ OneSlot /\ c \in Clients /\ sockets \in Seq(Slots) /\ peer[c] \in Accepted
    BY SlotFact DEF Inv, OneSlot, TypeOK
  <1>2. /\ sockets' = local_socket_destroy(sockets, i) /\ spin' = NoClient /\ Same
        /\ conf' = conf /\ sent' = sent /\ asked' = asked /\ subscribed' = subscribed
        /\ view' = view /\ (shut' = shut \/ shut' = shut \cup {c})
        /\ peer[c] = "closed" \/ c \in shut'
    BY DEF ReadEnd, ReadTooLong
  <1>3. Others(sockets, sockets', c)
    <2>1. OneEach(sockets)
      BY <1>1 DEF OneSlot, OneEach
    <2> QED
      BY <1>1, <1>2, <2>1, DestroyFact
  <1>4. Elsewhere(c)
    BY <1>1, <1>2, <1>3 DEF Elsewhere, TypeOK
  <1>5. Informs
    <2>1. DOMAIN view' = Clients /\ shut \subseteq shut' /\ view' = view /\ Names(conf') = Names(conf)
      BY <1>1, <1>2 DEF TypeOK
    <2> QED
      BY <2>1 DEF Informs
  <1>6. ~Served(c)'
    BY <1>2 DEF Served, Same
  <1>7. ConfOK(conf')
    BY <1>2 DEF Inv
  <1> QED
    BY <1>1, <1>4, <1>5, <1>6, <1>7, ServeFact

\* A line is taken, and its reply written if it can be.
LEMMA LineFact ==
  ASSUME Inv, NEW i \in 1 .. Len(sockets), ReadLine(i),
         NEW c, c = sockets[i].client, spin \in {NoClient, c}
  PROVE  Inv'
  <1> DEFINE s == sockets[i]
             room == LOCAL_BUFSIZE - Len(s.buf)
             n == Smaller(Len(sent[c]), room)
             buf == s.buf \o SubSeq(sent[c], 1, n)
             eol == Eol(buf)
             r == parse_config_line(conf, buf[eol])
             monitor == CASE r.action = "monitor" -> TRUE
                          [] r.action = "unmonitor" -> FALSE
                          [] OTHER -> s.monitor
             rest == SubSeq(buf, eol + 1, Len(buf))
             left == SubSeq(sent[c], n + 1, Len(sent[c]))
             now(b, m) == [sockets EXCEPT ![i] = [client |-> c, buf |-> b, monitor |-> m]]
  <1>1. /\ TypeOK /\ OneSlot /\ Monitors /\ Waiting /\ ConfOK(conf) /\ c \in Clients
        /\ sockets \in Seq(Slots) /\ s \in Slots /\ s.client = c /\ peer[c] \in Accepted
    BY SlotFact DEF Inv, OneSlot, TypeOK
  <1>2. /\ n > 0 /\ sent' = [sent EXCEPT ![c] = left] /\ Same
        /\ \/ /\ eol = 0 /\ sockets' = now(buf, s.monitor) /\ spin' = NoClient
              /\ UNCHANGED <<conf, shut, asked, subscribed, view>>
           \/ /\ eol # 0 /\ conf' = r.c /\ Noticed(c, r)
              /\ \E w \in IF Reply(r.action) THEN write_timeout(c, shut') ELSE {"ok"} :
                   /\ sockets' = CASE w = "ok" -> now(rest, monitor)
                                   [] w = "EAGAIN" -> now(buf, monitor)
                                   [] w = "EPIPE" -> local_socket_destroy(sockets, i)
                   /\ spin' = IF w = "EAGAIN" THEN c ELSE NoClient
                   /\ asked' = IF w = "ok" /\ Reply(r.action)
                               THEN [asked EXCEPT ![c] = asked[c] - 1] ELSE asked
                   /\ subscribed' = CASE w = "ok" /\ r.action = "monitor" -> subscribed \cup {c}
                                      [] r.action = "unmonitor" -> subscribed \ {c}
                                      [] OTHER -> subscribed
    BY DEF ReadLine, Noticed
  <1>3. /\ Len(sent[c]) \in Nat /\ n \in 1 .. Len(sent[c]) /\ sent[c] \in Seq(Bytes)
        /\ s.buf \in Seq(Bytes) /\ s.monitor \in BOOLEAN
    <2>1. sent[c] \in Seq(Bytes) /\ s.buf \in Seq(Bytes) /\ s.monitor \in BOOLEAN
      BY <1>1, SlotFact DEF TypeOK
    <2>2. Len(sent[c]) \in Nat /\ room \in Int
      BY <2>1, SocketsAssumption
    <2>3. n \in Int /\ n <= Len(sent[c])
      BY <2>2 DEF Smaller
    <2>4. n > 0
      BY <1>2
    <2> HIDE DEF n, room
    <2> QED
      BY <2>1, <2>2, <2>3, <2>4
  <1> HIDE DEF n
  <1>4. /\ buf \in Seq(Bytes) /\ left \in Seq(Bytes)
        /\ NoLine(s.buf) /\ NoLine(sent[c]) => NoLine(buf) /\ NoLine(left)
        /\ NoLine(s.buf) /\ OneLine(sent[c]) => \/ NoLine(buf) /\ OneLine(left)
                                                \/ OneLine(buf) /\ left = << >>
    BY <1>3, PushFact
  <1>5. ASSUME NEW b \in Seq(Bytes), NEW m \in BOOLEAN
        PROVE  /\ Others(sockets, now(b, m), c) /\ Len(now(b, m)) = Len(sockets)
               /\ now(b, m)[i].client = c /\ now(b, m)[i].buf = b /\ now(b, m)[i].monitor = m
               /\ \A j \in 1 .. Len(now(b, m)) : now(b, m)[j].client = c => j = i
    <2> DEFINE e == [client |-> c, buf |-> b, monitor |-> m]
               t == [sockets EXCEPT ![i] = e]
    <2>1. e \in Slots /\ e.client = s.client /\ e.buf = b /\ e.monitor = m
      BY <1>1 DEF Slots
    <2>2. OneEach(sockets) /\ sockets \in Seq(Slots)
      BY <1>1 DEF OneSlot, OneEach
    <2>3. now(b, m) = t
      OBVIOUS
    <2> HIDE DEF e, now
    <2>4. /\ Others(sockets, t, c) /\ Len(t) = Len(sockets) /\ t[i] = e
          /\ \A j \in 1 .. Len(t) : t[j].client = c => j = i
      BY <1>1, <2>1, <2>2, NowFact
    <2> HIDE DEF t
    <2> QED
      BY <1>1, <2>1, <2>3, <2>4
  <1> HIDE DEF buf, left
  <1>6. /\ eol = 0 <=> NoLine(buf)
        /\ eol # 0 => eol \in 1 .. Len(buf) /\ buf[eol] \in Lines
        /\ OneLine(buf) => eol = Len(buf)
    BY <1>4, EolFact
  <1> HIDE DEF eol
  <1>7. /\ sent' \in [Clients -> Seq(Bytes)] /\ sent'[c] = left /\ peer' = peer
        /\ \A k \in Clients : k # c => sent'[k] = sent[k]
    BY <1>1, <1>2, <1>4 DEF TypeOK, Same
  <1>8. c \in lockstep /\ Served(c) =>
          /\ NoLine(s.buf)
          /\ \/ asked[c] = 0 /\ NoLine(sent[c])
             \/ asked[c] = 1 /\ OneLine(sent[c])
    <2>1. sent[c] # << >>
      BY <1>3
    <2>2. Unread(c) => NoLine(s.buf)
      BY <1>1 DEF Unread
    <2> QED
      BY <1>1, <2>1, <2>2 DEF Waiting, Waits
  <1>9. Monitored(c) => s.monitor = TRUE
    <2> SUFFICES ASSUME Monitored(c) PROVE s.monitor = TRUE
      OBVIOUS
    <2>1. PICK j \in 1 .. Len(sockets) : sockets[j].client = c /\ sockets[j].monitor
      BY DEF Monitored
    <2>2. j = i
      BY <1>1, <2>1 DEF OneSlot
    <2> QED
      BY <1>3, <2>1, <2>2
  <1>10. CASE eol = 0
    <2>1. /\ sockets' = now(buf, s.monitor) /\ spin' = NoClient /\ conf' = conf
          /\ shut' = shut /\ asked' = asked /\ subscribed' = subscribed /\ view' = view
      <3> HIDE DEF now, s
      <3> QED
        BY <1>2, <1>10
    <2>2. /\ Others(sockets, sockets', c) /\ Len(sockets') = Len(sockets)
          /\ sockets'[i].client = c /\ sockets'[i].buf = buf /\ sockets'[i].monitor = s.monitor
          /\ \A j \in 1 .. Len(sockets') : sockets'[j].client = c => j = i
      <3> HIDE DEF now, s
      <3> QED
        BY <1>3, <1>4, <1>5, <2>1
    <2> HIDE DEF now, s
    <2>3. Elsewhere(c)
      BY <1>1, <1>2, <1>7, <2>1, <2>2 DEF Elsewhere, TypeOK
    <2>4. Informs
      <3>1. DOMAIN view' = Clients /\ shut \subseteq shut' /\ view' = view
            /\ Names(conf') = Names(conf)
        BY <1>1, <2>1 DEF TypeOK
      <3> QED
        BY <3>1 DEF Informs
    <2>5. Served(c)' => Served(c)
      BY <1>7, <2>1 DEF Served
    <2>6. c \in subscribed' /\ Served(c)' => view'[c] = Names(conf') /\ Monitored(c)'
      <3> SUFFICES ASSUME c \in subscribed', Served(c)'
                   PROVE  view'[c] = Names(conf') /\ Monitored(c)'
        OBVIOUS
      <3>1. view[c] = Names(conf) /\ Monitored(c)
        BY <1>1, <2>1, <2>5 DEF Monitors
      <3>2. sockets'[i].monitor = TRUE /\ i \in 1 .. Len(sockets')
        BY <1>9, <2>2, <3>1
      <3>3. view'[c] = Names(conf')
        BY <2>1, <3>1
      <3> QED
        BY <2>2, <3>2, <3>3 DEF Monitored
    <2>7. c \in lockstep /\ Served(c)' => Waits(c)'
      <3> SUFFICES ASSUME c \in lockstep, Served(c)'
                   PROVE  Waits(c)'
        OBVIOUS
      <3>1. NoLine(buf)
        BY <1>6, <1>10
      <3>2. Unread(c)'
        BY <2>2, <3>1 DEF Unread
      <3>3. /\ asked[c] = 0 => NoLine(left)
            /\ asked[c] = 1 => OneLine(left) \/ OneLine(buf)
            /\ asked[c] \in {0, 1}
        BY <1>4, <1>8, <2>5
      <3>4. ~OneLine(buf)
        <4>1. SUFFICES ASSUME OneLine(buf) PROVE FALSE
          OBVIOUS
        <4>2. Len(buf) \in 1 .. Len(buf) /\ buf[Len(buf)] # PART
          BY <1>4, <4>1 DEF OneLine
        <4> QED
          BY <3>1, <4>2 DEF NoLine
      <3>5. spin' # c
        BY <1>1, <2>1, SocketsAssumption
      <3> QED
        BY <1>7, <2>1, <3>2, <3>3, <3>4, <3>5 DEF Waits
    <2>8. ConfOK(conf')
      BY <1>1, <2>1
    <2> QED
      BY <1>1, <2>3, <2>4, <2>6, <2>7, <2>8, ServeFact
  <1>11. CASE eol # 0
    <2> DEFINE l == buf[eol]
    <2>1. l \in Lines /\ eol \in 0 .. Len(buf)
      BY <1>4, <1>6, <1>11
    <2>2. ConfOK(r.c) /\ (r.action \in Requests => r.c = conf)
      <3>1. l.is \in LineKinds
        BY <2>1, LinesAssumption
      <3> HIDE DEF l
      <3>2. LET u == parse_config_line(conf, l)
            IN  ConfOK(u.c) /\ (u.action \in Requests => u.c = conf)
        BY <1>1, <3>1, ParseFact
      <3> QED
        BY <3>2 DEF l
    <2>3. /\ conf' = r.c /\ Noticed(c, r)
          /\ \E w \in IF Reply(r.action) THEN write_timeout(c, shut') ELSE {"ok"} :
               /\ sockets' = CASE w = "ok" -> now(rest, monitor)
                               [] w = "EAGAIN" -> now(buf, monitor)
                               [] w = "EPIPE" -> local_socket_destroy(sockets, i)
               /\ spin' = IF w = "EAGAIN" THEN c ELSE NoClient
               /\ asked' = IF w = "ok" /\ Reply(r.action)
                           THEN [asked EXCEPT ![c] = asked[c] - 1] ELSE asked
               /\ subscribed' = CASE w = "ok" /\ r.action = "monitor" -> subscribed \cup {c}
                                  [] r.action = "unmonitor" -> subscribed \ {c}
                                  [] OTHER -> subscribed
      <3> HIDE DEF now, r, rest, monitor, s
      <3> QED
        BY <1>2, <1>11
    <2>4. rest \in Seq(Bytes) /\ (eol = Len(buf) => rest = << >>)
      BY <1>4, <2>1, RestFact
    <2>5. /\ monitor \in BOOLEAN
          /\ r.action = "monitor" => monitor = TRUE
          /\ r.action \notin {"monitor", "unmonitor"} => monitor = s.monitor
      <3> HIDE DEF r, s
      <3> QED
        BY <1>3
    <2> HIDE DEF r, rest, monitor, l, now, s
    <2>6. /\ shut \subseteq shut' /\ DOMAIN view' = Clients
          /\ \A k \in Clients : k \notin shut' /\ Monitored(k) /\ view[k] = Names(conf)
                                  => view'[k] = Names(conf')
          /\ r.action \in {"dump", "monitor"} /\ c \notin shut' => view'[c] = Names(conf')
          /\ r.action = "quit" => c \in shut'
      BY <1>1, <2>2, <2>3, NoticedFact
    <2>7. Informs
      BY <2>6 DEF Informs
    <2>8. PICK w \in IF Reply(r.action) THEN write_timeout(c, shut') ELSE {"ok"} :
               /\ sockets' = CASE w = "ok" -> now(rest, monitor)
                               [] w = "EAGAIN" -> now(buf, monitor)
                               [] w = "EPIPE" -> local_socket_destroy(sockets, i)
               /\ spin' = IF w = "EAGAIN" THEN c ELSE NoClient
               /\ asked' = IF w = "ok" /\ Reply(r.action)
                           THEN [asked EXCEPT ![c] = asked[c] - 1] ELSE asked
               /\ subscribed' = CASE w = "ok" /\ r.action = "monitor" -> subscribed \cup {c}
                                  [] r.action = "unmonitor" -> subscribed \ {c}
                                  [] OTHER -> subscribed
      BY <2>3
    <2>9. w \in {"ok", "EAGAIN", "EPIPE"}
      BY DEF write_timeout
    <2>10. Served(c)' => /\ Served(c) /\ w # "EPIPE" /\ Reply(r.action)
                         /\ w = "ok" => c \notin full
      <3> SUFFICES ASSUME Served(c)'
                   PROVE  /\ Served(c) /\ w # "EPIPE" /\ Reply(r.action)
                          /\ w = "ok" => c \notin full
        OBVIOUS
      <3>1. peer[c] = "open" /\ c \notin shut' /\ c \notin shut
        BY <1>7, <2>6 DEF Served
      <3>2. Reply(r.action)
        BY <2>6, <3>1 DEF Reply
      <3>3. w \in IF c \in full THEN {"EAGAIN"} ELSE {"ok"}
        BY <3>1, <3>2 DEF write_timeout
      <3> QED
        BY <3>1, <3>2, <3>3 DEF Served
    <2>11. /\ asked' \in [Clients -> Int]
           /\ \A k \in Clients : k # c => asked'[k] = asked[k]
           /\ w = "ok" /\ Reply(r.action) => asked'[c] = asked[c] - 1
           /\ w # "ok" => asked'[c] = asked[c]
      BY <1>1, <2>8 DEF TypeOK
    <2>12. spin' = IF w = "EAGAIN" THEN c ELSE NoClient
      BY <2>8
    <2>13. /\ subscribed' \subseteq subscribed \cup {c}
           /\ r.action = "unmonitor" => c \notin subscribed'
           /\ c \in subscribed' => c \in subscribed \/ (w = "ok" /\ r.action = "monitor")
      BY <2>8
    <2>14. Others(sockets, sockets', c)
      <3>1. CASE w = "ok"
        <4>1. sockets' = now(rest, monitor)
          BY <2>8, <3>1
        <4> QED
          BY <1>5, <2>4, <2>5, <4>1
      <3>2. CASE w = "EAGAIN"
        <4>1. sockets' = now(buf, monitor)
          BY <2>8, <3>2
        <4> QED
          BY <1>4, <1>5, <2>5, <4>1
      <3>3. CASE w = "EPIPE"
        <4>1. sockets' = local_socket_destroy(sockets, i)
          BY <2>8, <3>3
        <4>2. OneEach(sockets)
          BY <1>1 DEF OneSlot, OneEach
        <4> QED
          BY <1>1, <4>1, <4>2, DestroyFact
      <3> QED
        BY <2>9, <3>1, <3>2, <3>3
    <2>15. w # "EPIPE" =>
             /\ Len(sockets') = Len(sockets) /\ sockets'[i].client = c
             /\ sockets'[i].monitor = monitor
             /\ w = "ok" => sockets'[i].buf = rest
             /\ \A j \in 1 .. Len(sockets') : sockets'[j].client = c => j = i
      <3>1. CASE w = "ok"
        <4>1. sockets' = now(rest, monitor)
          BY <2>8, <3>1
        <4> QED
          BY <1>5, <2>4, <2>5, <4>1
      <3>2. CASE w = "EAGAIN"
        <4>1. sockets' = now(buf, monitor)
          BY <2>8, <3>2
        <4> QED
          BY <1>4, <1>5, <2>5, <3>2, <4>1
      <3> QED
        BY <2>9, <3>1, <3>2
    <2>16. Elsewhere(c)
      BY <1>1, <1>2, <1>7, <2>11, <2>12, <2>13, <2>14 DEF Elsewhere
    <2>17. c \in subscribed' /\ Served(c)' => view'[c] = Names(conf') /\ Monitored(c)'
      <3> SUFFICES ASSUME c \in subscribed', Served(c)'
                   PROVE  view'[c] = Names(conf') /\ Monitored(c)'
        OBVIOUS
      <3>1. c \notin shut' /\ Served(c) /\ w # "EPIPE"
        BY <2>10 DEF Served
      <3>2. c \in subscribed => view[c] = Names(conf) /\ Monitored(c)
        BY <1>1, <3>1 DEF Monitors
      <3>3. r.action # "unmonitor"
        BY <2>13
      <3>4. view'[c] = Names(conf')
        <4>1. CASE c \in subscribed
          BY <1>1, <2>6, <3>1, <3>2, <4>1
        <4>2. CASE r.action = "monitor"
          BY <2>6, <3>1, <4>2
        <4> QED
          BY <2>13, <4>1, <4>2
      <3>5. monitor = TRUE
        <4>1. CASE r.action = "monitor"
          BY <2>5, <4>1
        <4>2. CASE r.action # "monitor"
          <5>1. c \in subscribed
            BY <2>13, <4>2
          <5> QED
            BY <1>9, <2>5, <3>2, <3>3, <4>2, <5>1
        <4> QED
          BY <4>1, <4>2
      <3>6. Monitored(c)'
        <4>1. /\ i \in 1 .. Len(sockets') /\ sockets'[i].client = c
              /\ sockets'[i].monitor = TRUE
          BY <2>15, <3>1, <3>5
        <4> QED
          BY <4>1 DEF Monitored
      <3> QED
        BY <3>4, <3>6
    <2>18. c \in lockstep /\ Served(c)' => Waits(c)'
      <3> SUFFICES ASSUME c \in lockstep, Served(c)'
                   PROVE  Waits(c)'
        OBVIOUS
      <3>1. Served(c) /\ w # "EPIPE" /\ Reply(r.action)
        BY <2>10
      <3>2. ~NoLine(buf)
        BY <1>6, <1>11
      <3>3. asked[c] = 1 /\ OneLine(buf) /\ left = << >>
        BY <1>4, <1>8, <3>1, <3>2
      <3>4. rest = << >>
        BY <1>6, <2>4, <3>3
      <3>5. CASE w = "ok"
        <4>1. asked'[c] = 0
          BY <2>11, <3>1, <3>3, <3>5
        <4>2. NoLine(<< >>)
          BY DEF NoLine
        <4>3. Unread(c)'
          BY <2>15, <3>1, <3>4, <3>5, <4>2 DEF Unread
        <4>4. spin' # c
          BY <1>1, <2>12, <3>5, SocketsAssumption
        <4> QED
          BY <1>7, <3>3, <4>1, <4>2, <4>3, <4>4 DEF Waits
      <3>6. CASE w = "EAGAIN"
        BY <1>7, <2>11, <2>12, <3>3, <3>6 DEF Waits
      <3> QED
        BY <2>9, <3>1, <3>5, <3>6
    <2>19. ConfOK(conf')
      BY <2>2, <2>3
    <2> QED
      BY <1>1, <2>7, <2>16, <2>17, <2>18, <2>19, ServeFact
  <1> QED
    BY <1>10, <1>11

-----------------------------------------------------------------------------
(* The other actions. *)

\* Steps that only move clients: nobody becomes served who was not.
LEMMA QuietFact ==
  ASSUME Inv, UNCHANGED <<conf, sockets, spin, sent, asked, lockstep, subscribed, view>>,
         peer' \in [Clients -> Peers],
         phase' # "run" => \A k \in Clients : peer'[k] = "new",
         \A k \in Clients : /\ Served(k)' => Served(k)
                            /\ peer[k] \in Accepted <=> peer'[k] \in Accepted
  PROVE  Inv'
  <1>1. TypeOK /\ OneSlot /\ Early /\ Monitors /\ Waiting /\ ConfOK(conf)
    BY DEF Inv
  <1>2. TypeOK' /\ ConfOK(conf)'
    BY <1>1 DEF TypeOK
  <1>3. OneSlot'
    BY <1>1, SlotFact DEF OneSlot
  <1>4. Early'
    BY <1>1 DEF Early
  <1>5. Monitors'
    <2>1. \A k \in subscribed : Monitored(k)' = Monitored(k)
      BY DEF Monitored
    <2>2. \A k \in subscribed : k \in Clients
      BY <1>1 DEF TypeOK
    <2> QED
      BY <1>1, <2>1, <2>2 DEF Monitors
  <1>6. Waiting'
    <2>1. \A k \in lockstep : Waits(k)' = Waits(k)
      BY DEF Waits, Unread
    <2>2. \A k \in lockstep : k \in Clients
      BY <1>1 DEF TypeOK
    <2> QED
      BY <1>1, <2>1, <2>2 DEF Waiting
  <1> QED
    BY <1>2, <1>3, <1>4, <1>5, <1>6 DEF Inv

\* Steps before the daemon serves.
LEMMA EarlyFact ==
  ASSUME Inv, ConfOK(conf'), phase # "run",
         UNCHANGED <<sockets, spin, peer, sent, full, shut, asked, lockstep, subscribed, view>>
  PROVE  Inv'
  <1>1. TypeOK /\ OneSlot /\ Early /\ Monitors /\ Waiting /\ \A k \in Clients : peer[k] = "new"
    BY DEF Inv, Early
  <1>2. TypeOK' /\ OneSlot' /\ Early'
    BY <1>1 DEF TypeOK, OneSlot, Early
  <1>3. \A k \in Clients : ~Served(k)'
    BY <1>1 DEF Served
  <1>4. Monitors' /\ Waiting'
    BY <1>2, <1>3 DEF Monitors, Waiting, TypeOK
  <1> QED
    BY <1>2, <1>4 DEF Inv

LEMMA ConfigureFact ==
  ASSUME Inv, NEW l \in StartLines, Configure(l)
  PROVE  Inv'
  <1> DEFINE r == parse_config_line(conf, l)
  <1>1. l.is \in LineKinds
    BY LinesAssumption
  <1>2. ConfOK(r.c)
    BY <1>1, ParseFact DEF Inv
  <1>3. conf' = r.c
    BY DEF Configure
  <1> HIDE DEF r
  <1>4. ConfOK(conf')
    BY <1>2, <1>3
  <1> QED
    BY <1>4, EarlyFact DEF Configure

LEMMA StartFact ==
  ASSUME Inv, Start
  PROVE  Inv'
  <1>1. PICK arguments \in Arguments : conf' = finalise_config(conf, arguments)
    BY DEF Start
  <1>2. ConfOK(finalise_config(conf, arguments))
    BY LinesAssumption, FinaliseFact DEF Inv
  <1>3. ConfOK(conf')
    BY <1>1, <1>2
  <1> QED
    BY <1>3, EarlyFact DEF Start

LEMMA ClientFact ==
  ASSUME Inv, NEW c \in Clients, Connect(c) \/ Stall(c) \/ Resume(c) \/ Close(c)
  PROVE  Inv'
  <1>1. TypeOK /\ Early
    BY DEF Inv
  <1>2. /\ UNCHANGED <<conf, sockets, spin, sent, asked, lockstep, subscribed, view>>
        /\ shut' = shut /\ phase' = phase
    BY DEF Connect, Stall, Resume, Close, daemonVars
  <1>3. \/ peer' = peer
        \/ peer[c] = "new" /\ phase = "run" /\ peer' = [peer EXCEPT ![c] = "connected"]
        \/ peer[c] = "connected" /\ peer' = [peer EXCEPT ![c] = "gone"]
        \/ peer[c] = "open" /\ peer' = [peer EXCEPT ![c] = "closed"]
    BY DEF Connect, Stall, Resume, Close
  <1>4. peer' \in [Clients -> Peers]
    BY <1>1, <1>3 DEF TypeOK, Peers
  <1>5. phase' # "run" => \A k \in Clients : peer'[k] = "new"
    BY <1>1, <1>2, <1>3 DEF Early, TypeOK
  <1>6. \A k \in Clients : /\ peer'[k] = "open" => peer[k] = "open"
                           /\ peer[k] \in Accepted <=> peer'[k] \in Accepted
    BY <1>1, <1>3 DEF TypeOK, Accepted
  <1>7. \A k \in Clients : Served(k)' => Served(k)
    BY <1>2, <1>6 DEF Served
  <1> QED
    BY <1>2, <1>4, <1>5, <1>6, <1>7, QuietFact

LEMMA SendingFact ==
  ASSUME Inv, NEW c \in Clients, NEW l \in Bytes, Send(c, l)
  PROVE  Inv'
  <1> DEFINE s == Append(sent[c], l)
  <1>1. TypeOK /\ OneSlot /\ Early /\ Monitors /\ Waiting /\ ConfOK(conf) /\ sent[c] \in Seq(Bytes)
    BY DEF Inv, TypeOK
  <1>2. /\ peer[c] = "open" /\ sent' = [sent EXCEPT ![c] = s]
        /\ asked' = IF l = PART THEN asked ELSE [asked EXCEPT ![c] = asked[c] + 1]
        /\ lockstep' = IF asked[c] > 0 THEN lockstep \ {c} ELSE lockstep
        /\ UNCHANGED <<conf, sockets, spin, shut, phase, peer, subscribed, view>>
    BY DEF Send, daemonVars
  <1>3. /\ s \in Seq(Bytes)
        /\ NoLine(sent[c]) /\ l = PART => NoLine(s)
        /\ NoLine(sent[c]) /\ l # PART => OneLine(s)
    BY <1>1, SendFact
  <1> HIDE DEF s
  <1>4. /\ sent' \in [Clients -> Seq(Bytes)] /\ sent'[c] = s
        /\ \A k \in Clients : k # c => sent'[k] = sent[k]
    BY <1>1, <1>2, <1>3 DEF TypeOK
  <1>5. /\ asked' \in [Clients -> Int] /\ \A k \in Clients : k # c => asked'[k] = asked[k]
        /\ asked'[c] = IF l = PART THEN asked[c] ELSE asked[c] + 1
    BY <1>1, <1>2 DEF TypeOK
  <1>6. TypeOK'
    BY <1>1, <1>2, <1>4, <1>5 DEF TypeOK
  <1>7. OneSlot'
    BY <1>1, <1>2 DEF OneSlot
  <1>8. Early'
    <2>1. \A k \in Clients : peer[k] \notin Accepted => k # c
      BY <1>2 DEF Accepted
    <2> QED
      BY <1>1, <1>2, <1>4, <1>5, <2>1 DEF Early
  <1>9. Monitors'
    BY <1>1, <1>2 DEF Monitors, Monitored, Served
  <1>10. Waiting'
    <2> SUFFICES ASSUME NEW k \in lockstep', Served(k)'
                 PROVE  Waits(k)'
      BY DEF Waiting
    <2>1. k \in lockstep /\ k \in Clients /\ (k = c => ~(asked[c] > 0))
      BY <1>1, <1>2 DEF TypeOK
    <2>2. Waits(k)
      BY <1>1, <1>2, <2>1 DEF Waiting, Served
    <2>3. Unread(k)' = Unread(k) /\ spin' = spin
      BY <1>2 DEF Unread
    <2>4. CASE k # c
      BY <1>4, <1>5, <2>1, <2>2, <2>3, <2>4 DEF Waits
    <2>5. CASE k = c
      <3>1. asked[c] = 0 /\ spin # c /\ NoLine(sent[c]) /\ Unread(c)
        BY <2>1, <2>2, <2>5 DEF Waits
      <3>2. CASE l = PART
        BY <1>3, <1>4, <1>5, <2>3, <2>5, <3>1, <3>2 DEF Waits
      <3>3. CASE l # PART
        BY <1>3, <1>4, <1>5, <2>3, <2>5, <3>1, <3>3 DEF Waits
      <3> QED
        BY <3>2, <3>3
    <2> QED
      BY <2>4, <2>5
  <1> QED
    BY <1>1, <1>2, <1>6, <1>7, <1>8, <1>9, <1>10 DEF Inv

LEMMA AcceptFact ==
  ASSUME Inv, NEW c \in Clients, accept_local_connections(c)
  PROVE  Inv'
  <1> DEFINE e == [client |-> c, buf |-> << >>, monitor |-> FALSE]
             N == Len(sockets)
  <1>1. TypeOK /\ OneSlot /\ Early /\ Monitors /\ Waiting /\ ConfOK(conf) /\ sockets \in Seq(Slots)
    BY DEF Inv, TypeOK
  <1>2. /\ spin = NoClient /\ sockets' = Append(sockets, e)
        /\ UNCHANGED <<conf, spin, phase, sent, asked, lockstep, subscribed, view>>
        /\ \/ peer[c] = "connected" /\ peer' = [peer EXCEPT ![c] = "open"]
           \/ peer[c] = "gone" /\ peer' = [peer EXCEPT ![c] = "closed"]
        /\ shut \subseteq shut'
    BY DEF accept_local_connections
  <1>3. e \in Slots /\ e.client = c /\ e.buf = << >>
    <2>1. << >> \in Seq(Bytes)
      OBVIOUS
    <2> QED
      BY <2>1 DEF Slots
  <1> HIDE DEF e
  <1>4. /\ sockets' \in Seq(Slots) /\ Len(sockets') = N + 1 /\ N \in Nat
        /\ sockets'[N + 1] = e /\ \A i \in 1 .. N : sockets'[i] = sockets[i]
    BY <1>1, <1>2, <1>3
  <1>5. /\ peer[c] \notin Accepted /\ peer' \in [Clients -> Peers] /\ peer'[c] \in Accepted
        /\ \A k \in Clients : k # c => peer'[k] = peer[k]
    BY <1>1, <1>2 DEF TypeOK, Accepted, Peers
  <1>6. asked[c] = 0 /\ sent[c] = << >> /\ c \notin subscribed /\ phase = "run"
    <2>1. peer[c] # "new"
      BY <1>2
    <2> QED
      BY <1>1, <1>5, <2>1 DEF Early
  <1>7. \A i \in 1 .. N : sockets[i].client # c /\ sockets[i].client \in Clients
    BY <1>1, <1>5, SlotFact DEF OneSlot
  <1> HIDE DEF N
  <1>8. TypeOK'
    BY <1>1, <1>2, <1>4, <1>5 DEF TypeOK
  <1>9. OneSlot'
    <2>1. \A i \in 1 .. N + 1 : i \in 1 .. N \/ i = N + 1
      BY <1>4
    <2>2. \A i \in 1 .. N : peer[sockets[i].client] \in Accepted
      BY <1>1 DEF OneSlot, N
    <2>3. \A i \in 1 .. N + 1 : peer'[sockets'[i].client] \in Accepted
      BY <1>3, <1>4, <1>5, <1>7, <2>1, <2>2
    <2>4. \A i, j \in 1 .. N : sockets[i].client = sockets[j].client => i = j
      BY <1>1 DEF OneSlot, N
    <2>5. \A i, j \in 1 .. N + 1 : sockets'[i].client = sockets'[j].client => i = j
      BY <1>3, <1>4, <1>7, <2>1, <2>4
    <2> QED
      BY <1>4, <2>3, <2>5 DEF OneSlot
  <1>10. Early'
    BY <1>1, <1>2, <1>5, <1>6 DEF Early
  <1>11. \A k \in Clients : k # c /\ Served(k)' => Served(k)
    BY <1>2, <1>5 DEF Served
  <1>12. Monitors'
    <2> SUFFICES ASSUME NEW k \in subscribed, Served(k)'
                 PROVE  view[k] = Names(conf) /\ Monitored(k)'
      BY <1>2 DEF Monitors
    <2>1. k \in Clients /\ k # c
      BY <1>1, <1>6 DEF TypeOK
    <2>2. view[k] = Names(conf) /\ Monitored(k)
      BY <1>1, <1>11, <2>1 DEF Monitors
    <2>3. PICK i \in 1 .. N : sockets[i].client = k /\ sockets[i].monitor
      BY <2>2 DEF Monitored, N
    <2>4. i \in 1 .. Len(sockets') /\ sockets'[i] = sockets[i]
      BY <1>4
    <2> QED
      BY <2>2, <2>3, <2>4 DEF Monitored
  <1>13. Waiting'
    <2> SUFFICES ASSUME NEW k \in lockstep, Served(k)'
                 PROVE  Waits(k)'
      BY <1>2 DEF Waiting
    <2>1. k \in Clients
      BY <1>1 DEF TypeOK
    <2>2. CASE k = c
      <3>1. NoLine(<< >>)
        BY DEF NoLine
      <3>2. Unread(c)'
        <4> SUFFICES ASSUME NEW i \in 1 .. Len(sockets'), sockets'[i].client = c
                     PROVE  NoLine(sockets'[i].buf)
          BY DEF Unread
        <4>1. i = N + 1
          BY <1>4, <1>7
        <4> QED
          BY <1>3, <1>4, <3>1, <4>1
      <3>3. spin' # c
        BY <1>2, SocketsAssumption
      <3> QED
        BY <1>2, <1>6, <2>2, <3>1, <3>2, <3>3 DEF Waits
    <2>3. CASE k # c
      <3>1. Waits(k)
        BY <1>1, <1>11, <2>1, <2>3 DEF Waiting
      <3>2. Unread(k) => Unread(k)'
        <4> SUFFICES ASSUME Unread(k), NEW i \in 1 .. Len(sockets'), sockets'[i].client = k
                     PROVE  NoLine(sockets'[i].buf)
          BY DEF Unread
        <4>1. i \in 1 .. N /\ sockets'[i] = sockets[i]
          BY <1>3, <1>4, <2>3
        <4> QED
          BY <4>1 DEF Unread, N
      <3> QED
        BY <1>2, <3>1, <3>2 DEF Waits
    <2> QED
      BY <2>2, <2>3
  <1> QED
    BY <1>1, <1>2, <1>8, <1>9, <1>10, <1>12, <1>13 DEF Inv

-----------------------------------------------------------------------------
(* The theorems. *)

LEMMA InitFact ==
  ASSUME Init
  PROVE  Inv
  <1>1. ConfOK(conf)
    BY UnconfiguredFact DEF Init
  <1>2. /\ sockets = << >> /\ Len(sockets) = 0 /\ << >> \in Seq(Slots) /\ << >> \in Seq(Bytes)
        /\ peer = [c \in Clients |-> "new"] /\ sent = [c \in Clients |-> << >>]
        /\ asked = [c \in Clients |-> 0] /\ subscribed = {} /\ lockstep = Clients
        /\ view = [c \in Clients |-> {}] /\ spin = NoClient
    BY DEF Init
  <1>3. TypeOK
    BY <1>2 DEF TypeOK, Peers
  <1>4. OneSlot /\ Early /\ Monitors
    BY <1>2 DEF OneSlot, Early, Monitors
  <1>5. Waiting
    BY <1>2 DEF Waiting, Served
  <1> QED
    BY <1>1, <1>3, <1>4, <1>5 DEF Inv

LEMMA NextFact ==
  ASSUME Inv, [Next]_vars
  PROVE  Inv'
  <1>1. CASE \E l \in StartLines : Configure(l)
    BY <1>1, ConfigureFact
  <1>2. CASE Start
    BY <1>2, StartFact
  <1>3. CASE ClientNext
    <2>1. PICK c \in Clients : \/ Connect(c) \/ Stall(c) \/ Resume(c) \/ Close(c)
                               \/ \E l \in Lines \cup {PART} : Send(c, l)
      BY <1>3 DEF ClientNext
    <2> QED
      BY <2>1, ClientFact, SendingFact DEF Bytes
  <1>4. CASE \E c \in Clients : accept_local_connections(c)
    BY <1>4, AcceptFact
  <1>5. CASE \E i \in 1 .. MAX_LOCAL_SOCKETS : local_read(i)
    <2>1. PICK i \in 1 .. MAX_LOCAL_SOCKETS : local_read(i)
      BY <1>5
    <2>2. i \in 1 .. Len(sockets)
      <3>1. Len(sockets) \in Nat /\ i <= Len(sockets) /\ i \in Nat /\ i >= 1
        BY <2>1, SocketsAssumption DEF local_read, Inv, TypeOK
      <3> QED
        BY <3>1
    <2>3. PICK c : c = sockets[i].client
      OBVIOUS
    <2>4. spin \in {NoClient, c} /\ (ReadEnd(i) \/ ReadTooLong(i) \/ ReadLine(i))
      BY <2>1, <2>3 DEF local_read
    <2>5. CASE ReadLine(i)
      BY <2>2, <2>3, <2>4, <2>5, LineFact
    <2>6. CASE ReadEnd(i) \/ ReadTooLong(i)
      BY <2>2, <2>3, <2>4, <2>6, LeftFact
    <2> QED
      BY <2>4, <2>5, <2>6
  <1>6. CASE UNCHANGED vars
    <2>1. /\ UNCHANGED <<conf, sockets, spin, sent, asked, lockstep, subscribed, view>>
          /\ peer' = peer /\ phase' = phase /\ shut' = shut
      BY <1>6 DEF vars
    <2>2. TypeOK /\ Early
      BY DEF Inv
    <2>3. \A k \in Clients : Served(k)' = Served(k)
      BY <2>1 DEF Served
    <2>4. peer' \in [Clients -> Peers] /\ (phase' # "run" => \A k \in Clients : peer'[k] = "new")
      BY <2>1, <2>2 DEF TypeOK, Early
    <2> QED
      BY <2>1, <2>3, <2>4, QuietFact
  <1> QED
    BY <1>1, <1>2, <1>3, <1>4, <1>5, <1>6 DEF Next

LEMMA Invariance == Spec => []Inv
  <1> QED
    BY InitFact, NextFact, PTL DEF Spec

\* No interface, and no entry of interface_confs, refers to a structure that was
\* freed, whatever lines the configuration and the clients give and in whatever
\* order (flush_ifconf, flush_interface, add_ifconf, finalise_config).
THEOREM ConfigurationsAlive == Spec => []ConfAlive
  <1>1. Inv => ConfAlive
    <2> SUFFICES ASSUME Inv PROVE ConfAlive
      OBVIOUS
    <2>1. ListOK(conf.heap, conf.listed, conf.default) /\ IfsOK(conf.heap, conf.ifs, conf.default)
      BY DEF Inv, ConfOK, ConfsOK
    <2>2. DOMAIN conf.listed = 1 .. Len(conf.listed) /\ DOMAIN conf.ifs = 1 .. Len(conf.ifs)
      BY <2>1, ListFact DEF ListOK, IfsOK
    <2>3. \A id \in Listed(conf) : conf.heap[id].alive
      BY <2>1, <2>2 DEF ListOK, Listed
    <2>4. \A i \in DOMAIN conf.ifs : conf.ifs[i].conf # 0 => conf.heap[conf.ifs[i].conf].alive
      BY <2>1, <2>2 DEF IfsOK, Refers
    <2> QED
      BY <2>3, <2>4 DEF ConfAlive
  <1> QED
    BY <1>1, Invariance, PTL

\* A client that was told "ok" to monitor, and was not shut down, knows exactly the
\* interfaces there are, however slots move around it (local_notify_interface,
\* local_notify_all_1, local_socket_destroy).
THEOREM MonitorsInformed == Spec => []MonitorsAgree
  <1>1. Inv => MonitorsAgree
    BY DEF Inv, Monitors, Served, MonitorsAgree
  <1> QED
    BY <1>1, Invariance, PTL

\* The request of a client that waits for each reply is in its socket, where select
\* sees it, until it is answered or the client is shut down, unless the daemon spins
\* (local_read).
THEOREM NobodyStranded == Spec => []NoneStranded
  <1>1. Inv => NoneStranded
    <2> SUFFICES ASSUME Inv, NEW c \in lockstep,
                        asked[c] > 0, peer[c] = "open", c \notin shut, spin = NoClient
                 PROVE  sent[c] # << >>
      BY DEF NoneStranded
    <2>1. Waits(c) /\ c \in Clients
      BY DEF Inv, Waiting, Served, TypeOK
    <2>2. OneLine(sent[c])
      BY <2>1, SocketsAssumption DEF Waits
    <2>3. Len(sent[c]) > 0
      BY <2>2 DEF OneLine
    <2> QED
      BY <2>3
  <1> QED
    BY <1>1, Invariance, PTL

=============================================================================
