------------------------------- MODULE Places -------------------------------
(***************************************************************************)
(* Filtering a list by the places that are kept, and keeping one place for *)
(* each key.                                                               *)
(***************************************************************************)
EXTENDS Integers, FiniteSets

(* The numbers of a finite set in their order. *)
InOrder(S) ==
  CHOOSE f \in [1 .. Cardinality(S) -> S] : \A i, j \in 1 .. Cardinality(S) : i < j => f[i] < f[j]

(* The elements of a list at the given places, in the list's order. *)
AtPlaces(list, S) == [k \in 1 .. Cardinality(S) |-> list[InOrder(S)[k]]]

(* Where a key of a list of keys comes first, and where last. *)
FirstPlaces(keys) == {i \in DOMAIN keys : \A j \in DOMAIN keys : keys[j] = keys[i] => i <= j}

LastPlace(keys, key) ==
  CHOOSE j \in DOMAIN keys : keys[j] = key /\ \A k \in DOMAIN keys : keys[k] = key => k <= j

(* The last place of every key, in the order in which keys come first. *)
KeptPlaces(keys) == AtPlaces([i \in DOMAIN keys |-> LastPlace(keys, keys[i])], FirstPlaces(keys))
=============================================================================
