----------------------------- MODULE Collections -----------------------------
(***************************************************************************)
(* Map, Set, WeakMap and WeakSet (vm/natives/collections.rs).  A           *)
(* collection is two hidden arrays, the keys in insertion order and, for a *)
(* map, their values beside them; deleting closes the gap.  An iterator or *)
(* a running forEach keeps nothing but an index into the live arrays       *)
(* (vm/natives/iterators.rs), and the program changes the collection       *)
(* between its steps.                                                      *)
(***************************************************************************)
EXTENDS Naturals, Sequences, SequenceTheorems, TLAPS

CONSTANTS
    Keys,      \* the values used as keys
    Holdable,  \* those of them a weak collection takes: objects and symbols
    Values,    \* the values a map gives them
    Unit,      \* what stands for the value of a set's member
    Walkers    \* iterators and forEach calls

ASSUME KeysAssumption == Holdable \subseteq Keys /\ Unit \notin Values

VARIABLES
    kind,   \* "map", "set", "weakmap" or "weakset"
    keys,   \* \0ck or \0wk
    vals,   \* \0cv or \0wv
    at,     \* the index each walker has reached
    seen    \* the members each walker has produced that were not removed since

collection == <<kind, keys, vals, at, seen>>

IsMap == kind \in {"map", "weakmap"}

IsWeak == kind \in {"weakmap", "weakset"}

(* A weak collection takes objects and symbols.                            *)
CanBeHeld(k) == IsWeak => k \in Holdable

(* collection_find under same_value_zero.                                  *)
Positions(k) == {i \in 1 .. Len(keys) : keys[i] = k}

Has(k) == Positions(k) # {}

Find(k) == CHOOSE i \in 1 .. Len(keys) : keys[i] = k

(* collection_remove: everything after the gap moves down by one.          *)
CollectionRemove(array, i) ==
    [j \in 1 .. Len(array) - 1 |-> IF j < i THEN array[j] ELSE array[j + 1]]

CollectionInit ==
    /\ kind \in {"map", "set", "weakmap", "weakset"}
    /\ keys = <<>>
    /\ vals = <<>>
    /\ at = [w \in Walkers |-> 0]
    /\ seen = [w \in Walkers |-> {}]

StoreFirst(k, v) ==
    /\ CanBeHeld(k)
    /\ ~Has(k)
    /\ keys' = <<k>> \o keys
    /\ vals' = IF IsMap THEN <<v>> \o vals ELSE vals
    /\ UNCHANGED <<kind, at, seen>>

(* MAP_SET, SET_ADD and the weak pair: a member keeps its place.           *)
Store(k, v) ==
    /\ CanBeHeld(k)
    /\ IF Has(k)
       THEN /\ keys' = keys
            /\ vals' = IF IsMap THEN [vals EXCEPT ![Find(k)] = v] ELSE vals
       ELSE /\ keys' = Append(keys, k)
            /\ vals' = IF IsMap THEN Append(vals, v) ELSE vals
    /\ UNCHANGED <<kind, at, seen>>

DeleteKey(k) ==
    /\ CanBeHeld(k)
    /\ Has(k)
    /\ keys' = CollectionRemove(keys, Find(k))
    /\ vals' = vals
    /\ seen' = [w \in Walkers |-> seen[w] \ {k}]
    /\ UNCHANGED <<kind, at>>

(* MAP_DELETE, SET_DELETE and the weak pair.                               *)
Delete(k) ==
    /\ CanBeHeld(k)
    /\ Has(k)
    /\ keys' = CollectionRemove(keys, Find(k))
    /\ vals' = IF IsMap THEN CollectionRemove(vals, Find(k)) ELSE vals
    /\ seen' = [w \in Walkers |-> seen[w] \ {k}]
    /\ UNCHANGED <<kind, at>>

(* MAP_CLEAR and SET_CLEAR; the weak collections have none.                *)
Clear ==
    /\ ~IsWeak
    /\ keys' = <<>>
    /\ vals' = <<>>
    /\ seen' = [w \in Walkers |-> {}]
    /\ UNCHANGED <<kind, at>>

(* entries, keys, values, forEach: a new index at the start.               *)
Walk(w) ==
    /\ ~IsWeak
    /\ at' = [at EXCEPT ![w] = 0]
    /\ seen' = [seen EXCEPT ![w] = {}]
    /\ UNCHANGED <<kind, keys, vals>>

(* iterator_native_step and a turn of forEach: the element at the index    *)
(* now, or done with the index left where it was.                          *)
Step(w) ==
    /\ ~IsWeak
    /\ at[w] < Len(keys)
    /\ at' = [at EXCEPT ![w] = @ + 1]
    /\ seen' = [seen EXCEPT ![w] = @ \cup {keys[at[w] + 1]}]
    /\ UNCHANGED <<kind, keys, vals>>

CollectionNext ==
    \/ \E k \in Keys, v \in Values : Store(k, v)
    \/ \E k \in Keys : Delete(k)
    \/ Clear
    \/ \E w \in Walkers : Walk(w)
    \/ \E w \in Walkers : Step(w)

CollectionSpec == CollectionInit /\ [][CollectionNext]_collection

-----------------------------------------------------------------------------
TypeOK ==
    /\ kind \in {"map", "set", "weakmap", "weakset"}
    /\ keys \in Seq(Keys)
    /\ vals \in Seq(Values)
    /\ at \in [Walkers -> Nat]
    /\ seen \in [Walkers -> SUBSET Keys]

(* A key is held once, and a map's values stay beside their keys.          *)
ArraysAgree ==
    /\ \A i, j \in 1 .. Len(keys) : keys[i] = keys[j] => i = j
    /\ IsMap => Len(vals) = Len(keys)

(* What a walker has produced and the collection still holds lies behind   *)
(* its index: deletions only move elements down.                           *)
SeenBehind ==
    \A w \in Walkers : \A k \in seen[w] :
        \E i \in 1 .. Len(keys) : i <= at[w] /\ keys[i] = k

(* No walker produces a member twice while the member stays, whatever is   *)
(* added and deleted between its steps (iterator_native_step,              *)
(* collection_remove).                                                     *)
NeverTwice ==
    \A w \in Walkers : at[w] < Len(keys) => keys[at[w] + 1] \notin seen[w]

(* A member stays ahead of every member that was added after it: deleting  *)
(* "keep[s] insertion order" (collection_remove).                          *)
OrderKept ==
    [][\A i, j \in 1 .. Len(keys) :
           i < j => ~\E p, q \in 1 .. Len(keys') :
                        p < q /\ keys'[p] = keys[j] /\ keys'[q] = keys[i]]_collection

(* The arrays are the map they stand for: what is held and the value each  *)
(* key was last given change as KeyedStore says.                           *)
Held == {keys[i] : i \in 1 .. Len(keys)}

ValueOf(k) == IF IsMap THEN vals[Find(k)] ELSE Unit

Stored == INSTANCE KeyedStore WITH
              Values <- Values \cup {Unit}, map <- [k \in Held |-> ValueOf(k)]

ImplementsKeyedStore == Stored!Spec

-----------------------------------------------------------------------------
(* Proofs, for every set of keys and values and any number of walkers.     *)
(* What makes the invariant inductive is SeenBehind: what a walker has     *)
(* produced and the collection still holds lies behind its index, because  *)
(* a deletion moves elements down and an addition goes to the end.         *)

\* What collection_remove returns: one element fewer, those before the gap in
\* place and those after it one down.
LEMMA Removed ==
    ASSUME NEW S, NEW array \in Seq(S), NEW i \in 1 .. Len(array)
    PROVE  /\ CollectionRemove(array, i) \in Seq(S)
           /\ Len(CollectionRemove(array, i)) = Len(array) - 1
           /\ \A j \in 1 .. Len(array) - 1 :
                  CollectionRemove(array, i)[j] = IF j < i THEN array[j] ELSE array[j + 1]
<1>1. Len(array) - 1 \in Nat  OBVIOUS
<1>2. \A j \in 1 .. Len(array) - 1 : (IF j < i THEN array[j] ELSE array[j + 1]) \in S
  OBVIOUS
<1>3. CollectionRemove(array, i) \in Seq(S)  BY <1>1, <1>2, IsASeq DEF CollectionRemove
<1>4. Len(CollectionRemove(array, i)) = Len(array) - 1  BY <1>1, <1>3 DEF CollectionRemove
<1> QED BY <1>3, <1>4 DEF CollectionRemove

\* A key that is held is found at a place that holds it.
LEMMA Found ==
    ASSUME NEW k, Has(k)
    PROVE  Find(k) \in 1 .. Len(keys) /\ keys[Find(k)] = k
BY DEF Has, Positions, Find

\* Where no element occurs twice, an element is found where it is.
LEMMA FoundWhereItIs ==
    ASSUME NEW s, NEW n, NEW i \in 1 .. n, \A a, b \in 1 .. n : s[a] = s[b] => a = b
    PROVE  (CHOOSE j \in 1 .. n : s[j] = s[i]) = i
<1>1. \E j \in 1 .. n : s[j] = s[i]  OBVIOUS
<1> QED BY <1>1

-----------------------------------------------------------------------------
(* The arrays.                                                             *)

Inv == TypeOK /\ ArraysAgree

\* A map's value is replaced, or a key that is not held is appended, with its
\* value where there are any: what the later proofs need of a store.
LEMMA Storing ==
    ASSUME Inv, NEW k \in Keys, NEW v \in Values, Store(k, v)
    PROVE  /\ Inv'
           /\ Len(keys') >= Len(keys)
           /\ \A i \in 1 .. Len(keys) : keys'[i] = keys[i]
           /\ \A i \in 1 .. Len(keys') : i > Len(keys) => keys'[i] = k /\ ~Has(k)
<1> USE DEF Inv, TypeOK, ArraysAgree, IsMap
<1>1. CASE Has(k)
  <2>1. Find(k) \in 1 .. Len(keys)  BY <1>1, Found
  <2>2. IsMap => [vals EXCEPT ![Find(k)] = v] \in Seq(Values)
                  /\ Len([vals EXCEPT ![Find(k)] = v]) = Len(vals)
    BY <2>1
  <2>3. keys' = keys /\ kind' = kind /\ at' = at /\ seen' = seen  BY <1>1 DEF Store
  <2>4. vals' \in Seq(Values) /\ Len(vals') = Len(vals)  BY <1>1, <2>2 DEF Store
  <2>5. Inv'  BY <2>3, <2>4
  <2> QED BY <2>3, <2>5
<1>2. CASE ~Has(k)
  <2>1. /\ Append(keys, k) \in Seq(Keys) /\ Len(Append(keys, k)) = Len(keys) + 1
        /\ \A i \in 1 .. Len(keys) : Append(keys, k)[i] = keys[i]
        /\ Append(keys, k)[Len(keys) + 1] = k
    OBVIOUS
  <2>2. Append(vals, v) \in Seq(Values) /\ Len(Append(vals, v)) = Len(vals) + 1
    OBVIOUS
  <2>3. keys' = Append(keys, k) /\ vals' = IF IsMap THEN Append(vals, v) ELSE vals
    BY <1>2 DEF Store
  <2>4. \A i \in 1 .. Len(keys) : keys[i] # k  BY <1>2 DEF Has, Positions
  <2>5. TypeOK'  BY <2>1, <2>2, <2>3 DEF Store
  <2>6. ArraysAgree'
    <3>1. \A i, j \in 1 .. Len(keys') : keys'[i] = keys'[j] => i = j
      BY <2>1, <2>3, <2>4
    <3>2. IsMap' => Len(vals') = Len(keys')  BY <2>1, <2>2, <2>3 DEF Store
    <3> QED BY <3>1, <3>2
  <2> QED BY <1>2, <2>1, <2>3, <2>5, <2>6
<1> QED BY <1>1, <1>2

\* A deletion takes one element out and moves those after it down.
LEMMA Deleting ==
    ASSUME Inv, NEW k \in Keys, Delete(k)
    PROVE  /\ Inv'
           /\ Find(k) \in 1 .. Len(keys) /\ keys[Find(k)] = k
           /\ Len(keys') = Len(keys) - 1
           /\ \A j \in 1 .. Len(keys') :
                  keys'[j] = IF j < Find(k) THEN keys[j] ELSE keys[j + 1]
           /\ IsMap => \A j \in 1 .. Len(keys') :
                           vals'[j] = IF j < Find(k) THEN vals[j] ELSE vals[j + 1]
<1> USE DEF Inv, TypeOK, ArraysAgree, IsMap
<1>1. Find(k) \in 1 .. Len(keys) /\ keys[Find(k)] = k  BY Found DEF Delete
<1>2. keys' = CollectionRemove(keys, Find(k))  BY DEF Delete
<1>3. /\ keys' \in Seq(Keys) /\ Len(keys') = Len(keys) - 1
      /\ \A j \in 1 .. Len(keys') :
             keys'[j] = IF j < Find(k) THEN keys[j] ELSE keys[j + 1]
  BY <1>1, <1>2, Removed
<1>4. IsMap => /\ vals' \in Seq(Values) /\ Len(vals') = Len(vals) - 1
               /\ \A j \in 1 .. Len(vals') :
                      vals'[j] = IF j < Find(k) THEN vals[j] ELSE vals[j + 1]
  <2> SUFFICES ASSUME IsMap
               PROVE  /\ vals' \in Seq(Values) /\ Len(vals') = Len(vals) - 1
                      /\ \A j \in 1 .. Len(vals') :
                             vals'[j] = IF j < Find(k) THEN vals[j] ELSE vals[j + 1]
    OBVIOUS
  <2>1. vals' = CollectionRemove(vals, Find(k))  BY DEF Delete
  <2>2. Find(k) \in 1 .. Len(vals)  BY <1>1
  <2> QED BY <2>1, <2>2, Removed
<1>5. ~IsMap => vals' = vals  BY DEF Delete
<1>6. TypeOK'  BY <1>3, <1>4, <1>5 DEF Delete
<1>7. \A i, j \in 1 .. Len(keys') : keys'[i] = keys'[j] => i = j  BY <1>1, <1>3
<1>8. IsMap' => Len(vals') = Len(keys')  BY <1>3, <1>4 DEF Delete
<1> QED BY <1>1, <1>3, <1>4, <1>6, <1>7, <1>8

\* Every step keeps the types, each key once and a map's values beside their
\* keys.
LEMMA InvStep == Inv /\ [CollectionNext]_collection => Inv'
<1> SUFFICES ASSUME Inv, [CollectionNext]_collection PROVE Inv'
  OBVIOUS
<1>1. ASSUME NEW k \in Keys, NEW v \in Values, Store(k, v) PROVE Inv'
  BY <1>1, Storing
<1>2. ASSUME NEW k \in Keys, Delete(k) PROVE Inv'
  BY <1>2, Deleting
<1>3. CASE Clear  BY <1>3 DEF Clear, Inv, TypeOK, ArraysAgree, IsMap
<1>4. ASSUME NEW w \in Walkers, Walk(w) PROVE Inv'
  BY <1>4 DEF Walk, Inv, TypeOK, ArraysAgree, IsMap
<1>5. ASSUME NEW w \in Walkers, Step(w) PROVE Inv'
  BY <1>5 DEF Step, Inv, TypeOK, ArraysAgree, IsMap
<1>6. CASE UNCHANGED collection
  BY <1>6 DEF collection, Inv, TypeOK, ArraysAgree, IsMap
<1> QED BY <1>1, <1>2, <1>3, <1>4, <1>5, <1>6 DEF CollectionNext

LEMMA InvCorrect == CollectionSpec => []Inv
<1>1. CollectionInit => Inv  BY DEF CollectionInit, Inv, TypeOK, ArraysAgree
<1> QED BY <1>1, InvStep, PTL DEF CollectionSpec

\* The arrays and the walkers keep their types (collection_native).
THEOREM TypeCorrect == CollectionSpec => []TypeOK
<1>1. Inv => TypeOK  BY DEF Inv
<1> QED BY <1>1, InvCorrect, PTL

\* A key is held once and a map's values stay beside their keys, whatever is
\* stored and removed (MAP_SET, collection_remove).
THEOREM ArraysCorrect == CollectionSpec => []ArraysAgree
<1>1. Inv => ArraysAgree  BY DEF Inv
<1> QED BY <1>1, InvCorrect, PTL
-----------------------------------------------------------------------------
(* The walkers.                                                            *)

\* A step keeps what each walker has produced behind its index.
LEMMA SeenBehindStep ==
    ASSUME Inv, SeenBehind, [CollectionNext]_collection
    PROVE  SeenBehind'
<1>1. ASSUME NEW k \in Keys, NEW v \in Values, Store(k, v) PROVE SeenBehind'
  <2>1. /\ Len(keys') >= Len(keys) /\ Len(keys') \in Nat /\ Len(keys) \in Nat
        /\ \A i \in 1 .. Len(keys) : keys'[i] = keys[i]
    BY <1>1, Storing DEF Inv, TypeOK
  <2>2. at' = at /\ seen' = seen  BY <1>1 DEF Store
  <2> QED BY <2>1, <2>2 DEF SeenBehind
<1>2. ASSUME NEW k \in Keys, Delete(k) PROVE SeenBehind'
  <2>1. /\ Find(k) \in 1 .. Len(keys) /\ keys[Find(k)] = k
        /\ Len(keys') = Len(keys) - 1 /\ Len(keys) \in Nat
        /\ \A j \in 1 .. Len(keys') :
               keys'[j] = IF j < Find(k) THEN keys[j] ELSE keys[j + 1]
    BY <1>2, Deleting DEF Inv, TypeOK
  <2>2. at' = at /\ seen' = [w \in Walkers |-> seen[w] \ {k}] /\ at \in [Walkers -> Nat]
    BY <1>2 DEF Delete, Inv, TypeOK
  <2> SUFFICES ASSUME NEW w \in Walkers, NEW x \in seen'[w]
               PROVE  \E i \in 1 .. Len(keys') : i <= at'[w] /\ keys'[i] = x
    BY DEF SeenBehind
  <2>3. x \in seen[w] /\ x # k  BY <2>2
  <2>4. PICK i \in 1 .. Len(keys) : i <= at[w] /\ keys[i] = x  BY <2>3 DEF SeenBehind
  <2>5. i # Find(k)  BY <2>1, <2>3, <2>4
  <2>6. CASE i < Find(k)
    <3>1. i \in 1 .. Len(keys') /\ keys'[i] = keys[i]  BY <2>1, <2>6
    <3> QED BY <2>2, <2>4, <3>1
  <2>7. CASE i > Find(k)
    <3>1. i - 1 \in 1 .. Len(keys') /\ keys'[i - 1] = keys[i]  BY <2>1, <2>7
    <3>2. i - 1 <= at[w]  BY <2>2, <2>4
    <3> QED BY <2>2, <2>4, <3>1, <3>2
  <2> QED BY <2>1, <2>5, <2>6, <2>7
<1>3. CASE Clear  BY <1>3 DEF Clear, SeenBehind
<1>4. ASSUME NEW w \in Walkers, Walk(w) PROVE SeenBehind'
  <2>1. keys' = keys  BY <1>4 DEF Walk
  <2> SUFFICES ASSUME NEW u \in Walkers, NEW x \in seen'[u]
               PROVE  \E i \in 1 .. Len(keys) : i <= at'[u] /\ keys[i] = x
    BY <2>1 DEF SeenBehind
  <2>2. u # w /\ x \in seen[u] /\ at'[u] = at[u]  BY <1>4 DEF Walk, Inv, TypeOK
  <2> QED BY <2>2 DEF SeenBehind
<1>5. ASSUME NEW w \in Walkers, Step(w) PROVE SeenBehind'
  <2>1. keys' = keys /\ at[w] < Len(keys) /\ Len(keys) \in Nat /\ at \in [Walkers -> Nat]
    BY <1>5 DEF Step, Inv, TypeOK
  <2> SUFFICES ASSUME NEW u \in Walkers, NEW x \in seen'[u]
               PROVE  \E i \in 1 .. Len(keys) : i <= at'[u] /\ keys[i] = x
    BY <2>1 DEF SeenBehind
  <2>2. CASE x \in seen[u]
    <3>1. at'[u] >= at[u] /\ at'[u] \in Nat  BY <1>5, <2>1 DEF Step
    <3> QED BY <2>1, <2>2, <3>1 DEF SeenBehind
  <2>3. CASE x \notin seen[u]
    <3>1. u = w /\ x = keys[at[w] + 1] /\ at'[w] = at[w] + 1
      BY <1>5, <2>3 DEF Step, Inv, TypeOK
    <3>2. at[w] + 1 \in 1 .. Len(keys)  BY <2>1
    <3> QED BY <2>1, <3>1, <3>2
  <2> QED BY <2>2, <2>3
<1>6. CASE UNCHANGED collection  BY <1>6 DEF collection, SeenBehind
<1> QED BY <1>1, <1>2, <1>3, <1>4, <1>5, <1>6 DEF CollectionNext

\* No walker produces a member twice while the member stays, whatever is added
\* and deleted between its steps (iterator_native_step, collection_remove).
THEOREM NeverTwiceCorrect == CollectionSpec => []NeverTwice
<1>1. CollectionInit => SeenBehind  BY DEF CollectionInit, SeenBehind
<1>2. Inv /\ SeenBehind /\ [CollectionNext]_collection => SeenBehind'
  BY SeenBehindStep
<1>3. Inv /\ SeenBehind => NeverTwice
  <2> SUFFICES ASSUME Inv, SeenBehind, NEW w \in Walkers, at[w] < Len(keys),
                      keys[at[w] + 1] \in seen[w]
               PROVE  FALSE
    BY DEF NeverTwice
  <2>1. PICK i \in 1 .. Len(keys) : i <= at[w] /\ keys[i] = keys[at[w] + 1]
    BY DEF SeenBehind
  <2>2. at[w] \in Nat /\ Len(keys) \in Nat  BY DEF Inv, TypeOK
  <2>3. at[w] + 1 \in 1 .. Len(keys)  BY <2>2
  <2>4. i = at[w] + 1  BY <2>1, <2>3 DEF Inv, ArraysAgree
  <2> QED BY <2>1, <2>2, <2>4
<1> QED BY <1>1, <1>2, <1>3, InvCorrect, PTL DEF CollectionSpec

-----------------------------------------------------------------------------
(* Order.                                                                  *)

\* No step puts a member ahead of one that was ahead of it ("keeping insertion
\* order", collection_remove).
THEOREM OrderCorrect == CollectionSpec => OrderKept
<1> DEFINE Kept == \A i, j \in 1 .. Len(keys) :
                       i < j => ~\E p, q \in 1 .. Len(keys') :
                                    p < q /\ keys'[p] = keys[j] /\ keys'[q] = keys[i]
<1>1. Inv /\ [CollectionNext]_collection => [Kept]_collection
  <2> SUFFICES ASSUME Inv, CollectionNext,
                      NEW i \in 1 .. Len(keys), NEW j \in 1 .. Len(keys), i < j,
                      NEW p \in 1 .. Len(keys'), NEW q \in 1 .. Len(keys'), p < q,
                      keys'[p] = keys[j], keys'[q] = keys[i]
               PROVE  FALSE
    OBVIOUS
  <2> USE DEF Inv, TypeOK, ArraysAgree
  <2>1. Len(keys) \in Nat  OBVIOUS
  <2>2. ASSUME NEW k \in Keys, NEW v \in Values, Store(k, v) PROVE FALSE
    <3>1. /\ Len(keys') >= Len(keys) /\ Len(keys') \in Nat
          /\ \A n \in 1 .. Len(keys) : keys'[n] = keys[n]
          /\ \A a, b \in 1 .. Len(keys') : keys'[a] = keys'[b] => a = b
      BY <2>2, Storing
    <3>2. i \in 1 .. Len(keys') /\ j \in 1 .. Len(keys')  BY <2>1, <3>1
    <3>3. p = j /\ q = i  BY <3>1, <3>2
    <3> QED BY <3>3
  <2>3. ASSUME NEW k \in Keys, Delete(k) PROVE FALSE
    <3>1. /\ Find(k) \in 1 .. Len(keys) /\ Len(keys') = Len(keys) - 1
          /\ \A n \in 1 .. Len(keys') :
                 keys'[n] = IF n < Find(k) THEN keys[n] ELSE keys[n + 1]
      BY <2>3, Deleting
    <3> DEFINE a == IF p < Find(k) THEN p ELSE p + 1
               b == IF q < Find(k) THEN q ELSE q + 1
    <3>2. a \in 1 .. Len(keys) /\ b \in 1 .. Len(keys) /\ a < b  BY <2>1, <3>1
    <3>3. keys[a] = keys[j] /\ keys[b] = keys[i]  BY <2>1, <3>1
    <3>4. a = j /\ b = i  BY <3>2, <3>3
    <3> QED BY <3>2, <3>4
  <2>4. CASE Clear  BY <2>4 DEF Clear
  <2>5. ASSUME keys' = keys PROVE FALSE
    <3>1. p = j /\ q = i  BY <2>5
    <3> QED BY <3>1
  <2> QED BY <2>2, <2>3, <2>4, <2>5 DEF CollectionNext, Walk, Step
<1> QED BY <1>1, InvCorrect, PTL DEF CollectionSpec, OrderKept
-----------------------------------------------------------------------------
(* The map the arrays stand for.                                           *)

Map == [k \in Held |-> ValueOf(k)]

\* The value of the key at a place is the value at that place.
LEMMA ValueAt ==
    ASSUME Inv, NEW i \in 1 .. Len(keys)
    PROVE  /\ keys[i] \in Held
           /\ ValueOf(keys[i]) = IF IsMap THEN vals[i] ELSE Unit
<1>1. Find(keys[i]) = i  BY FoundWhereItIs DEF Inv, ArraysAgree, Find
<1> QED BY <1>1 DEF Held, ValueOf

\* The same after a step that keeps the invariant.
LEMMA ValueAtNext ==
    ASSUME Inv', NEW CONSTANT z, NEW CONSTANT i \in 1 .. Len(keys'), keys'[i] = z
    PROVE  /\ z \in Held'
           /\ ValueOf(z)' = IF IsMap' THEN vals'[i] ELSE Unit
<1>1. (CHOOSE j \in 1 .. Len(keys') : keys'[j] = keys'[i]) = i
  BY FoundWhereItIs DEF Inv, ArraysAgree
<1>2. Find(z)' = i  BY <1>1 DEF Find
<1>3. z \in Held'  BY DEF Held
<1> QED BY <1>2, <1>3 DEF ValueOf

\* Storing is putting.
LEMMA StorePuts ==
    ASSUME Inv, NEW k \in Keys, NEW v \in Values, Store(k, v)
    PROVE  \E x \in Keys, y \in Values \cup {Unit} : Stored!Put(x, y)
<1> DEFINE y == IF IsMap THEN v ELSE Unit
<1>1. /\ Inv' /\ Len(keys') >= Len(keys) /\ Len(keys) \in Nat /\ Len(keys') \in Nat
      /\ \A i \in 1 .. Len(keys) : keys'[i] = keys[i]
      /\ \A i \in 1 .. Len(keys') : i > Len(keys) => keys'[i] = k /\ ~Has(k)
  <2>1. Inv'  BY Storing
  <2>2. keys \in Seq(Keys) /\ keys' \in Seq(Keys)  BY <2>1 DEF Inv, TypeOK
  <2>3. Len(keys) \in Nat /\ Len(keys') \in Nat  BY <2>2
  <2>4. Len(keys') >= Len(keys)  BY Storing
  <2>5. /\ \A i \in 1 .. Len(keys) : keys'[i] = keys[i]
        /\ \A i \in 1 .. Len(keys') : i > Len(keys) => keys'[i] = k /\ ~Has(k)
    BY Storing
  <2> QED BY <2>1, <2>3, <2>4, <2>5
<1>2. kind' = kind  BY DEF Store
<1>3. PICK n \in 1 .. Len(keys') : keys'[n] = k /\ (IsMap => vals'[n] = v)
  <2>1. CASE Has(k)
    <3>1. Find(k) \in 1 .. Len(keys) /\ keys[Find(k)] = k  BY <2>1, Found
    <3>2. IsMap => vals'[Find(k)] = v
      BY <2>1, <3>1 DEF Store, Inv, TypeOK, ArraysAgree
    <3> QED BY <1>1, <3>1, <3>2
  <2>2. CASE ~Has(k)
    <3>1. keys' = Append(keys, k) /\ Len(keys') = Len(keys) + 1 /\ keys'[Len(keys) + 1] = k
      BY <2>2 DEF Store, Inv, TypeOK
    <3>2. IsMap => vals'[Len(keys) + 1] = v
      BY <2>2 DEF Store, Inv, TypeOK, ArraysAgree
    <3> QED BY <1>1, <3>1, <3>2
  <2> QED BY <2>1, <2>2
<1>4. \A i \in 1 .. Len(keys) : IsMap /\ keys[i] # k => vals'[i] = vals[i]
  <2>1. CASE Has(k)
    <3>1. Find(k) \in 1 .. Len(keys) /\ keys[Find(k)] = k  BY <2>1, Found
    <3> QED BY <2>1, <3>1 DEF Store, Inv, TypeOK, ArraysAgree
  <2>2. CASE ~Has(k)
    BY <2>2 DEF Store, Inv, TypeOK, ArraysAgree
  <2> QED BY <2>1, <2>2
<1>5. Held' = Held \cup {k}
  <2>1. ASSUME NEW z \in Held' PROVE z \in Held \cup {k}
    <3>1. PICK i \in 1 .. Len(keys') : z = keys'[i]  BY DEF Held
    <3>2. CASE i <= Len(keys)  BY <1>1, <3>1, <3>2 DEF Held
    <3>3. CASE i > Len(keys)  BY <1>1, <3>1, <3>3
    <3> QED BY <1>1, <3>2, <3>3
  <2>2. ASSUME NEW z \in Held \cup {k} PROVE z \in Held'
    <3>1. CASE z = k  BY <1>3, <3>1 DEF Held
    <3>2. CASE z \in Held
      <4>1. PICK i \in 1 .. Len(keys) : z = keys[i]  BY <3>2 DEF Held
      <4> QED BY <1>1, <4>1 DEF Held
    <3> QED BY <3>1, <3>2
  <2> QED BY <2>1, <2>2
<1>6. ASSUME NEW z \in Held'
      PROVE  ValueOf(z)' = IF z = k THEN y ELSE ValueOf(z)
  <2>1. CASE z = k  BY <1>1, <1>2, <1>3, <2>1, ValueAtNext DEF IsMap
  <2>2. CASE z # k
    <3>1. z \in Held  BY <1>5, <2>2
    <3>2. PICK i \in 1 .. Len(keys) : z = keys[i]  BY <3>1 DEF Held
    <3>3. i \in 1 .. Len(keys') /\ z = keys'[i]  BY <1>1, <3>2
    <3>4. ValueOf(z)' = IF IsMap' THEN vals'[i] ELSE Unit  BY <1>1, <3>3, ValueAtNext
    <3>5. ValueOf(z) = IF IsMap THEN vals[i] ELSE Unit  BY <3>2, ValueAt
    <3> QED BY <1>2, <1>4, <2>2, <3>2, <3>4, <3>5 DEF IsMap
  <2> QED BY <2>1, <2>2
<1>7. Map' = [z \in Held \cup {k} |-> IF z = k THEN y ELSE Map[z]]
  BY <1>5, <1>6 DEF Map
<1>8. Stored!Put(k, y)  BY <1>7 DEF Stored!Put, Map
<1> QED BY <1>8

\* Deleting is removing.
LEMMA DeleteRemoves ==
    ASSUME Inv, NEW k \in Keys, Delete(k)
    PROVE  Stored!Remove(k)
<1>1. /\ Inv' /\ Find(k) \in 1 .. Len(keys) /\ keys[Find(k)] = k
      /\ Len(keys') = Len(keys) - 1 /\ Len(keys) \in Nat
      /\ \A j \in 1 .. Len(keys') :
             keys'[j] = IF j < Find(k) THEN keys[j] ELSE keys[j + 1]
      /\ IsMap => \A j \in 1 .. Len(keys') :
                      vals'[j] = IF j < Find(k) THEN vals[j] ELSE vals[j + 1]
      /\ kind' = kind
  BY Deleting DEF Delete, Inv, TypeOK
<1>2. ASSUME NEW CONSTANT z, NEW CONSTANT j \in 1 .. Len(keys'), keys'[j] = z
      PROVE  z \in Held \ {k} /\ ValueOf(z)' = ValueOf(z)
  <2> DEFINE i == IF j < Find(k) THEN j ELSE j + 1
  <2>1. i \in 1 .. Len(keys) /\ i # Find(k) /\ z = keys[i]  BY <1>1, <1>2
  <2>2. keys[i] # k  BY <1>1, <2>1 DEF Inv, ArraysAgree
  <2>3. ValueOf(keys[i]) = IF IsMap THEN vals[i] ELSE Unit  BY <2>1, ValueAt
  <2>4. ValueOf(z)' = IF IsMap' THEN vals'[j] ELSE Unit  BY <1>1, <1>2, ValueAtNext
  <2>5. IsMap => vals'[j] = vals[i]  BY <1>1
  <2>6. keys[i] \in Held  BY <2>1 DEF Held
  <2> QED BY <1>1, <2>1, <2>2, <2>3, <2>4, <2>5, <2>6 DEF IsMap
<1>3. ASSUME NEW z \in Held \ {k} PROVE z \in Held'
  <2>1. PICK i \in 1 .. Len(keys) : z = keys[i]  BY DEF Held
  <2>2. i # Find(k)  BY <1>1, <2>1
  <2>3. CASE i < Find(k)
    <3>1. i \in 1 .. Len(keys') /\ keys'[i] = z  BY <1>1, <2>1, <2>3
    <3> QED BY <3>1 DEF Held
  <2>4. CASE i > Find(k)
    <3>1. i - 1 \in 1 .. Len(keys') /\ keys'[i - 1] = z  BY <1>1, <2>1, <2>4
    <3> QED BY <3>1 DEF Held
  <2> QED BY <1>1, <2>2, <2>3, <2>4
<1>4. ASSUME NEW z \in Held' PROVE z \in Held \ {k} /\ ValueOf(z)' = ValueOf(z)
  <2>1. PICK j \in 1 .. Len(keys') : z = keys'[j]  BY DEF Held
  <2> QED BY <1>2, <2>1
<1>5. Held' = Held \ {k}  BY <1>3, <1>4
<1>6. k \in Held  BY <1>1 DEF Held
<1>7. Map' = [z \in Held \ {k} |-> Map[z]]  BY <1>4, <1>5 DEF Map
<1> QED BY <1>6, <1>7 DEF Stored!Remove, Map

\* The hidden arrays implement the map they stand for: a key has the value it
\* was last given until it is removed, and iteration changes nothing
\* (collection_native).
THEOREM StoreCorrect == CollectionSpec => ImplementsKeyedStore
<1>1. CollectionInit => Stored!Init
  <2> SUFFICES ASSUME CollectionInit PROVE Map = Stored!Empty
    BY DEF Stored!Init, Map
  <2>1. Held = {}  BY DEF CollectionInit, Held
  <2> QED BY <2>1 DEF Map, Stored!Empty
<1>2. Inv /\ [CollectionNext]_collection => [Stored!Next]_Map
  <2> SUFFICES ASSUME Inv, [CollectionNext]_collection PROVE Stored!Next \/ Map' = Map
    OBVIOUS
  <2>1. ASSUME NEW k \in Keys, NEW v \in Values, Store(k, v) PROVE Stored!Next
    BY <2>1, StorePuts DEF Stored!Next
  <2>2. ASSUME NEW k \in Keys, Delete(k) PROVE Stored!Next
    BY <2>2, DeleteRemoves DEF Stored!Next
  <2>3. CASE Clear
    <3>1. Held' = {}  BY <2>3 DEF Clear, Held
    <3>2. Map' = Stored!Empty  BY <3>1 DEF Map, Stored!Empty
    <3> QED BY <3>2 DEF Stored!Next, Stored!Clear, Map
  <2>4. ASSUME UNCHANGED <<kind, keys, vals>> PROVE Map' = Map
    BY <2>4 DEF Map, Held, ValueOf, Find, IsMap
  <2> QED BY <2>1, <2>2, <2>3, <2>4 DEF CollectionNext, Walk, Step, collection
<1>3. ImplementsKeyedStore <=> Stored!Init /\ [][Stored!Next]_Map
  BY DEF ImplementsKeyedStore, Stored!Spec, Map
<1> QED BY <1>1, <1>2, <1>3, InvCorrect, PTL DEF CollectionSpec
=============================================================================
