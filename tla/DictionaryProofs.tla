-------------------------- MODULE DictionaryProofs --------------------------
(***************************************************************************)
(* Proofs about Dictionary, for every set of names and values and every    *)
(* number of items: the invariants, and that the items implement a map.    *)
(***************************************************************************)
EXTENDS Dictionary, Integers, FiniteSetTheorems, TLAPS

\* The index and the unmarked items of the list are each other's inverse.
IndexInv ==
    /\ IsFiniteSet(DOMAIN index)
    /\ \A k \in DOMAIN index : index[k] \notin deleted /\ name[index[k]] = k
    /\ \A i \in list \ deleted : name[i] \in DOMAIN index /\ index[name[i]] = i

\* The traversal is the only one to hold a reference between two calls.
RefInv ==
    /\ cursor \in list \cup {0}
    /\ ~traversing => cursor = 0
    /\ destroyed => ~traversing
    /\ \A i \in list : refcount[i] = IF i = cursor THEN 1 ELSE 0

CountInv ==
    /\ entries = Cardinality(DOMAIN index)
    /\ referenced_items = IF cursor = 0 THEN 0 ELSE 1
    /\ pending_deletion_items = Cardinality(deleted \ {cursor})

Inv == TypeOK /\ IndexInv /\ RefInv /\ CountInv /\ OneItemPerName

-----------------------------------------------------------------------------
\* The list is finite and NULL is not in it.
LEMMA ListFinite ==
    ASSUME TypeOK
    PROVE  IsFiniteSet(list) /\ IsFiniteSet(deleted) /\ 0 \notin list
<1>1. IsFiniteSet(1..created)
  <2>1. 1 \in Int /\ created \in Int
    BY DEF TypeOK
  <2> QED
    BY <2>1, FS_Interval
<1>2. IsFiniteSet(list) /\ 0 \notin list
  BY <1>1, FS_Subset DEF TypeOK
<1> QED
  BY <1>2, FS_Subset DEF TypeOK

\* The first Cardinality(S) elements of S are all of S.
LEMMA FirstItemsAll ==
    ASSUME NEW S, IsFiniteSet(S)
    PROVE  FirstItems(S, Cardinality(S)) = S
<1> SUFFICES ASSUME NEW i \in S
             PROVE  Cardinality({j \in S : j =< i}) =< Cardinality(S)
  BY DEF FirstItems
<1>1. {j \in S : j =< i} \subseteq S
  OBVIOUS
<1> QED
  BY <1>1, FS_Subset

\* The collector frees every marked item that is not referenced, and leaves
\* nothing pending.
LEMMA GarbageAll ==
    ASSUME TypeOK, RefInv, CountInv, NEW rest, deleted \subseteq rest, rest \subseteq list
    PROVE  /\ Garbage(rest) = deleted \ {cursor}
           /\ pending_deletion_items - Cardinality(Garbage(rest)) = 0
<1> DEFINE S == {i \in rest \cap deleted : refcount[i] = 0}
<1>1. S = deleted \ {cursor}
  BY DEF TypeOK, RefInv
<1>2. IsFiniteSet(S)
  BY <1>1, ListFinite, FS_Subset
<1>3. pending_deletion_items = Cardinality(S)
  BY <1>1 DEF CountInv
<1>4. Garbage(rest) = S
  BY <1>2, <1>3, FirstItemsAll DEF Garbage
<1>5. Cardinality(S) \in Nat
  BY <1>2, FS_CardinalityType
<1> QED
  BY <1>1, <1>3, <1>4, <1>5

-----------------------------------------------------------------------------
\* An empty dictionary satisfies the invariant.
LEMMA InvInit == Init => Inv
<1> SUFFICES ASSUME Init PROVE Inv
  OBVIOUS
<1>1. DOMAIN index = {} /\ deleted \ {cursor} = {}
  BY DEF Init
<1>2. IndexInv /\ CountInv
  BY <1>1, FS_EmptySet DEF Init, IndexInv, CountInv
<1>3. TypeOK /\ RefInv /\ OneItemPerName
  BY DEF Init, TypeOK, RefInv, OneItemPerName
<1> QED
  BY <1>2, <1>3 DEF Inv

\* A new item, after the collector has run.
LEMMA SetNewStep ==
    ASSUME Inv, NEW k \in Keys, NEW v \in Values, ~traversing, ~destroyed,
           SetNew(k, v), UNCHANGED <<loop, destroyed>>
    PROVE  Inv'
<1> DEFINE i == created + 1
<1> USE DEF loop
<1>0. cursor = 0 /\ cursor' = 0 /\ 0 \notin deleted
  BY ListFinite DEF Inv, RefInv, TypeOK
<1>1. Garbage(list) = deleted /\ pending_deletion_items' = 0
  BY <1>0, GarbageAll DEF Inv, TypeOK, SetNew
<1>2. /\ list' = (list \ deleted) \cup {i}
      /\ deleted' = {}
      /\ created' = i /\ i \in Nat /\ i \notin list
  BY <1>1 DEF Inv, TypeOK, SetNew
<1>3. /\ index' = [x \in DOMAIN index \cup {k} |-> IF x = k THEN i ELSE index[x]]
      /\ k \notin DOMAIN index
      /\ entries' = entries + 1 /\ referenced_items' = referenced_items
  BY DEF SetNew
<1>4. /\ name' = [j \in list' |-> IF j = i THEN k ELSE name[j]]
      /\ value' = [j \in list' |-> IF j = i THEN v ELSE value[j]]
      /\ refcount' = [j \in list' |-> IF j = i THEN 0 ELSE refcount[j]]
  BY DEF SetNew
<1>5. TypeOK'
  <2>1. created' \in Nat /\ list' \subseteq 1..created' /\ deleted' \subseteq list'
    BY <1>2 DEF Inv, TypeOK
  <2>2. name' \in [list' -> Keys] /\ value' \in [list' -> Values]
    BY <1>2, <1>4 DEF Inv, TypeOK
  <2>3. refcount' \in [list' -> Nat]
    BY <1>2, <1>4 DEF Inv, TypeOK
  <2>4. DOMAIN index' \subseteq Keys /\ index' \in [DOMAIN index' -> list']
    BY <1>2, <1>3 DEF Inv, TypeOK, IndexInv
  <2> QED
    BY <2>1, <2>2, <2>3, <2>4, <1>0, <1>1, <1>3 DEF Inv, TypeOK
<1>6. IndexInv'
  <2>1. IsFiniteSet(DOMAIN index')
    BY <1>3, FS_AddElement DEF Inv, IndexInv
  <2>2. ASSUME NEW x \in DOMAIN index'
        PROVE  index'[x] \notin deleted' /\ name'[index'[x]] = x
    BY <1>2, <1>3, <1>4 DEF Inv, IndexInv, TypeOK
  <2>3. ASSUME NEW j \in list' \ deleted'
        PROVE  name'[j] \in DOMAIN index' /\ index'[name'[j]] = j
    BY <1>2, <1>3, <1>4 DEF Inv, IndexInv, TypeOK
  <2> QED
    BY <2>1, <2>2, <2>3 DEF IndexInv
<1>7. RefInv'
  BY <1>0, <1>2, <1>4 DEF Inv, RefInv, TypeOK
<1>8. CountInv'
  <2>1. entries' = Cardinality(DOMAIN index')
    BY <1>3, FS_AddElement DEF Inv, CountInv, IndexInv
  <2> QED
    BY <2>1, <1>0, <1>1, <1>2, <1>3, FS_EmptySet DEF Inv, CountInv
<1>9. OneItemPerName'
  BY <1>2, <1>3, <1>4 DEF Inv, OneItemPerName, IndexInv
<1> QED
  BY <1>5, <1>6, <1>7, <1>8, <1>9 DEF Inv

\* A value replaced in place.
LEMMA SetValueStep ==
    ASSUME Inv, NEW k \in Keys, NEW v \in Values, ~traversing,
           SetValue(k, v), UNCHANGED <<loop, destroyed>>
    PROVE  Inv'
<1> USE DEF SetValue, loop, counters
<1>1. TypeOK'
  BY DEF Inv, TypeOK
<1>2. IndexInv' /\ RefInv' /\ CountInv' /\ OneItemPerName'
  BY DEF Inv, IndexInv, RefInv, CountInv, OneItemPerName
<1> QED
  BY <1>1, <1>2 DEF Inv

\* A deleted name, whose item is freed or only marked.
LEMMA DelStep ==
    ASSUME Inv, NEW k \in Keys, dictionary_del(k)
    PROVE  Inv'
<1> DEFINE d == index[k]
<1> USE DEF loop
<1>1. /\ k \in DOMAIN index /\ d \in list /\ d \notin deleted /\ name[d] = k
      /\ index' = [x \in DOMAIN index \ {k} |-> index[x]]
      /\ \A x \in DOMAIN index : x # k => index[x] # d
      /\ created' = created /\ referenced_items' = referenced_items
      /\ cursor' = cursor /\ traversing' = traversing /\ destroyed' = destroyed
      /\ entries' = entries - 1
  BY DEF Inv, TypeOK, IndexInv, dictionary_del
<1>2. /\ IsFiniteSet(DOMAIN index')
      /\ entries' = Cardinality(DOMAIN index') /\ entries' \in Nat
  <2>1. DOMAIN index' = DOMAIN index \ {k}
    BY <1>1
  <2>2. IsFiniteSet(DOMAIN index') /\ entries' = Cardinality(DOMAIN index')
    BY <1>1, <2>1, FS_RemoveElement DEF Inv, IndexInv, CountInv
  <2> QED
    BY <2>2, FS_CardinalityType
<1>3. CASE FreeItem(d)
  <2>1. /\ Garbage(list \ {d}) = deleted \ {cursor}
        /\ pending_deletion_items' = 0
    BY <1>1, <1>3, GarbageAll DEF Inv, TypeOK, FreeItem
  <2>2. /\ list' = (list \ {d}) \ (deleted \ {cursor})
        /\ deleted' = deleted \cap {cursor}
        /\ name' = [j \in list' |-> name[j]]
        /\ value' = [j \in list' |-> value[j]]
        /\ refcount' = [j \in list' |-> refcount[j]]
    BY <1>1, <1>3, <2>1 DEF FreeItem, Inv, TypeOK
  <2>3. d # cursor
    BY <1>1, <1>3 DEF FreeItem, Inv, RefInv
  <2>4. TypeOK'
    <3>1. list' \subseteq 1..created' /\ deleted' \subseteq list'
      BY <1>1, <2>2, <2>3 DEF Inv, TypeOK
    <3>2. name' \in [list' -> Keys] /\ value' \in [list' -> Values]
      BY <2>2 DEF Inv, TypeOK
    <3>3. refcount' \in [list' -> Nat]
      BY <2>2 DEF Inv, TypeOK
    <3>4. DOMAIN index' \subseteq Keys /\ index' \in [DOMAIN index' -> list']
      BY <1>1, <2>2 DEF Inv, TypeOK, IndexInv
    <3> QED
      BY <3>1, <3>2, <3>3, <3>4, <1>1, <1>2, <2>1 DEF Inv, TypeOK
  <2>5. IndexInv'
    <3>1. ASSUME NEW x \in DOMAIN index'
          PROVE  index'[x] \notin deleted' /\ name'[index'[x]] = x
      BY <1>1, <2>2 DEF Inv, IndexInv, TypeOK
    <3>2. ASSUME NEW j \in list' \ deleted'
          PROVE  name'[j] \in DOMAIN index' /\ index'[name'[j]] = j
      BY <1>1, <2>2 DEF Inv, IndexInv, TypeOK
    <3> QED
      BY <1>2, <3>1, <3>2 DEF IndexInv
  <2>6. RefInv'
    BY <1>1, <2>2, <2>3 DEF Inv, RefInv, TypeOK
  <2>7. CountInv'
    <3>1. deleted' \ {cursor'} = {}
      BY <1>1, <2>2
    <3> QED
      BY <1>1, <1>2, <2>1, <3>1, FS_EmptySet DEF Inv, CountInv
  <2>8. OneItemPerName'
    BY <2>2 DEF Inv, OneItemPerName
  <2> QED
    BY <2>4, <2>5, <2>6, <2>7, <2>8 DEF Inv
<1>4. CASE MarkDeleted(d)
  <2>1. /\ d = cursor
        /\ deleted' = deleted \cup {d}
        /\ UNCHANGED <<list, name, value, refcount, pending_deletion_items>>
    BY <1>1, <1>4 DEF MarkDeleted, fields, Inv, RefInv
  <2>2. TypeOK'
    <3>1. DOMAIN index' \subseteq Keys /\ index' \in [DOMAIN index' -> list']
      BY <1>1, <2>1 DEF Inv, TypeOK
    <3> QED
      BY <3>1, <1>1, <1>2, <2>1 DEF Inv, TypeOK
  <2>3. IndexInv'
    <3>1. ASSUME NEW x \in DOMAIN index'
          PROVE  index'[x] \notin deleted' /\ name'[index'[x]] = x
      BY <1>1, <2>1 DEF Inv, IndexInv, TypeOK
    <3>2. ASSUME NEW j \in list' \ deleted'
          PROVE  name'[j] \in DOMAIN index' /\ index'[name'[j]] = j
      BY <1>1, <2>1 DEF Inv, IndexInv, OneItemPerName, TypeOK
    <3> QED
      BY <1>2, <3>1, <3>2 DEF IndexInv
  <2>4. RefInv'
    BY <1>1, <2>1 DEF Inv, RefInv
  <2>5. CountInv'
    <3>1. deleted' \ {cursor'} = deleted \ {cursor}
      BY <1>1, <2>1
    <3> QED
      BY <1>1, <1>2, <2>1, <3>1 DEF Inv, CountInv
  <2>6. OneItemPerName'
    BY <2>1 DEF Inv, OneItemPerName
  <2> QED
    BY <2>2, <2>3, <2>4, <2>5, <2>6 DEF Inv
<1> QED
  BY <1>3, <1>4 DEF dictionary_del

\* The traversal moves to an unmarked item it does not stand on, or to the end.
LEMMA MoveStep ==
    ASSUME Inv, NEW n \in (list \ deleted) \cup {0}, n = 0 \/ n # cursor, MoveTo(n),
           traversing' = TRUE, ~destroyed
    PROVE  Inv'
<1>1. /\ UNCHANGED <<index, list, created, name, value, deleted, entries, destroyed>>
      /\ cursor' = n
      /\ 0 \notin list /\ 0 \notin deleted /\ n \notin deleted
  BY ListFinite DEF Inv, TypeOK, MoveTo
<1>2. \A i \in list : refcount'[i] = IF i = n THEN 1 ELSE 0
  <2> SUFFICES ASSUME NEW i \in list PROVE refcount'[i] = IF i = n THEN 1 ELSE 0
    OBVIOUS
  <2>1. refcount[i] = IF i = cursor THEN 1 ELSE 0
    BY DEF Inv, RefInv
  <2>2. refcount'[i] = refcount[i] + (IF i = n THEN 1 ELSE 0) - (IF i = cursor THEN 1 ELSE 0)
    BY DEF MoveTo
  <2>3. i = n => i # cursor
    BY <1>1
  <2> QED
    BY <2>1, <2>2, <2>3
<1>3. refcount' = [i \in list |-> IF i = n THEN 1 ELSE 0]
  <2>1. DOMAIN refcount' = list /\ refcount' = [i \in list |-> refcount'[i]]
    BY DEF MoveTo
  <2> QED
    BY <1>2, <2>1
<1>4. FirstReference(n) = IF n = 0 THEN 0 ELSE 1
  BY <1>1 DEF FirstReference, Inv, RefInv
<1>5. LastReference(cursor) = IF cursor = 0 THEN 0 ELSE 1
  BY <1>1 DEF LastReference, Inv, RefInv
<1>6. referenced_items' = IF n = 0 THEN 0 ELSE 1
  BY <1>4, <1>5 DEF MoveTo, Inv, CountInv
<1>7. /\ pending_deletion_items' = Cardinality(deleted' \ {cursor'})
      /\ pending_deletion_items' \in Nat
  <2>1. deleted' \ {cursor'} = deleted
    BY <1>1
  <2>2. IsFiniteSet(deleted) /\ Cardinality(deleted) \in Nat
    BY ListFinite, FS_CardinalityType DEF Inv
  <2>3. pending_deletion_items = IF cursor \in deleted THEN Cardinality(deleted) - 1
                                                       ELSE Cardinality(deleted)
    BY <2>2, FS_RemoveElement DEF Inv, CountInv
  <2>4. pending_deletion_items' = pending_deletion_items + (IF cursor \in deleted THEN 1 ELSE 0)
    BY <1>1, <1>5 DEF MoveTo
  <2>5. pending_deletion_items' = Cardinality(deleted)
    <3>1. CASE cursor \in deleted
      BY <2>2, <2>3, <2>4, <3>1
    <3>2. CASE cursor \notin deleted
      BY <2>2, <2>3, <2>4, <3>2
    <3> QED
      BY <3>1, <3>2
  <2> QED
    BY <2>1, <2>2, <2>5, Zenon
<1>8. TypeOK'
  <2>1. refcount' \in [list' -> Nat]
    BY <1>1, <1>3
  <2>2. cursor' \in Nat
    BY <1>1 DEF Inv, TypeOK
  <2> QED
    BY <1>1, <1>6, <1>7, <2>1, <2>2 DEF Inv, TypeOK
<1>9. IndexInv' /\ OneItemPerName'
  BY <1>1 DEF Inv, IndexInv, OneItemPerName
<1>10. RefInv'
  BY <1>1, <1>2 DEF RefInv
<1>11. CountInv'
  BY <1>1, <1>6, <1>7 DEF Inv, CountInv
<1> QED
  BY <1>8, <1>9, <1>10, <1>11 DEF Inv

\* Every call keeps the invariant.
LEMMA InvStep == Inv /\ [Next]_vars => Inv'
<1> SUFFICES ASSUME Inv, [Next]_vars PROVE Inv'
  OBVIOUS
<1>1. ASSUME NEW k \in Keys, NEW v \in Values, dictionary_set(k, v) PROVE Inv'
  BY <1>1, SetNewStep, SetValueStep DEF dictionary_set
<1>2. ASSUME NEW k \in Keys, dictionary_del(k) PROVE Inv'
  BY <1>2, DelStep
<1>3. CASE dictionary_foreach_start_rw
  <2>1. PICK n \in list \cup {0} : IsNext(0, n) /\ MoveTo(n)
    BY <1>3 DEF dictionary_foreach_start_rw
  <2>2. n \in (list \ deleted) \cup {0}
    BY <2>1 DEF IsNext
  <2>3. cursor = 0
    BY <1>3 DEF dictionary_foreach_start_rw, Inv, RefInv
  <2> QED
    BY <1>3, <2>1, <2>2, <2>3, MoveStep DEF dictionary_foreach_start_rw
<1>4. CASE dictionary_foreach_next
  <2>1. PICK n \in list \cup {0} : IsNext(cursor, n) /\ MoveTo(n)
    BY <1>4 DEF dictionary_foreach_next
  <2>2. n \in (list \ deleted) \cup {0} /\ (n = 0 \/ n > cursor)
    BY <2>1 DEF IsNext
  <2>3. n = 0 \/ n # cursor
    BY <2>2 DEF Inv, TypeOK
  <2>4. traversing' = TRUE /\ ~destroyed
    BY <1>4 DEF dictionary_foreach_next, Inv, RefInv, TypeOK
  <2> QED
    BY <2>1, <2>2, <2>3, <2>4, MoveStep
<1>5. CASE dictionary_foreach_done
  BY <1>5 DEF dictionary_foreach_done, fields, counters, Inv, TypeOK, IndexInv, RefInv,
              CountInv, OneItemPerName
<1>6. CASE dictionary_destroy
  <2>1. DOMAIN index' = {} /\ deleted' \ {cursor'} = {} /\ list' = {} /\ deleted' = {}
    BY <1>6 DEF dictionary_destroy
  <2>2. TypeOK'
    BY <1>6 DEF dictionary_destroy, loop, Inv, TypeOK
  <2>3. IndexInv' /\ OneItemPerName'
    BY <2>1, FS_EmptySet DEF IndexInv, OneItemPerName
  <2>4. RefInv' /\ CountInv'
    BY <1>6, <2>1, FS_EmptySet DEF dictionary_destroy, loop, Inv, RefInv, CountInv
  <2> QED
    BY <2>2, <2>3, <2>4 DEF Inv
<1>7. CASE UNCHANGED vars
  BY <1>7 DEF vars, fields, counters, loop, Inv, TypeOK, IndexInv, RefInv, CountInv,
              OneItemPerName
<1> QED
  BY <1>1, <1>2, <1>3, <1>4, <1>5, <1>6, <1>7 DEF Next

\* The index, the list, the references and the counters describe the same items
\* after every call (dictionary-item.h, dictionary-refcount.h).
THEOREM InvAlways == Spec => []Inv
<1> QED
  BY InvInit, InvStep, PTL DEF Spec

-----------------------------------------------------------------------------
\* The variables keep their types, for any number of calls.
THEOREM TypeCorrect == Spec => []TypeOK
<1>1. Inv => TypeOK
  BY DEF Inv
<1> QED
  BY <1>1, InvAlways, PTL

\* No call frees the item a traversal stands on.
THEOREM CursorAlwaysAlive == Spec => []CursorAlive
<1>1. Inv => CursorAlive
  BY DEF Inv, RefInv, CursorAlive
<1> QED
  BY <1>1, InvAlways, PTL

\* The counters are exact after every call.
THEOREM CountersAlwaysExact == Spec => []CountersExact
<1>1. Inv => CountersExact
  <2> SUFFICES ASSUME Inv PROVE CountersExact
    OBVIOUS
  <2>1. 0 \notin list /\ deleted \subseteq list
    BY ListFinite DEF Inv, TypeOK
  <2>2. {i \in list : refcount[i] > 0} = IF cursor = 0 THEN {} ELSE {cursor}
    BY <2>1 DEF Inv, RefInv
  <2>3. {i \in deleted : refcount[i] = 0} = deleted \ {cursor}
    BY <2>1 DEF Inv, RefInv
  <2>4. referenced_items = Cardinality({i \in list : refcount[i] > 0})
    <3>1. CASE cursor = 0
      BY <2>2, <3>1, FS_EmptySet DEF Inv, CountInv
    <3>2. CASE cursor # 0
      BY <2>2, <3>2, FS_Singleton DEF Inv, CountInv
    <3> QED
      BY <3>1, <3>2
  <2> QED
    BY <2>3, <2>4 DEF Inv, CountInv, CountersExact
<1> QED
  BY <1>1, InvAlways, PTL

\* A dictionary is freed by the call that destroys it.
THEOREM AlwaysDestroyedAtOnce == Spec => []DestroyedAtOnce
<1>1. Inv => DestroyedAtOnce
  BY DEF Inv, RefInv, CountInv, DestroyedAtOnce
<1> QED
  BY <1>1, InvAlways, PTL

\* The list never holds two items of one name.
THEOREM AlwaysOneItemPerName == Spec => []OneItemPerName
<1>1. Inv => OneItemPerName
  BY DEF Inv
<1> QED
  BY <1>1, InvAlways, PTL

-----------------------------------------------------------------------------
\* The refinement: each call, seen through Entries, Current and Remaining.

\* An empty dictionary is an empty map.
LEMMA MapInit == Init => Map!Init
<1> SUFFICES ASSUME Init PROVE Map!Init
  OBVIOUS
<1>1. Entries = [k \in {} |-> NoKey]
  BY DEF Init, Entries
<1>2. Current = NoKey /\ Remaining = {}
  BY DEF Init, Current, Remaining, Unvisited
<1> QED
  BY <1>1, <1>2 DEF Init, Map!Init

\* dictionary_set sets one entry, whatever the collector frees on the way.
LEMMA MapSet ==
    ASSUME Inv, Inv', NEW k \in Keys, NEW v \in Values, dictionary_set(k, v)
    PROVE  Map!Set(k, v)
<1>1. /\ ~destroyed /\ ~traversing /\ traversing' = traversing /\ destroyed' = destroyed
      /\ cursor = 0 /\ cursor' = 0
  BY DEF dictionary_set, loop, Inv, RefInv
<1>2. Current' = Current /\ Remaining' = Remaining
  BY <1>1 DEF Current, Remaining, Unvisited
<1>3. Entries' = [x \in DOMAIN Entries \cup {k} |-> IF x = k THEN v ELSE Entries[x]]
  <2>1. DOMAIN Entries = DOMAIN index /\ DOMAIN Entries' = DOMAIN index'
    BY DEF Entries
  <2>2. CASE SetNew(k, v)
    <3>1. /\ index' = [x \in DOMAIN index \cup {k} |-> IF x = k THEN created + 1 ELSE index[x]]
          /\ value' = [j \in list' |-> IF j = created + 1 THEN v ELSE value[j]]
      BY <2>2 DEF SetNew
    <3>2. \A x \in DOMAIN index : index[x] # created + 1
      BY DEF Inv, TypeOK
    <3>3. index' \in [DOMAIN index' -> list']
      BY DEF Inv, TypeOK
    <3>4. ASSUME NEW x \in DOMAIN index'
          PROVE  value'[index'[x]] = IF x = k THEN v ELSE value[index[x]]
      BY <3>1, <3>2, <3>3
    <3> QED
      BY <2>1, <3>1, <3>4 DEF Entries
  <2>3. CASE SetValue(k, v)
    <3>1. /\ index' = index /\ k \in DOMAIN index
          /\ value' = [value EXCEPT ![index[k]] = v]
      BY <2>3 DEF SetValue
    <3>2. \A x \in DOMAIN index : x # k => index[x] # index[k]
      BY <3>1 DEF Inv, IndexInv
    <3>3. ASSUME NEW x \in DOMAIN index'
          PROVE  value'[index'[x]] = IF x = k THEN v ELSE value[index[x]]
      BY <3>1, <3>2 DEF Inv, TypeOK
    <3> QED
      BY <2>1, <3>1, <3>3 DEF Entries
  <2> QED
    BY <2>2, <2>3 DEF dictionary_set
<1> QED
  BY <1>1, <1>2, <1>3 DEF Map!Set

\* dictionary_del removes one entry, from those to come as well, whether the
\* item is freed or marked.
LEMMA MapDel ==
    ASSUME Inv, NEW k \in Keys, dictionary_del(k)
    PROVE  Map!Del(k)
<1> DEFINE d == index[k]
<1>1. /\ ~destroyed /\ k \in DOMAIN index /\ d \in list \ deleted /\ name[d] = k
      /\ index' = [x \in DOMAIN index \ {k} |-> index[x]]
      /\ traversing' = traversing /\ cursor' = cursor /\ destroyed' = destroyed
  BY DEF dictionary_del, loop, Inv, TypeOK, IndexInv
<1>2. \A x \in DOMAIN index : x # k => index[x] \in (list \ deleted) \ {d}
  BY <1>1 DEF Inv, IndexInv, TypeOK
<1>3. /\ list' \ deleted' = (list \ deleted) \ {d}
      /\ cursor # 0 => cursor \in list'
      /\ \A i \in list' : i \in list /\ name'[i] = name[i] /\ value'[i] = value[i]
  <2>1. CASE FreeItem(d)
    <3>1. Garbage(list \ {d}) = deleted \ {cursor}
      BY <1>1, GarbageAll DEF Inv, TypeOK
    <3>2. /\ list' = (list \ {d}) \ (deleted \ {cursor})
          /\ deleted' = deleted \cap list'
          /\ name' = [j \in list' |-> name[j]]
          /\ value' = [j \in list' |-> value[j]]
          /\ refcount[d] = 0
      BY <2>1, <3>1 DEF FreeItem
    <3>3. d # cursor
      BY <1>1, <3>2 DEF Inv, RefInv
    <3> QED
      BY <1>1, <3>2, <3>3 DEF Inv, RefInv, TypeOK
  <2>2. CASE MarkDeleted(d)
    BY <1>1, <2>2 DEF MarkDeleted, fields, Inv, RefInv
  <2> QED
    BY <2>1, <2>2 DEF dictionary_del
<1>4. Entries' = [x \in DOMAIN Entries \ {k} |-> Entries[x]]
  <2>1. DOMAIN Entries = DOMAIN index /\ DOMAIN Entries' = DOMAIN index'
    BY DEF Entries
  <2>2. ASSUME NEW x \in DOMAIN index'
        PROVE  value'[index'[x]] = value[index[x]]
    BY <1>1, <1>2, <1>3
  <2> QED
    BY <1>1, <2>1, <2>2 DEF Entries
<1>5. Current' = Current
  BY <1>1, <1>3 DEF Current
<1>6. Remaining' = Remaining \ {k}
  <2>1. Unvisited' = Unvisited \ {d}
    BY <1>1, <1>3 DEF Unvisited
  <2>2. \A i \in Unvisited' : name'[i] = name[i]
    BY <1>3 DEF Unvisited
  <2>3. \A i \in Unvisited : i \in list /\ (name[i] = k => i = d)
    BY <1>1 DEF Unvisited, Inv, OneItemPerName
  <2> QED
    BY <1>1, <2>1, <2>2, <2>3 DEF Remaining
<1> QED
  BY <1>1, <1>4, <1>5, <1>6 DEF Map!Del, Entries

\* A move of the traversal yields one of the names that come after an item.
LEMMA MapYield ==
    ASSUME Inv, NEW from \in Nat, NEW n \in list \cup {0}, IsNext(from, n), MoveTo(n)
    PROVE  Map!Yield({name[i] : i \in {j \in list \ deleted : j > from}})
<1> DEFINE later == {j \in list \ deleted : j > from}
           names == {name[i] : i \in later}
<1>1. list' = list /\ deleted' = deleted /\ name' = name /\ cursor' = n
  BY DEF MoveTo
<1>2. 0 \notin later /\ later \subseteq Nat
  BY ListFinite DEF Inv, TypeOK
<1>3. CASE later = {}
  <2>1. n = 0
    BY <1>3 DEF IsNext
  <2>2. Current' = NoKey /\ Remaining' = {}
    BY <1>1, <2>1 DEF Current, Remaining, Unvisited
  <2>3. names = {}
    BY <1>3
  <2> QED
    BY <2>2, <2>3 DEF Map!Yield
<1>4. CASE later # {}
  <2>1. n \in later /\ \A m \in later : n =< m
    BY <1>4 DEF IsNext
  <2>2. Unvisited' = later \ {n}
    <3>1. Unvisited' = {i \in list \ deleted : i > n}
      BY <1>1, <1>2, <2>1 DEF Unvisited
    <3>2. ASSUME NEW i \in list \ deleted PROVE i > n <=> i \in later \ {n}
      <4>1. i \in Nat
        BY DEF Inv, TypeOK
      <4> QED
        BY <1>2, <2>1, <4>1
    <3> QED
      BY <3>1, <3>2
  <2>3. Current' = name[n]
    BY <1>1, <1>2, <2>1 DEF Current
  <2>4. Remaining' = names \ {name[n]}
    <3>1. Remaining' = {name[i] : i \in later \ {n}}
      BY <1>1, <2>2 DEF Remaining
    <3>2. \A i \in later : name[i] = name[n] => i = n
      BY <2>1 DEF Inv, OneItemPerName
    <3> QED
      BY <3>1, <3>2
  <2> QED
    BY <2>1, <2>3, <2>4 DEF Map!Yield
<1> QED
  BY <1>3, <1>4

\* dictionary_foreach_start_rw has every entry to come and yields the first.
LEMMA MapStart ==
    ASSUME Inv, dictionary_foreach_start_rw
    PROVE  Map!ForeachStart
<1>1. PICK n \in list \cup {0} : IsNext(0, n) /\ MoveTo(n)
  BY DEF dictionary_foreach_start_rw
<1>2. DOMAIN Entries = {name[i] : i \in {j \in list \ deleted : j > 0}}
  <2>1. {j \in list \ deleted : j > 0} = list \ deleted
    BY DEF Inv, TypeOK
  <2>2. ASSUME NEW k \in DOMAIN index PROVE k \in {name[i] : i \in list \ deleted}
    <3>1. index[k] \in list \ deleted /\ name[index[k]] = k
      BY DEF Inv, TypeOK, IndexInv
    <3> QED BY <3>1, Zenon
  <2>3. ASSUME NEW i \in list \ deleted PROVE name[i] \in DOMAIN index
    BY Zenon DEF Inv, IndexInv
  <2>4. DOMAIN index = {name[i] : i \in list \ deleted}
    BY <2>2, <2>3, Zenon
  <2> QED
    BY <2>1, <2>4 DEF Entries
<1>3. Map!Yield(DOMAIN Entries)
  BY <1>1, <1>2, MapYield
<1>4. Entries' = Entries /\ destroyed' = destroyed
  BY <1>1 DEF MoveTo, Entries
<1> QED
  BY <1>3, <1>4 DEF dictionary_foreach_start_rw, Map!ForeachStart

\* dictionary_foreach_next yields the next entry, also from a deleted one.
LEMMA MapNext ==
    ASSUME Inv, dictionary_foreach_next
    PROVE  Map!ForeachNext
<1>1. PICK n \in list \cup {0} : IsNext(cursor, n) /\ MoveTo(n)
  BY DEF dictionary_foreach_next
<1>2. Remaining = {name[i] : i \in {j \in list \ deleted : j > cursor}}
  BY DEF dictionary_foreach_next, Remaining, Unvisited
<1>3. Map!Yield(Remaining)
  BY <1>1, <1>2, MapYield DEF Inv, TypeOK
<1>4. Entries' = Entries /\ destroyed' = destroyed
  BY <1>1 DEF MoveTo, Entries
<1>5. Current # NoKey
  BY KeysAssumption DEF Current, dictionary_foreach_next, Inv, TypeOK, RefInv
<1> QED
  BY <1>3, <1>4, <1>5 DEF dictionary_foreach_next, Map!ForeachNext

\* The dictionary of reference counted items implements the map the plugin
\* relies on.
THEOREM DictionaryImplementsMap == Spec => ImplementsMap
<1>1. Inv /\ Inv' /\ [Next]_vars => [Map!Next]_(Map!mapVars)
  <2> SUFFICES ASSUME Inv, Inv', [Next]_vars PROVE [Map!Next]_(Map!mapVars)
    OBVIOUS
  <2>1. ASSUME NEW k \in Keys, NEW v \in Values, dictionary_set(k, v) PROVE Map!Next
    BY <2>1, MapSet DEF Map!Next
  <2>2. ASSUME NEW k \in Keys, dictionary_del(k) PROVE Map!Next
    BY <2>2, MapDel DEF Map!Next
  <2>3. CASE dictionary_foreach_start_rw
    BY <2>3, MapStart DEF Map!Next
  <2>4. CASE dictionary_foreach_next
    BY <2>4, MapNext DEF Map!Next
  <2>5. CASE dictionary_foreach_done
    <3>1. Map!ForeachDone
      BY <2>5 DEF dictionary_foreach_done, fields, Map!ForeachDone, Entries, Current,
                  Remaining, Unvisited
    <3> QED
      BY <3>1 DEF Map!Next
  <2>6. CASE dictionary_destroy
    <3>1. /\ ~destroyed /\ ~traversing /\ destroyed' = TRUE /\ traversing' = traversing
          /\ cursor = 0 /\ cursor' = 0
      BY <2>6 DEF dictionary_destroy, loop, Inv, RefInv
    <3>2. Entries' = [k \in {} |-> NoKey]
      BY <2>6 DEF dictionary_destroy, Entries
    <3>3. Current' = Current /\ Remaining' = Remaining
      BY <3>1 DEF Current, Remaining, Unvisited
    <3>4. Map!Destroy
      BY <3>1, <3>2, <3>3 DEF Map!Destroy
    <3> QED
      BY <3>4 DEF Map!Next
  <2>7. CASE UNCHANGED vars
    BY <2>7 DEF vars, fields, loop, Map!mapVars, Entries, Current, Remaining, Unvisited
  <2> QED
    BY <2>1, <2>2, <2>3, <2>4, <2>5, <2>6, <2>7 DEF Next
<1> QED
  BY <1>1, MapInit, InvAlways, PTL DEF Spec, ImplementsMap, Map!Spec
=============================================================================
