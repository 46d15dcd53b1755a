----------------------------- MODULE Dictionary -----------------------------
(***************************************************************************)
(* A DICT_OPTION_SINGLE_THREADED dictionary of libnetdata, used the way    *)
(* upsd_plugin.c uses it: an index from names to items, a linked list of   *)
(* items with reference counts, and counters.  Locks do nothing in this    *)
(* mode, so every call is one action; what is hard is that a deletion      *)
(* inside a traversal leaves the item in the list until a later call       *)
(* collects it.                                                            *)
(*                                                                         *)
(* Items are numbered in the order they are appended, so the list is the   *)
(* set of its items and "next" is the next larger number.  A freed item    *)
(* leaves the list and every function on it.  dictionary_get acquires and  *)
(* releases in one call and changes nothing.                               *)
(***************************************************************************)
EXTENDS Naturals, FiniteSets

CONSTANTS
    Keys, Values,
    NoKey,        \* what the traversal yields after the last entry
    MaxItems      \* bound: items appended in the life of the dictionary

ASSUME KeysAssumption == NoKey \notin Keys
ASSUME MaxItemsAssumption == MaxItems \in Nat

VARIABLES
    index,       \* the JudyHS array: name -> item
    list,        \* the items in dict->items.list
    created,     \* number of items appended so far
    name, value, refcount,    \* fields of the items in the list
    deleted,     \* items with ITEM_FLAG_DELETED
    entries, referenced_items, pending_deletion_items,
    traversing,  \* a dfe_start_read .. dfe_done loop is running
    cursor,      \* its dfe.item, 0 for NULL
    destroyed

fields   == <<name, value, refcount>>
counters == <<entries, referenced_items, pending_deletion_items>>
loop     == <<traversing, cursor>>
vars     == <<index, list, created, fields, deleted, counters, loop, destroyed>>

-----------------------------------------------------------------------------
Init ==
    /\ index = [k \in {} |-> 0]
    /\ list = {} /\ created = 0
    /\ name = [i \in {} |-> NoKey]
    /\ value = [i \in {} |-> NoKey]
    /\ refcount = [i \in {} |-> 0]
    /\ deleted = {}
    /\ entries = 0 /\ referenced_items = 0 /\ pending_deletion_items = 0
    /\ traversing = FALSE /\ cursor = 0
    /\ destroyed = FALSE

\* The first n elements of a set of items, in list order.
FirstItems(S, n) == {i \in S : Cardinality({j \in S : j =< i}) =< n}

\* Slip: the collector is not called when an item is added or removed.
Garbage_Never(rest) == {}

\* Slip: the reference count is not looked at.
Garbage_Referenced(rest) == FirstItems(rest \cap deleted, pending_deletion_items)

\* garbage_collect_pending_deletes walks the list and frees the items that are
\* marked and not referenced, until it has freed as many as are pending.
Garbage(rest) ==
    FirstItems({i \in rest \cap deleted : refcount[i] = 0}, pending_deletion_items)

\* dict_item_create_with_hooks gives a new item one reference, which
\* dictionary_set_advanced releases before it returns.
SetNew(k, v) ==
    LET i == created + 1
        kept == list \ Garbage(list)
    IN  /\ k \notin DOMAIN index
        /\ created < MaxItems
        /\ created' = i
        /\ index' = [x \in DOMAIN index \cup {k} |-> IF x = k THEN i ELSE index[x]]
        /\ list' = kept \cup {i}
        /\ name' = [j \in list' |-> IF j = i THEN k ELSE name[j]]
        /\ value' = [j \in list' |-> IF j = i THEN v ELSE value[j]]
        /\ refcount' = [j \in list' |-> IF j = i THEN 0 ELSE refcount[j]]
        /\ deleted' = deleted \cap kept
        /\ entries' = entries + 1
        /\ pending_deletion_items' =
             pending_deletion_items - Cardinality(Garbage(list))
        /\ UNCHANGED referenced_items

\* An existing item is acquired, gets the new value, and is released.
SetValue(k, v) ==
    /\ k \in DOMAIN index
    /\ value' = [value EXCEPT ![index[k]] = v]
    /\ UNCHANGED <<index, list, created, name, refcount, deleted, counters>>

dictionary_set(k, v) ==
    /\ ~destroyed /\ ~traversing
    /\ SetNew(k, v) \/ SetValue(k, v)
    /\ UNCHANGED <<loop, destroyed>>

\* dict_item_free_or_mark_deleted, for an item nobody refers to: it is unlinked,
\* pending ones are collected with it, and it is freed.
FreeItem(i) ==
    LET rest == list \ {i}
        kept == rest \ Garbage(rest)
    IN  /\ refcount[i] = 0
        /\ list' = kept
        /\ name' = [j \in kept |-> name[j]]
        /\ value' = [j \in kept |-> value[j]]
        /\ refcount' = [j \in kept |-> refcount[j]]
        /\ deleted' = deleted \cap kept
        /\ pending_deletion_items' =
             pending_deletion_items - Cardinality(Garbage(rest))

\* The same, for an item a traversal stands on: it is only marked.
MarkDeleted(i) ==
    /\ refcount[i] > 0
    /\ deleted' = deleted \cup {i}
    /\ UNCHANGED <<list, fields, pending_deletion_items>>

\* Slip: an item that is only marked stays in the index.
dictionary_del_KeepsIndex(k) ==
    /\ ~destroyed
    /\ k \in DOMAIN index
    /\ index' = IF refcount[index[k]] > 0 THEN index
                                          ELSE [x \in DOMAIN index \ {k} |-> index[x]]
    /\ FreeItem(index[k]) \/ MarkDeleted(index[k])
    /\ entries' = entries - 1
    /\ UNCHANGED <<created, referenced_items, loop, destroyed>>

\* dict_item_del takes the item out of the index first.  Deleting a name that
\* is not there changes nothing.
dictionary_del(k) ==
    /\ ~destroyed
    /\ k \in DOMAIN index
    /\ index' = [x \in DOMAIN index \ {k} |-> index[x]]
    /\ FreeItem(index[k]) \/ MarkDeleted(index[k])
    /\ entries' = entries - 1
    /\ UNCHANGED <<created, referenced_items, loop, destroyed>>

-----------------------------------------------------------------------------
\* item_check_and_acquire and item_release count an item as referenced while
\* its count is not 0.
FirstReference(i) == IF i # 0 /\ refcount[i] = 0 THEN 1 ELSE 0

\* Slip: the test of the reference count is missing.
LastReference_Never(i) == 0

LastReference(i) == IF i # 0 /\ refcount[i] = 1 THEN 1 ELSE 0

\* The traversal acquires item n and releases the one it stands on.
MoveTo(n) ==
    /\ cursor' = n
    /\ refcount' = [i \in list |-> refcount[i] + (IF i = n THEN 1 ELSE 0)
                                             - (IF i = cursor THEN 1 ELSE 0)]
    /\ referenced_items' = referenced_items + FirstReference(n) - LastReference(cursor)
    /\ pending_deletion_items' =
         pending_deletion_items + (IF cursor \in deleted THEN LastReference(cursor) ELSE 0)
    /\ UNCHANGED <<index, list, created, name, value, deleted, entries, destroyed>>

\* Slip: items marked as deleted are not skipped.
IsNext_Deleted(from, n) ==
    LET later == {j \in list : j > from} IN
    \/ later = {} /\ n = 0
    \/ n \in later /\ \A m \in later : n =< m

\* Item n is the next in the list, marked ones skipped; 0 at the end.
IsNext(from, n) ==
    LET later == {j \in list \ deleted : j > from} IN
    \/ later = {} /\ n = 0
    \/ n \in later /\ \A m \in later : n =< m

dictionary_foreach_start_rw ==
    /\ ~destroyed /\ ~traversing
    /\ traversing' = TRUE
    /\ \E n \in list \cup {0} : IsNext(0, n) /\ MoveTo(n)

\* Slip: the loop does not get past an item deleted under it.
dictionary_foreach_next_Stuck ==
    /\ traversing /\ cursor # 0 /\ cursor \notin deleted
    /\ \E n \in list \cup {0} : IsNext(cursor, n) /\ MoveTo(n)
    /\ UNCHANGED traversing

dictionary_foreach_next ==
    /\ traversing /\ cursor # 0
    /\ \E n \in list \cup {0} : IsNext(cursor, n) /\ MoveTo(n)
    /\ UNCHANGED traversing

\* The loop ends only when the list does, so there is nothing to release.
dictionary_foreach_done ==
    /\ traversing /\ cursor = 0
    /\ traversing' = FALSE
    /\ UNCHANGED <<index, list, created, fields, deleted, counters, cursor, destroyed>>

\* No item is referenced (DestroyedAtOnce), so everything is freed here and
\* nothing is left to cleanup_destroyed_dictionaries.
dictionary_destroy ==
    /\ ~destroyed /\ ~traversing
    /\ referenced_items = 0
    /\ destroyed' = TRUE
    /\ index' = [k \in {} |-> 0]
    /\ list' = {}
    /\ name' = [i \in {} |-> NoKey]
    /\ value' = [i \in {} |-> NoKey]
    /\ refcount' = [i \in {} |-> 0]
    /\ deleted' = {}
    /\ entries' = 0 /\ pending_deletion_items' = 0
    /\ UNCHANGED <<created, referenced_items, loop>>

Next ==
    \/ \E k \in Keys, v \in Values : dictionary_set(k, v)
    \/ \E k \in Keys : dictionary_del(k)
    \/ dictionary_foreach_start_rw \/ dictionary_foreach_next
    \/ dictionary_foreach_done \/ dictionary_destroy

Spec == Init /\ [][Next]_vars

\* The body of a loop over a dictionary ends, so the loop goes on.
FairSpec == Spec /\ WF_vars(dictionary_foreach_next) /\ WF_vars(dictionary_foreach_done)

-----------------------------------------------------------------------------
\* Types of the variables: the fields are those of the items in the list, and
\* the index holds items of the list.
TypeOK ==
    /\ created \in Nat /\ list \subseteq 1..created
    /\ name \in [list -> Keys] /\ value \in [list -> Values]
    /\ refcount \in [list -> Nat]
    /\ deleted \subseteq list
    /\ DOMAIN index \subseteq Keys /\ index \in [DOMAIN index -> list]
    /\ entries \in Nat /\ referenced_items \in Nat /\ pending_deletion_items \in Nat
    /\ traversing \in BOOLEAN /\ cursor \in Nat /\ destroyed \in BOOLEAN

\* The item a traversal stands on is in the list, with the traversal's reference
\* on it, whatever was deleted since: dictionary_foreach_next reads its next
\* pointer, and upsd_plugin.c its value (lines 803-814), after deleting it.
CursorAlive == cursor # 0 => cursor \in list /\ refcount[cursor] > 0

\* The counters are exact.  The collector stops after pending_deletion_items
\* items and runs only when there are some, and dictionary_destroy asks
\* referenced_items whether it may free the items.
CountersExact ==
    /\ entries = Cardinality(DOMAIN index)
    /\ referenced_items = Cardinality({i \in list : refcount[i] > 0})
    /\ pending_deletion_items = Cardinality({i \in deleted : refcount[i] = 0})

\* Outside a traversal no item is referenced, so dictionary_destroy never has to
\* leave a dictionary (of ups_vars, line 808, or of main, 826-828) in the queue
\* of those waiting to be destroyed.
DestroyedAtOnce == ~traversing => referenced_items = 0

\* Items deleted inside a traversal stay in the list until a later call collects
\* them; all the same the list never holds two items of one name, so the memory
\* of a plugin whose UPSes come and go is bounded by the number of names.
OneItemPerName == \A i, j \in list : name[i] = name[j] => i = j

-----------------------------------------------------------------------------
\* The map the items stand for: the entries, the one yielded last, those to come.
Entries == [k \in DOMAIN index |-> value[index[k]]]

Current == IF cursor = 0 THEN NoKey ELSE name[cursor]

Unvisited == IF cursor = 0 THEN {} ELSE {i \in list \ deleted : i > cursor}

Remaining == {name[i] : i \in Unvisited}

Map == INSTANCE DictionaryMap WITH
           map <- Entries, current <- Current, remaining <- Remaining

\* Every call does to the map and the traversal what upsd_plugin.c expects: a
\* traversal yields each entry that stays exactly once, and no entry that was
\* deleted before its turn, though the deleted items are still in the list.
ImplementsMap == Map!Spec

\* A loop over a dictionary ends.
TraversalEnds == traversing ~> ~traversing
=============================================================================
