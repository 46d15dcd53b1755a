---------------------------- MODULE DictionaryMap ----------------------------
(***************************************************************************)
(* What upsd_plugin.c relies on when it uses a dictionary of libnetdata: a *)
(* map from names to values, and one traversal at a time that yields every *)
(* entry once, except those deleted before their turn.  Entries are added  *)
(* and replaced outside the traversal only (lines 556, 646, 648, 764 and   *)
(* 805), and may be deleted inside it, the one just yielded included       *)
(* (lines 803-814).                                                        *)
(*                                                                         *)
(* UpsdPlugin uses this view: nd_ups_name is the map there and sweep the   *)
(* entries still to yield.  Module Dictionary shows that the list of       *)
(* reference counted items implements it.                                  *)
(***************************************************************************)
CONSTANTS Keys, Values, NoKey

VARIABLES
    map,         \* name -> value
    traversing,  \* between dfe_start_read and dfe_done
    current,     \* the name of the entry yielded last, NoKey after the last one
    remaining,   \* names still to be yielded
    destroyed    \* dictionary_destroy was called

mapVars == <<map, traversing, current, remaining, destroyed>>

Init ==
    /\ map = [k \in {} |-> NoKey]
    /\ traversing = FALSE /\ current = NoKey /\ remaining = {}
    /\ destroyed = FALSE

Set(k, v) ==
    /\ ~destroyed /\ ~traversing
    /\ map' = [x \in DOMAIN map \cup {k} |-> IF x = k THEN v ELSE map[x]]
    /\ UNCHANGED <<traversing, current, remaining, destroyed>>

Del(k) ==
    /\ ~destroyed
    /\ k \in DOMAIN map
    /\ map' = [x \in DOMAIN map \ {k} |-> map[x]]
    /\ remaining' = remaining \ {k}
    /\ UNCHANGED <<traversing, current, destroyed>>

\* One of the names is the next to be yielded, or there is none left.
Yield(names) ==
    \/ /\ names = {}
       /\ current' = NoKey /\ remaining' = {}
    \/ \E k \in names :
         current' = k /\ remaining' = names \ {k}

ForeachStart ==
    /\ ~destroyed /\ ~traversing
    /\ traversing' = TRUE
    /\ Yield(DOMAIN map)
    /\ UNCHANGED <<map, destroyed>>

ForeachNext ==
    /\ traversing /\ current # NoKey
    /\ Yield(remaining)
    /\ UNCHANGED <<map, traversing, destroyed>>

ForeachDone ==
    /\ traversing /\ current = NoKey
    /\ traversing' = FALSE
    /\ UNCHANGED <<map, current, remaining, destroyed>>

Destroy ==
    /\ ~destroyed /\ ~traversing
    /\ map' = [k \in {} |-> NoKey]
    /\ destroyed' = TRUE
    /\ UNCHANGED <<traversing, current, remaining>>

Next ==
    \/ \E k \in Keys, v \in Values : Set(k, v)
    \/ \E k \in Keys : Del(k)
    \/ ForeachStart \/ ForeachNext \/ ForeachDone \/ Destroy

Spec == Init /\ [][Next]_mapVars
=============================================================================
