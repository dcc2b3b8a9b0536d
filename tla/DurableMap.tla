---------------------------- MODULE DurableMap ----------------------------
(***************************************************************************)
(* What a store of learned conventions promises: a map in memory, and a    *)
(* saved one that a restart falls back to.  The saved map is replaced as   *)
(* a whole, by the map that is in memory at that moment, and it can always *)
(* be loaded.                                                              *)
(***************************************************************************)
CONSTANTS Terms, Values, NoValue

VARIABLES items, saved

vars == <<items, saved>>

Map == [Terms -> Values \cup {NoValue}]

Init == items = [t \in Terms |-> NoValue] /\ saved = items

Put == \E t \in Terms, v \in Values : items' = [items EXCEPT ![t] = v]

Drop == \E t \in Terms : items' = [items EXCEPT ![t] = NoValue]

Change == (Put \/ Drop) /\ UNCHANGED saved

Save == saved' = items /\ UNCHANGED items

Restart == items' = saved /\ UNCHANGED saved

Next == Change \/ Save \/ Restart

Spec == Init /\ [][Next]_vars
=============================================================================
