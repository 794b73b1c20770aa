----------------------------- MODULE Inventory -----------------------------
(***************************************************************************)
(* sItemBase and Items::findFreeSlot: what every component that gives a    *)
(* player items, or takes some away, uses of an inventory.  An item is its *)
(* kind (iID, iType) and its count iOpt.                                   *)
(***************************************************************************)
EXTENDS Players, Integers, FiniteSets, FiniteSetsExt, Functions

CONSTANTS
    Item,        \* kinds of items
    InvenSize    \* AINVEN_COUNT, 50 in the code

Place == 1 .. InvenSize

Stack == [item : Item \cup {None}, opt : Nat]
NoItem == [item |-> None, opt |-> 0]
Of(item, n) == [item |-> item, opt |-> n]

\* findFreeSlot finds the least of these, -1 if there is none.
FreePlaces(inv) == {s \in Place : inv[s].item = None}
PutFirst(inv, stack) == [inv EXCEPT ![Min(FreePlaces(inv))] = stack]

\* How many of an item a place and a whole inventory hold.
Count(stack, item) == IF stack.item = item THEN stack.opt ELSE 0
Held(inv, item) == SumFunction([s \in Place |-> Count(inv[s], item)])

=============================================================================
