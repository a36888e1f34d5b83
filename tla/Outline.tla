------------------------------ MODULE Outline ------------------------------
(***************************************************************************)
(* src/gedit_lsp/features/outline.py: the tree the side panel shows for    *)
(* the flat answer to documentSymbol, SymbolInformation[], whose items     *)
(* name their container (_build_flat).  A step takes one item; the panel   *)
(* shows what can be reached from the roots (_insert).                     *)
(***************************************************************************)
EXTENDS Naturals, Sequences

CONSTANTS
    Names,     \* of symbols
    MaxItems   \* bound on the items of an answer

VARIABLES
    items,   \* history: [name, container] of the items so far
    byName,  \* by_name: the newest node of each name, 0: none
    parent   \* of each node: 0 for a root

vars == <<items, byName, parent>>

NoContainer == "none"

Init ==
    /\ items = <<>>
    /\ byName = [n \in Names |-> 0]
    /\ parent = <<>>

\* A slip: only a root is entered in by_name.
AddRootsOnly(name, container) ==
    LET node == Len(items) + 1
        under == IF container = NoContainer THEN 0 ELSE byName[container]
    IN  /\ byName' = IF under = 0 THEN [byName EXCEPT ![name] = node] ELSE byName
        /\ parent' = Append(parent, under)

\* The node is entered in by_name before its container is looked up.
Add(name, container) ==
    LET node == Len(items) + 1
        names == [byName EXCEPT ![name] = node]
    IN  /\ byName' = names
        /\ parent' = Append(parent, IF container = NoContainer THEN 0
                                    ELSE names[container])

AddItem(name, container) ==
    /\ Len(items) < MaxItems
    /\ items' = Append(items, [name |-> name, container |-> container])
    /\ Add(name, container)

Next ==
    \E name \in Names, container \in Names \cup {NoContainer} :
        AddItem(name, container)

----------------------------------------------------------------------------
\* The node that item i belongs under: the newest one before it that has the
\* name of its container.
Owner(i) ==
    LET before == {j \in 1..(i - 1) : items[j].name = items[i].container}
    IN  IF before = {} THEN 0 ELSE CHOOSE j \in before : \A k \in before : k <= j

\* _insert reaches a node from the roots in as many steps as it is deep.
Shown ==
    LET depth[n \in 0..Len(items)] ==
            IF n = 0 THEN {i \in DOMAIN items : parent[i] = 0}
            ELSE depth[n - 1] \cup {i \in DOMAIN items : parent[i] \in depth[n - 1]}
    IN  depth[Len(items)]

\* Every symbol is shown, under its container if that came before it, as long
\* as no symbol has the name of its own container.  One that has, such as the
\* constructor of a class, is made its own child, and is not shown at all, nor
\* are the members of the class that follow.
EverySymbolShown ==
    (\A i \in DOMAIN items : items[i].name # items[i].container) =>
        /\ Shown = DOMAIN items
        /\ \A i \in DOMAIN items : parent[i] = Owner(i)
=============================================================================
