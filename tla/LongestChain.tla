---------------------------- MODULE LongestChain ----------------------------
(***************************************************************************)
(* What a node's chain of blocks promises to everything that reads it,     *)
(* without saying how: a tree that only grows, whose nodes never change,   *)
(* and a tip that is always a highest node of it and is left only for a    *)
(* strictly higher one.                                                    *)
(***************************************************************************)
EXTENDS Integers

CONSTANT None      \* no parent, no tip

VARIABLES
    tree,          \* name -> [parent, height, content], partial
    tip

\* One root at height 0; every other node has its parent in the tree.
IsTree(t) ==
    /\ \A h \in DOMAIN t :
          IF t[h].parent = None
          THEN t[h].height = 0
          ELSE /\ t[h].parent \in DOMAIN t
               /\ t[h].height = t[t[h].parent].height + 1
    /\ \A g, h \in DOMAIN t : t[g].parent = None /\ t[h].parent = None => g = h

Highest(t) ==
    IF DOMAIN t = {} THEN {None}
    ELSE {h \in DOMAIN t : \A g \in DOMAIN t : t[g].height <= t[h].height}

Keeps(t, u) == \A h \in DOMAIN t : h \in DOMAIN u /\ u[h] = t[h]

Init ==
    /\ DOMAIN tree = {}
    /\ tip = None

\* Nodes are added, any number of them.
Grow ==
    /\ Keeps(tree, tree')
    /\ IsTree(tree')
    /\ tip' \in Highest(tree')
    /\ tip' # tip /\ tip # None => tree'[tip'].height > tree[tip].height

Spec == Init /\ [][Grow]_<<tree, tip>>

=============================================================================
