---------------------------- MODULE SpanningTree ----------------------------
(***************************************************************************)
(* What generate_maze promises: a tree that grows over the cells of the    *)
(* grid, one new cell and one passage at a time.  The passages of such a   *)
(* tree join any two of its cells in exactly one way.                      *)
(***************************************************************************)
EXTENDS Integers, FiniteSets

CONSTANTS
    Node,
    Root,
    Adjacent    \* the pairs {a, b} that a passage may join

VARIABLES
    reached,    \* the nodes of the tree
    passages    \* its edges

vars == <<reached, passages>>

Init == reached = {Root} /\ passages = {}

Grow ==
    \E a \in reached, b \in Node \ reached :
        /\ {a, b} \in Adjacent
        /\ reached' = reached \cup {b}
        /\ passages' = passages \cup {{a, b}}

Spec == Init /\ [][Grow]_vars

=============================================================================
