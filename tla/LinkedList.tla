----------------------------- MODULE LinkedList -----------------------------
(***************************************************************************)
(* The linked list of data_structures/linked_list.c.  No cell is pushed to *)
(* a list twice, so a node goes by the name of its cell; next also keeps   *)
(* the links of nodes that left the list, which the code does not free.    *)
(***************************************************************************)
EXTENDS Naturals, Sequences

CONSTANTS Cell, NULL

Empty == [head |-> NULL, last |-> NULL, next |-> [cell \in Cell |-> NULL], size |-> 0]

\* The nodes along next from the head, as the loops of the code meet them.
Items(list) ==
    LET from[n \in Nat] ==
            [node \in Cell \cup {NULL} |->
                IF node = NULL \/ n = 0 THEN <<>>
                ELSE <<node>> \o from[n - 1][list.next[node]]]
    IN from[list.size + 1][list.head]

Nodes(list) == {Items(list)[i] : i \in 1 .. Len(Items(list))}

linked_list_contains(list, cell) == cell \in Nodes(list)

linked_list_push(list, cell) ==
    LET next == [list.next EXCEPT ![cell] = NULL]
    IN IF list.size = 0
       THEN [head |-> cell, last |-> cell, next |-> next, size |-> 1]
       ELSE [list EXCEPT !.last = cell,
                         !.next = [next EXCEPT ![list.last] = cell],
                         !.size = @ + 1]

Pushed(cells) ==
    LET list[n \in 0 .. Len(cells)] ==
            IF n = 0 THEN Empty ELSE linked_list_push(list[n - 1], cells[n])
    IN list[Len(cells)]

\* Mutated forms of linked_list_remove: the head of the list stays; the node
\* before loses what is behind the node removed.
RemoveBehindHead(list, cell) ==
    IF list.head = cell \/ ~linked_list_contains(list, cell) THEN list
    ELSE LET prev_node == CHOOSE node \in Nodes(list) : list.next[node] = cell
         IN [list EXCEPT !.next[prev_node] = list.next[cell], !.size = @ - 1]

RemoveRest(list, cell) ==
    IF list.head = cell THEN [list EXCEPT !.head = list.next[cell], !.size = @ - 1]
    ELSE LET prev_node == CHOOSE node \in Nodes(list) : list.next[node] = cell
         IN [list EXCEPT !.next[prev_node] = NULL, !.size = @ - 1]

\* The last pointer is left alone, also when it was the last node that went.
linked_list_remove(list, cell) ==
    IF ~linked_list_contains(list, cell) THEN list
    ELSE IF list.head = cell
    THEN [list EXCEPT !.head = list.next[cell], !.size = @ - 1]
    ELSE LET prev_node == CHOOSE node \in Nodes(list) : list.next[node] = cell
         IN [list EXCEPT !.next[prev_node] = list.next[cell], !.size = @ - 1]

\* The first cell of the list with the least distance.
get_minimum_distance(list, dist) ==
    LET cells == Items(list)
    IN cells[CHOOSE i \in 1 .. Len(cells) :
                /\ \A j \in 1 .. Len(cells) : dist[cells[i]] <= dist[cells[j]]
                /\ \A j \in 1 .. i - 1 : dist[cells[i]] < dist[cells[j]]]

=============================================================================
