---------------------------- MODULE LinkedList1 ----------------------------
(***************************************************************************)
(* The doubly linked lists of structure/LinkedList1.h as sequences, for    *)
(* those that keep connections with the least recently used one first.     *)
(***************************************************************************)
EXTENDS Integers, Sequences

(* LinkedList1_Remove: the node's neighbours are linked to each other.  It  *)
(* is called for a node that is in the list.                                *)
LinkedList1_Remove(list, node) ==
    LET at == CHOOSE i \in DOMAIN list : list[i] = node
    IN  [i \in 1 .. Len(list) - 1 |-> IF i < at THEN list[i] ELSE list[i + 1]]

(* LinkedList1_Append.                                                      *)
LinkedList1_Append(list, node) == Append(list, node)

(* A connection is used: LinkedList1_Remove and LinkedList1_Append.         *)
moveToEnd(list, node) == LinkedList1_Append(LinkedList1_Remove(list, node), node)
=============================================================================
