-------------------------------- MODULE List --------------------------------
(***************************************************************************)
(* The doubly linked circular lists of kernel/list.h.  A heap `h' gives    *)
(* each node its two links.  An EXCEPT applies its updates from left to    *)
(* right, in the order of the assignments in the source, so that an        *)
(* operation on a node that is linked elsewhere does what the code does.   *)
(***************************************************************************)
EXTENDS Naturals, Sequences

Self(n) == [next |-> n, prev |-> n]

list_init(h, n) == [h EXCEPT ![n] = Self(n)]

list_empty(h, head) == h[head].next = head

list_push_front(h, head, node) ==
    [h EXCEPT ![node] = [next |-> h[head].next, prev |-> head],
              ![h[head].next].prev = node,
              ![head].next = node]

list_push_back(h, head, node) ==
    [h EXCEPT ![node] = [next |-> head, prev |-> h[head].prev],
              ![h[head].prev].next = node,
              ![head].prev = node]

list_remove(h, node) ==
    [h EXCEPT ![h[node].prev].next = h[node].next,
              ![h[node].next].prev = h[node].prev,
              ![node] = Self(node)]

\* What list_pop_front returns, and the heap it leaves; head is not empty.
front(h, head) == h[head].next
list_pop_front(h, head) == list_remove(h, front(h, head))

\* The list at head consists of the nodes of s, in this order, both ways round.
IsList(h, head, s) ==
    LET c == <<head>> \o s
        succ(k) == IF k = Len(c) THEN 1 ELSE k + 1
    IN  /\ \A j, k \in 1..Len(c) : c[j] = c[k] => j = k
        /\ \A k \in 1..Len(c) : /\ h[c[k]].next = c[succ(k)]
                                /\ h[c[succ(k)]].prev = c[k]

\* A heap over a set of cells, and the agreement of its two directions.
LinksOK(h, C) == h \in [C -> [next : C, prev : C]]
WellLinked(h, C) == \A c \in C : h[h[c].next].prev = c /\ h[h[c].prev].next = c
=============================================================================
