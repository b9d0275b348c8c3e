----------------------------- MODULE LinkedList ------------------------------
(***************************************************************************)
(* The circular doubly linked list of util.c, in which the program keeps   *)
(* every queue.  A heap maps an address to a node; several lists share it. *)
(* lists is a record of this heap, of the head pointer of each queue and   *)
(* of chain, which is not in the code: the nodes each queue ought to hold, *)
(* oldest first.                                                           *)
(***************************************************************************)
EXTENDS Integers, Sequences, FiniteSets

CONSTANTS Address, NULL, Queue

ASSUME AddressAssumption == NULL \notin Address /\ IsFiniteSet(Address)

Node(p, n, v) == [prev |-> p, next |-> n, value |-> v]

NoLists == [heap  |-> [a \in Address |-> Node(NULL, NULL, NULL)],
            head  |-> [l \in Queue |-> NULL],
            chain |-> [l \in Queue |-> <<>>]]

Holds(chain, a) == \E i \in DOMAIN chain : chain[i] = a

\* The addresses malloc may return.
Fresh(lists) == {a \in Address : \A l \in Queue : ~Holds(lists.chain[l], a)}

-----------------------------------------------------------------------------
AppendedHeap_LastNotLinked(heap, head, new_node, v) ==
  IF head = NULL
  THEN [heap EXCEPT ![new_node] = Node(new_node, new_node, v)]
  ELSE [heap EXCEPT ![head].prev = new_node,
                    ![new_node] = Node(heap[head].prev, head, v)]

AppendedHeap(heap, head, new_node, v) ==
  IF head = NULL
  THEN [heap EXCEPT ![new_node] = Node(new_node, new_node, v)]
  ELSE [heap EXCEPT ![head].prev = new_node,
                    ![heap[head].prev].next = new_node,
                    ![new_node] = Node(heap[head].prev, head, v)]

ll_append_node(lists, l, new_node, v) ==
  [heap  |-> AppendedHeap(lists.heap, lists.head[l], new_node, v),
   head  |-> [lists.head EXCEPT ![l] = IF @ = NULL THEN new_node ELSE @],
   chain |-> [lists.chain EXCEPT ![l] = Append(@, new_node)]]

Alone(heap, head) == heap[head].prev = head

PoppedHeap(heap, head) ==
  LET closed == IF Alone(heap, head) THEN heap
                ELSE [heap EXCEPT ![heap[head].prev].next = heap[head].next,
                                  ![heap[head].next].prev = heap[head].prev]
  IN  [closed EXCEPT ![head] = Node(NULL, NULL, NULL)]

\* Callers take the value of the node it returns (ll_peek_node's) and free the
\* node, or never look at it again: either way its value is gone.
ll_pop_node(lists, l) ==
  LET heap == lists.heap
      head == lists.head[l]
  IN  [heap  |-> PoppedHeap(heap, head),
       head  |-> [lists.head EXCEPT
                    ![l] = IF Alone(heap, head) THEN NULL ELSE heap[head].next],
       chain |-> [lists.chain EXCEPT ![l] = Tail(@)]]

ll_peek_node(lists, l) == lists.heap[lists.head[l]].value

\* ll_get_length(head) # 0
NotEmpty(lists, l) == lists.head[l] # NULL

-----------------------------------------------------------------------------
Following(chain, i) == chain[IF i = Len(chain) THEN 1 ELSE i + 1]
Preceding(chain, i) == chain[IF i = 1 THEN Len(chain) ELSE i - 1]

\* The list at head is a ring of the nodes of chain, in this order.
Circular(heap, head, chain) ==
  /\ head = IF chain = <<>> THEN NULL ELSE chain[1]
  /\ \A i \in DOMAIN chain : /\ heap[chain[i]].next = Following(chain, i)
                             /\ heap[chain[i]].prev = Preceding(chain, i)

\* No node is twice in the queues, or in two of them.
Disjoint(chain) ==
  \A l, m \in Queue : \A i \in DOMAIN chain[l], j \in DOMAIN chain[m] :
    chain[l][i] = chain[m][j] => l = m /\ i = j

Queues(lists) ==
  /\ Disjoint(lists.chain)
  /\ \A l \in Queue : Circular(lists.heap, lists.head[l], lists.chain[l])
=============================================================================
