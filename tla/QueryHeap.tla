----------------------------- MODULE QueryHeap -----------------------------
(***************************************************************************)
(* The priority queue of every search (util::QueryHeap): a vector of all   *)
(* the nodes inserted since the last Clear, an index from a node to its    *)
(* place in that vector, and a heap of the entries not yet removed.        *)
(*                                                                         *)
(* A heap is a record: inserted, the vector; index, the place of each node *)
(* (counted from 1); overlay, the number of nodes the index keeps in a     *)
(* plain array (ArrayStorage), whose entries survive Clear. The other      *)
(* nodes are kept in a map (UnorderedMapStorage), which Clear empties.     *)
(***************************************************************************)
EXTENDS Integers, Sequences, FiniteSets

NoIndex == 1000000

NewHeap(nodes, overlay) ==
  [inserted |-> << >>,
   overlay  |-> overlay,
   index    |-> [n \in 0..(nodes - 1) |-> IF n < overlay THEN 1 ELSE NoIndex]]

Clear(heap) ==
  [inserted |-> << >>,
   overlay  |-> heap.overlay,
   index    |-> [n \in DOMAIN heap.index |->
                   IF n < heap.overlay THEN heap.index[n] ELSE NoIndex]]

Queued(heap) == {i \in DOMAIN heap.inserted : heap.inserted[i].queued}

Size(heap) == Cardinality(Queued(heap))

Empty(heap) == Queued(heap) = {}

Insert(heap, node, weight, data) ==
  [inserted |-> Append(heap.inserted,
                  [node |-> node, weight |-> weight, data |-> data, queued |-> TRUE]),
   overlay  |-> heap.overlay,
   index    |-> [heap.index EXCEPT ![node] = Len(heap.inserted) + 1]]

\* The index of a node left by an earlier search is caught by comparing the
\* node of the entry it leads to.
WasInserted(heap, node) ==
  /\ heap.index[node] <= Len(heap.inserted)
  /\ heap.inserted[heap.index[node]].node = node

HeapNode(heap, node) == heap.inserted[heap.index[node]]

GetKey(heap, node) == HeapNode(heap, node).weight

GetData(heap, node) == HeapNode(heap, node).data

\* The heap orders pairs of a weight and a place.
Top(heap) ==
  CHOOSE i \in Queued(heap) : \A j \in Queued(heap) :
    \/ heap.inserted[i].weight < heap.inserted[j].weight
    \/ heap.inserted[i].weight = heap.inserted[j].weight /\ i <= j

Min(heap) == heap.inserted[Top(heap)].node

MinKey(heap) == heap.inserted[Top(heap)].weight

DeleteMin(heap) == [heap EXCEPT !.inserted[Top(heap)].queued = FALSE]

DeleteAll(heap) ==
  [heap EXCEPT !.inserted = [i \in DOMAIN @ |-> [@[i] EXCEPT !.queued = FALSE]]]

DecreaseKey(heap, node, weight, data) ==
  [heap EXCEPT !.inserted[heap.index[node]] = [@ EXCEPT !.weight = weight, !.data = data]]

\* What every relaxation does with the node an edge leads to: a new node enters
\* the heap, a known one whose key improves has it lowered.
Relax(heap, node, weight, data) ==
  IF ~WasInserted(heap, node) THEN Insert(heap, node, weight, data)
  ELSE IF weight < GetKey(heap, node) THEN DecreaseKey(heap, node, weight, data)
  ELSE heap
=============================================================================
