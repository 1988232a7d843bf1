------------------------------ MODULE Queues -------------------------------
(***************************************************************************)
(* The heap of the cfq mode and the queue of the sstf mode under every     *)
(* sequence of arrivals (rw_queue) and completions (virtio_disk_intr),     *)
(* those that find data[] full or the queue empty included: neither caller *)
(* looks at the size first.  A fault ends the behaviour.                   *)
(***************************************************************************)
EXTENDS MinHeap, FiniteSets

CONSTANT Keys           \* block numbers; 0 is the sentinel's

ASSUME QueuesAssumption == Capacity \in Nat \ {0} /\ Keys \subseteq Nat /\ 0 \in Keys

Q == INSTANCE SstfQueue

VARIABLES
  heap, queue, fault,
  heapDue,   \* how often each request has been given to the heap and not deleted
  sstfDue,   \* the same of the queue
  early      \* a completion has found its queue empty

heapVars == <<heap, heapDue>>
sstfVars == <<queue, sstfDue>>
queueVars == <<heapVars, sstfVars, fault, early>>
key == [b \in Keys |-> b]
Requests == {[b |-> k, write |-> 0] : k \in Keys}
Nothing == [b |-> 0, write |-> 0]

QueuesInit ==
  /\ heap = [data |-> [i \in 0 .. Capacity - 1 |-> Nothing], Size |-> 0]
  /\ queue = [data |-> [i \in 0 .. Capacity - 1 |-> Nothing], size |-> 0]
  /\ fault = "none"
  /\ heapDue = [x \in Requests |-> 0] /\ sstfDue = heapDue
  /\ early = FALSE

\* The deletion from an empty heap leaves Size at -1.  The next arrival is
\* then stored in data[0], in the place of the sentinel, and is not waited for.
HeapArrive(x) ==
  LET r == insertMinHeap(heap, x, key)
  IN  /\ heap' = r.heap /\ fault' = r.fault
      /\ heapDue' = IF heap.Size < 0 THEN heapDue ELSE [heapDue EXCEPT ![x] = @ + 1]
      /\ UNCHANGED <<sstfVars, early>>

HeapComplete ==
  LET r == deleteFromMinHeap(heap, key)
  IN  /\ heap' = r.heap /\ fault' = r.fault
      /\ heapDue' = IF heap.Size > 0 THEN [heapDue EXCEPT ![heap.data[1]] = @ - 1] ELSE heapDue
      /\ early' = (early \/ heap.Size <= 0)
      /\ UNCHANGED sstfVars

SstfArrive(x) ==
  LET r == Q!enqueue(queue, x, key)
  IN  /\ queue' = r.queue /\ fault' = r.fault
      /\ sstfDue' = [sstfDue EXCEPT ![x] = @ + 1]
      /\ UNCHANGED <<heapVars, early>>

\* dequeue() counts on below zero; from -1 on nothing but the count changes.
LeastSize == -1
SstfComplete ==
  /\ queue.size > LeastSize
  /\ queue' = Q!dequeue(queue, key)
  /\ sstfDue' = IF queue.size > 0 THEN [sstfDue EXCEPT ![queue.data[0]] = @ - 1] ELSE sstfDue
  /\ early' = (early \/ queue.size <= 0)
  /\ UNCHANGED <<heapVars, fault>>

HeapNext == fault = "none" /\ (HeapComplete \/ \E x \in Requests : HeapArrive(x))
SstfNext == fault = "none" /\ (SstfComplete \/ \E x \in Requests : SstfArrive(x))
QueuesStop == fault # "none" /\ UNCHANGED queueVars
QueuesSpec == QueuesInit /\ [][HeapNext \/ SstfNext]_queueVars

\* How often each request is among the entries `at` of data.
Count(data, at) == [x \in Requests |-> Cardinality({i \in at : data[i] = x})]
HeapElements == Count(heap.data, 1 .. heap.Size)
SstfElements == Count(queue.data, 0 .. queue.size - 1)

\* insertMinHeap and deleteFromMinHeap keep every element no smaller than its
\* parent, so data[1], which rw_queue issues, has the least block number.
HeapOrdered ==
  fault = "none" =>
    \A i \in 2 .. heap.Size : key[heap.data[i].b] >= key[heap.data[i \div 2].b]

\* The heap holds the requests rw_queue has inserted and no completion has
\* taken from data[1]: the loops of insertMinHeap and deleteFromMinHeap lose,
\* duplicate or change none.
ElementsKept == fault = "none" => HeapElements = heapDue

\* How far the head moves between two requests.
Seek(x, y) == Cardinality(x.b .. y.b - 1) + Cardinality(y.b .. x.b - 1)

\* Shortest seek first: when a request completes, the next to be served is
\* one of those waiting that is nearest to it; and an arrival never displaces
\* data[0], which is being served.
NearestNext ==
  [][fault' = "none" =>
       /\ queue'.size < queue.size /\ queue'.size > 0 =>
            \A i \in 1 .. queue.size - 1 :
              Seek(queue.data[0], queue'.data[0]) <= Seek(queue.data[0], queue.data[i])
       /\ queue'.size > queue.size /\ queue.size > 0 => queue'.data[0] = queue.data[0]]_queue

\* The queue holds the requests rw_queue has put in and no completion has
\* taken from data[0]: the swaps of SSTF and the shift of dequeue lose,
\* duplicate or change none.
RequestsKept == fault = "none" => SstfElements = sstfDue

\* The operations go wrong (a panic, a store outside data[], a loop without
\* end) only when an arrival finds data[] full or after a completion has
\* found its queue empty.
FaultsExplained ==
  fault # "none" => early \/ heap.Size = Capacity \/ queue.size = Capacity
=============================================================================
