------------------------------ MODULE MinHeap ------------------------------
(***************************************************************************)
(* The request queue of the "cfq" mode: the binary min-heap of             *)
(* kernel/virtio_disk.c.  A heap is [data, Size] with data[0] the          *)
(* sentinel; `key` maps a buffer to its current blockno, which the code    *)
(* reads through the stored pointer at every comparison.  Each operation   *)
(* yields the heap it leaves and the fault it runs into, or "none".        *)
(***************************************************************************)
EXTENDS Integers

CONSTANT Capacity        \* length of data[] and value of heap->Capacity

\* The loop of insertMinHeap from every p: where it stops, and which entries
\* get the request of their parent.  x climbs while its parent is larger; at
\* 0 the parent of p is p itself.
Climb(h, x, key) ==
  LET f[p \in 0 .. Capacity] ==
        IF p > 0 /\ key[h.data[p \div 2].b] > key[x.b]
        THEN [stop |-> f[p \div 2].stop, moved |-> f[p \div 2].moved \cup {p}]
        ELSE [stop |-> p, moved |-> {}]
  IN  f

insertUnshifted(h, x, key) ==                     \* mutant: nothing moves down
  [heap |-> [data |-> [h.data EXCEPT ![Climb(h, x, key)[h.Size + 1].stop] = x], Size |-> h.Size + 1],
   fault |-> "none"]

insertMinHeap(h, x, key) ==
  LET loop == Climb(h, x, key)[h.Size + 1]
  IN  IF h.Size = Capacity THEN [heap |-> h, fault |-> "queue out of capacity"]
      ELSE IF h.Size + 1 = Capacity
      THEN [heap |-> [data |-> h.data, Size |-> h.Size + 1], fault |-> "insertMinHeap: past data[]"]
      ELSE IF loop.stop = 0 /\ key[h.data[0].b] > key[x.b]
      THEN [heap |-> h, fault |-> "insertMinHeap: endless loop"]
      ELSE [heap |-> [data |-> [i \in 0 .. Capacity - 1 |->
                                  IF i = loop.stop THEN x
                                  ELSE IF i \in loop.moved THEN h.data[i \div 2] ELSE h.data[i]],
                      Size |-> h.Size + 1],
            fault |-> "none"]

LeftChild(h, n, i, key) == 2 * i                  \* mutant: never compares

\* The child the hole moves to from i, in a heap of n elements.
SmallerChild(h, n, i, key) ==
  IF 2 * i # n /\ key[h.data[2 * i].b] > key[h.data[2 * i + 1].b]
  THEN 2 * i + 1 ELSE 2 * i

\* The loop of deleteFromMinHeap from every i: where it leaves the hole for
\* `last`, and which entries get the request of their smaller child.
Sink(h, n, last, key) ==
  LET f[i \in 1 .. Capacity] ==
        LET c == SmallerChild(h, n, i, key) IN
        IF 2 * i <= n /\ ~(key[h.data[c].b] > key[last.b])
        THEN [stop |-> f[c].stop, moved |-> f[c].moved \cup {i}]
        ELSE [stop |-> i, moved |-> {}]
  IN  f

deleteFromMinHeap(h, key) ==
  IF h.Size < 0 THEN [heap |-> h, fault |-> "deleteFromMinHeap: before data[]"]
  ELSE LET n == h.Size - 1
           last == h.data[h.Size]
           loop == Sink(h, n, last, key)[1]
       IN  [heap |-> [data |-> [i \in 0 .. Capacity - 1 |->
                                  IF i = loop.stop THEN last
                                  ELSE IF i \in loop.moved
                                  THEN h.data[SmallerChild(h, n, i, key)]
                                  ELSE h.data[i]],
                      Size |-> n],
            fault |-> "none"]
=============================================================================
